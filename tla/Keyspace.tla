------------------------------ MODULE Keyspace ------------------------------
(***************************************************************************)
(* The key room of a SIMPLE or GROUPED character set, as the table-driven  *)
(* generator of src/src/main/pwdgen.c walks it.                            *)
(*                                                                         *)
(* A password of length l has l columns.  pwdgen_init_tables() gives every *)
(* column a table of characters: the set's own characters (SIMPLE), or the *)
(* characters of the first pair whose position is the column's, counted    *)
(* from the left (1, 2, ...) or from the right (-1, -2, ...), and those of *)
(* the default set elsewhere (GROUPED).  The generator counts through the  *)
(* tables with one digit per column (pwd_digit, from 0), rightmost column  *)
(* fastest; a key is such a vector of digits and the password it stands    *)
(* for is its word.                                                        *)
(***************************************************************************)
EXTENDS Integers, Sequences

CONSTANTS
  SetType,    \* "SIMPLE" or "GROUPED": the type of the chunk's character set
  Default,    \* the characters of the SIMPLE set, or of the default set
  Pairs,      \* the (position, characters) pairs of a GROUPED set, in file order
  MAXCHARS,   \* most characters in one table (256 in pwdread.h)
  PWD_LEN     \* bound on the length of a password (256 in pwdgen.h)

(***************************************************************************)
(* What pwdgen_read_charsets() guarantees of a set: no table is empty or   *)
(* longer than MAXCHARS, and a SIMPLE set has no pairs.                    *)
(***************************************************************************)
ASSUME CharsetAssumption ==
  /\ SetType \in {"SIMPLE", "GROUPED"}
  /\ SetType = "SIMPLE" => Pairs = << >>
  /\ MAXCHARS \in Nat \ {0}
  /\ PWD_LEN \in Nat \ {0}
  /\ Len(Default) \in 1 .. MAXCHARS
  /\ \A j \in 1 .. Len(Pairs) : Len(Pairs[j].chars) \in 1 .. MAXCHARS
  /\ Len(Pairs) \in Nat

-----------------------------------------------------------------------------
(***************************************************************************)
(* The tables: Column(l, i) are the characters of column i, counted from   *)
(* 1, of the passwords of length l.                                        *)
(***************************************************************************)
Matching(l, i) == {j \in 1 .. Len(Pairs) : Pairs[j].pos \in {i, -(l - i + 1)}}

Column(l, i) ==
  IF Matching(l, i) = {}
    THEN Default
    ELSE Pairs[CHOOSE j \in Matching(l, i) : \A m \in Matching(l, i) : j <= m].chars

Lens(l, i) == Len(Column(l, i))

Table(l, i, d) == Column(l, i)[d + 1]

(***************************************************************************)
(* Keys and the words they stand for.                                      *)
(***************************************************************************)
Digits == 0 .. MAXCHARS - 1

KeysOfLength(l) ==
  {k \in [1 .. l -> Digits] : \A i \in 1 .. l : k[i] < Lens(l, i)}

Keys == UNION {KeysOfLength(l) : l \in 1 .. PWD_LEN}

Word(k) == [i \in 1 .. Len(k) |-> Table(Len(k), i, k[i])]

(***************************************************************************)
(* The order of the key room: shorter keys first, keys of one length from  *)
(* left to right (A, B, C, AA, AB, ... in API.pod).                        *)
(***************************************************************************)
Precedes(p, q) ==
  \/ Len(p) < Len(q)
  \/ /\ Len(p) = Len(q)
     /\ \E i \in 1 .. Len(p) : /\ p[i] < q[i]
                               /\ \A j \in 1 .. (i - 1) : p[j] = q[j]

AtMost(p, q) == p = q \/ Precedes(p, q)

\* q is the key after p.
Successor(p, q) ==
  /\ Precedes(p, q)
  /\ \A k \in Keys : Precedes(p, k) => AtMost(q, k)

\* The keys from p to q: a chunk, or the part of one that is done.
Between(p, q) == {k \in Keys : AtMost(p, k) /\ AtMost(k, q)}

-----------------------------------------------------------------------------
(***************************************************************************)
(* One step of the table-driven counter.  The columns that are not at      *)
(* their last character can still be advanced; the carry of pwdgen_next()  *)
(* stops at the rightmost of them, and every column right of it starts     *)
(* again.                                                                  *)
(***************************************************************************)
Advanceable(k) == {i \in 1 .. Len(k) : k[i] + 1 < Lens(Len(k), i)}

Rightmost(S) == CHOOSE d \in S : \A i \in S : i <= d

\* Mutation: the columns right of the carry keep their digits.
CarryKeeps(k, d) == [k EXCEPT ![d] = @ + 1]

Carry(k, d) ==
  [i \in 1 .. Len(k) |-> IF i < d THEN k[i] ELSE IF i = d THEN k[i] + 1 ELSE 0]

(***************************************************************************)
(* All columns overflowed: the password gets one character longer and      *)
(* pwdgen_init_tables(.., 2) sets it up.  Only for a GROUPED set does it   *)
(* reset every digit; for a SIMPLE set it resets the last one and relies   *)
(* on the carry to have left 0 in the others.                              *)
(***************************************************************************)
Rollover(k) == [i \in 1 .. Len(k) |-> 0]

\* Mutation: the length stays as it is.
ExtendForgotten(k) == Rollover(k)

\* Mutation: the length stops one short of what the buffer has room for.
ExtendWhileRoom(k) ==
  [i \in 1 .. (IF Len(k) + 2 < PWD_LEN THEN Len(k) + 1 ELSE Len(k)) |-> 0]

Extend(k) ==
  [i \in 1 .. Len(k) + 1 |->
     IF SetType = "GROUPED" \/ i = Len(k) + 1 THEN 0 ELSE Rollover(k)[i]]

(***************************************************************************)
(* pwdgen_init() looks every character of the start and of the end         *)
(* password up in its column and takes the first digit that shows it.      *)
(***************************************************************************)
Legal(w) == \A i \in 1 .. Len(w) : \E d \in 0 .. Lens(Len(w), i) - 1 : Table(Len(w), i, d) = w[i]

FirstDigit(w, i) ==
  CHOOSE d \in 0 .. Lens(Len(w), i) - 1 :
    /\ Table(Len(w), i, d) = w[i]
    /\ \A e \in 0 .. d - 1 : Table(Len(w), i, e) # w[i]

DigitsOf(w) == [i \in 1 .. Len(w) |-> FirstDigit(w, i)]
=============================================================================
