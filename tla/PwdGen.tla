------------------------------- MODULE PwdGen -------------------------------
(***************************************************************************)
(* The table-driven password generator of src/src/main/pwdgen.c for SIMPLE *)
(* and GROUPED sets: pwdgen_init() checks the chunk and sets the first     *)
(* password, pwdgen_next() makes one password after the other until the    *)
(* end of the chunk or the timeout.                                        *)
(*                                                                         *)
(* This is the generator with one output encoding, the generator's own,    *)
(* and no prefix: pwdgen_finalize() then makes the string the worker reads *)
(* (cur) an alias of pwd and every conversion is skipped.  WorkerEnc is    *)
(* the generator that converts.                                            *)
(***************************************************************************)
EXTENDS Keyspace, PwdTimer

CONSTANTS
  Chars,      \* every character of a set or of a chunk
  Chunks      \* the (first, last) passwords a command line may name

(***************************************************************************)
(* A chunk's passwords are not empty, and there is room for one character  *)
(* more: they come as hex digits in buffers of PWD_LEN characters, so they *)
(* are shorter than PWD_LEN / 2 in the code.                               *)
(***************************************************************************)
ASSUME ChunkAssumption ==
  /\ Default \in Seq(Chars)
  /\ \A j \in 1 .. Len(Pairs) : Pairs[j].chars \in Seq(Chars)
  /\ \A c \in Chunks :
       /\ c[1] \in Seq(Chars) /\ Len(c[1]) \in 1 .. PWD_LEN - 1
       /\ c[2] \in Seq(Chars) /\ Len(c[2]) \in 1 .. PWD_LEN - 1

VARIABLES
  start,      \* the first password of the chunk, from the command line
  end,        \* the last one
  sameText,   \* their hex strings on the command line are the same text
  pwd,        \* the current password
  pwd_digit,  \* one digit per column of the current password
  end_digit,  \* one digit per column of the end password
  overflow,   \* how many characters, from the right, the last step changed
  once        \* 1 when there is only one password to check

chunkVars == <<start, end, sameText>>
genVars   == <<pwd, pwd_digit, end_digit, overflow, once>>

gen_length == Len(pwd_digit)

(***************************************************************************)
(* pwdgen_init() for the chunk start .. end: an end shorter than the start *)
(* or a character that its column's table does not hold is an error.  That *)
(* the end comes after the start is not checked.  The chunk is taken for   *)
(* one password when the hex strings are the same, before they are decoded *)
(* ("6a" and "6A" are two texts of one password).                          *)
(***************************************************************************)
ChunkGiven ==
  /\ \E c \in Chunks : start = c[1] /\ end = c[2]
  /\ sameText \in {start = end, FALSE}

ChunkAccepted == Len(start) <= Len(end) /\ Legal(end) /\ Legal(start)

pwdgen_init ==
  /\ ChunkAccepted
  /\ end_digit' = DigitsOf(end)
  /\ pwd_digit' = DigitsOf(start)
  /\ pwd' = start
  /\ overflow' = Len(start)
  /\ once' = IF sameText THEN 1 ELSE 0

-----------------------------------------------------------------------------
\* Mutation: the end is only looked for when the last column advanced.
AtEndInLastColumn(d) ==
  /\ d = Len(end)
  /\ Len(pwd_digit') = Len(end)
  /\ pwd_digit'[d] = end_digit[d]
  /\ pwd' = end

(***************************************************************************)
(* Column d was the last one to change: is the password now the end        *)
(* password?                                                               *)
(***************************************************************************)
AtEnd(d) ==
  /\ Len(pwd_digit') = Len(end)
  /\ pwd_digit'[d] = end_digit[d]
  /\ pwd' = end

\* Mutation: the column where the carry stopped is not counted.
ChangedRightOf(d) == gen_length - d

\* Columns d to the last.
ChangedFrom(d) == gen_length - d + 1

\* The carry stops at column d: it advances, the columns right of it restart.
AdvanceTo(d) ==
  /\ pwd_digit' = Carry(pwd_digit, d)
  /\ pwd' = [i \in 1 .. gen_length |->
               IF i < d THEN pwd[i] ELSE Table(gen_length, i, pwd_digit'[i])]
  /\ overflow' = ChangedFrom(d)

\* Every column overflowed: one character more, all columns at their first one.
Lengthen ==
  /\ pwd_digit' = Extend(pwd_digit)
  /\ pwd' = [i \in 1 .. Len(pwd_digit') |-> Table(Len(pwd_digit'), i, 0)]
  /\ overflow' = Len(pwd_digit')

\* Mutation: the length of the end password is taken for too long.
OvershotEarly == Len(pwd_digit') >= Len(end)

\* The step left the chunk: longer than the end password.
Overshot == Len(pwd_digit') > Len(end)

(***************************************************************************)
(* pwdgen_next() once the time check let it pass; rc is its return value,  *)
(* 1 to stop after this password and 0 to go on.                           *)
(***************************************************************************)
MakeNext(rc) ==
  LET left == Advanceable(pwd_digit)
      d    == Rightmost(left)
  IN  /\ \/ left # {} /\ AdvanceTo(d) /\ rc = (IF AtEnd(d) THEN 1 ELSE 0)
         \/ left = {} /\ Lengthen     /\ rc = (IF Overshot \/ AtEnd(1) THEN 1 ELSE 0)
      /\ UNCHANGED <<end_digit, once>>

(***************************************************************************)
(* pwdgen_next(): count, perhaps look at the clock, and go on only when    *)
(* there is time left.  A timeout leaves the password as it is.            *)
(***************************************************************************)
pwdgen_next(rc) ==
  /\ CountPwd
  /\ \/ timedOut' /\ rc = PWD_TIMEOUT /\ UNCHANGED genVars
     \/ ~timedOut' /\ MakeNext(rc)
  /\ UNCHANGED chunkVars
=============================================================================
