-------------------------- MODULE GeneratorProofs --------------------------
(***************************************************************************)
(* Facts that every worker with a table-driven generator rests on.  About  *)
(* the key room, for every set of characters and every length: its order   *)
(* is a strict total one, and one step of the counter leads to the         *)
(* immediate successor of a key.  About PwdGen and Main: what              *)
(* pwdgen_init() makes of a chunk, what one pwdgen_next() makes of a key,  *)
(* what its result says, and what becomes of the sum of the results.       *)
(***************************************************************************)
EXTENDS Main, TimerProofs

(***************************************************************************)
(* Tables and keys.                                                        *)
(***************************************************************************)

\* Every column has a table of 1 to MAXCHARS characters.
LEMMA LensBounds ==
  ASSUME NEW l \in Nat, NEW i \in Nat
  PROVE  Lens(l, i) \in 1 .. MAXCHARS
<1>1. CASE Matching(l, i) = {}
  BY <1>1, CharsetAssumption DEF Lens, Column, CharsetAssumption
<1>2. CASE Matching(l, i) # {}
  <2>1. Matching(l, i) \in SUBSET Nat /\ Matching(l, i) \subseteq 1 .. Len(Pairs)
    BY CharsetAssumption DEF Matching, CharsetAssumption
  <2> DEFINE j == CHOOSE j \in Matching(l, i) : \A m \in Matching(l, i) : j <= m
  <2>2. j \in 1 .. Len(Pairs)
    BY <1>2, <2>1, LeastNumber
  <2>3. Column(l, i) = Pairs[j].chars
    BY <1>2 DEF Column
  <2> HIDE DEF j
  <2> QED BY <2>2, <2>3, CharsetAssumption DEF Lens, CharsetAssumption
<1> QED BY <1>1, <1>2

\* A key is a sequence of digits.
LEMMA KeyFacts ==
  ASSUME NEW k \in Keys
  PROVE  /\ k \in Seq(Digits)
         /\ Len(k) \in 1 .. PWD_LEN
         /\ k \in [1 .. Len(k) -> Digits]
         /\ k \in KeysOfLength(Len(k))
         /\ \A i \in 1 .. Len(k) : k[i] \in Nat /\ k[i] < Lens(Len(k), i)
<1>1. PICK l \in 1 .. PWD_LEN : k \in KeysOfLength(l)
  BY DEF Keys
<1>2. k \in [1 .. l -> Digits] /\ l \in Nat
  BY <1>1, CharsetAssumption DEF KeysOfLength, CharsetAssumption
<1>3. k \in Seq(Digits) /\ Len(k) = l
  BY <1>2
<1>4. Digits \subseteq Nat
  BY CharsetAssumption DEF Digits, CharsetAssumption
<1> QED BY <1>1, <1>2, <1>3, <1>4 DEF KeysOfLength

\* A vector of digits that fit their columns is a key.
LEMMA IsKey ==
  ASSUME NEW l \in 1 .. PWD_LEN, NEW k \in [1 .. l -> Nat],
         \A i \in 1 .. l : k[i] < Lens(l, i)
  PROVE  k \in Keys /\ Len(k) = l
<1>1. l \in Nat
  BY CharsetAssumption DEF CharsetAssumption
<1>2. ASSUME NEW i \in 1 .. l PROVE k[i] \in Digits
  <2>1. i \in Nat
    BY <1>1
  <2>2. Lens(l, i) \in 1 .. MAXCHARS
    BY <1>1, <2>1, LensBounds
  <2> QED BY <2>2, CharsetAssumption DEF Digits, CharsetAssumption
<1>3. k \in [1 .. l -> Digits]
  BY <1>2
<1>4. Len(k) = l
  BY <1>1
<1> QED BY <1>3, <1>4 DEF Keys, KeysOfLength

\* Two keys of one length differ in a first column, or are the same.
LEMMA FirstDifference ==
  ASSUME NEW p \in Keys, NEW q \in Keys, Len(p) = Len(q), p # q
  PROVE  \E i \in 1 .. Len(p) : p[i] # q[i] /\ \A j \in 1 .. (i - 1) : p[j] = q[j]
<1> DEFINE D == {i \in 1 .. Len(p) : p[i] # q[i]}
<1>1. Len(p) \in Nat /\ p \in [1 .. Len(p) -> Digits] /\ q \in [1 .. Len(p) -> Digits]
  BY KeyFacts
<1>2. D # {}
  BY <1>1
<1>3. D \in SUBSET Nat
  BY <1>1
<1>4. PICK i \in D : \A x \in D : i <= x
  BY <1>2, <1>3, LeastNumber
<1>5. ASSUME NEW j \in 1 .. (i - 1) PROVE p[j] = q[j]
  <2>1. j \in 1 .. Len(p) /\ ~(i <= j)
    BY <1>1
  <2> QED BY <1>4, <2>1
<1> QED BY <1>5

-----------------------------------------------------------------------------
(***************************************************************************)
(* The order of the key room.                                              *)
(***************************************************************************)
LEMMA Irreflexive ==
  ASSUME NEW p \in Keys PROVE ~Precedes(p, p)
BY KeyFacts DEF Precedes

LEMMA Total ==
  ASSUME NEW p \in Keys, NEW q \in Keys
  PROVE  Precedes(p, q) \/ p = q \/ Precedes(q, p)
<1>1. Len(p) \in Nat /\ Len(q) \in Nat
  BY KeyFacts
<1>2. CASE Len(p) # Len(q)
  BY <1>1, <1>2 DEF Precedes
<1>3. CASE Len(p) = Len(q) /\ p # q
  <2>1. PICK i \in 1 .. Len(p) : p[i] # q[i] /\ \A j \in 1 .. (i - 1) : p[j] = q[j]
    BY <1>3, FirstDifference
  <2>2. p[i] \in Nat /\ q[i] \in Nat
    BY <1>3, KeyFacts
  <2>3. p[i] < q[i] \/ q[i] < p[i]
    BY <2>1, <2>2
  <2> QED BY <1>3, <2>1, <2>3 DEF Precedes
<1> QED BY <1>2, <1>3

LEMMA Transitive ==
  ASSUME NEW p \in Keys, NEW q \in Keys, NEW r \in Keys, Precedes(p, q), Precedes(q, r)
  PROVE  Precedes(p, r)
<1>1. Len(p) \in Nat /\ Len(q) \in Nat /\ Len(r) \in Nat
  BY KeyFacts
<1>2. CASE Len(p) < Len(q) \/ Len(q) < Len(r)
  BY <1>1, <1>2 DEF Precedes
<1>3. CASE Len(p) = Len(q) /\ Len(q) = Len(r)
  <2>1. PICK a \in 1 .. Len(p) : p[a] < q[a] /\ \A j \in 1 .. (a - 1) : p[j] = q[j]
    BY <1>1, <1>3 DEF Precedes
  <2>2. PICK b \in 1 .. Len(p) : q[b] < r[b] /\ \A j \in 1 .. (b - 1) : q[j] = r[j]
    BY <1>1, <1>3 DEF Precedes
  <2>3. \A i \in 1 .. Len(p) : p[i] \in Nat /\ q[i] \in Nat /\ r[i] \in Nat
    BY <1>3, KeyFacts
  <2>4. CASE a <= b
    <3>1. p[a] < r[a]
      <4>1. q[a] <= r[a]
        BY <1>1, <2>2, <2>3, <2>4, SMTT(30)
      <4> QED BY <2>1, <2>3, <4>1
    <3>2. \A j \in 1 .. (a - 1) : p[j] = r[j]
      BY <1>1, <2>1, <2>2, <2>4
    <3> QED BY <1>3, <3>1, <3>2 DEF Precedes
  <2>5. CASE b < a
    <3>1. p[b] < r[b]
      BY <1>1, <2>1, <2>2, <2>5
    <3>2. \A j \in 1 .. (b - 1) : p[j] = r[j]
      BY <1>1, <2>1, <2>2, <2>5
    <3> QED BY <1>3, <3>1, <3>2 DEF Precedes
  <2> QED BY <1>1, <2>4, <2>5
<1> QED BY <1>1, <1>2, <1>3 DEF Precedes

\* A key comes before the keys that come after a later one, and so on.
LEMMA AtMostTransitive ==
  ASSUME NEW p \in Keys, NEW q \in Keys, NEW r \in Keys, AtMost(p, q), AtMost(q, r)
  PROVE  AtMost(p, r)
BY Transitive DEF AtMost

\* Between a key and its successor there is none: what is done up to the
\* successor is what was done up to the key, and the successor.
LEMMA BetweenGrows ==
  ASSUME NEW s \in Keys, NEW p \in Keys, NEW q \in Keys, AtMost(s, p), Successor(p, q)
  PROVE  AtMost(s, q) /\ Between(s, q) = Between(s, p) \union {q}
<1>1. Precedes(p, q) /\ AtMost(p, q)
  BY DEF Successor, AtMost
<1>2. AtMost(s, q)
  BY <1>1, AtMostTransitive
<1>3. ASSUME NEW k \in Keys, AtMost(k, p) PROVE AtMost(k, q)
  BY <1>1, <1>3, AtMostTransitive
<1>4. ASSUME NEW k \in Keys, AtMost(k, q), k # q PROVE AtMost(k, p)
  <2>1. CASE Precedes(p, k)
    <3>1. AtMost(q, k)
      BY <2>1 DEF Successor
    <3>2. Precedes(q, k) /\ Precedes(k, q)
      BY <1>4, <3>1 DEF AtMost
    <3> QED BY <3>2, Transitive, Irreflexive
  <2>2. CASE ~Precedes(p, k)
    BY <2>2, Total DEF AtMost
  <2> QED BY <2>1, <2>2
<1> QED BY <1>2, <1>3, <1>4 DEF Between, AtMost

LEMMA BetweenItself ==
  ASSUME NEW p \in Keys PROVE Between(p, p) = {p}
BY Transitive, Irreflexive DEF Between, AtMost

-----------------------------------------------------------------------------
(***************************************************************************)
(* The step of the counter.  The carry stops at the rightmost column that  *)
(* can be advanced: a key that comes after k differs from k first in a     *)
(* column that can be advanced, that is there or further left, and the     *)
(* columns right of the carry are at their least.                          *)
(***************************************************************************)
LEMMA RightmostFacts ==
  ASSUME NEW k \in Keys, Advanceable(k) # {}
  PROVE  /\ Rightmost(Advanceable(k)) \in Advanceable(k)
         /\ \A i \in Advanceable(k) : i <= Rightmost(Advanceable(k))
<1>1. Len(k) \in Nat /\ Advanceable(k) \in SUBSET (1 .. Len(k))
  BY KeyFacts DEF Advanceable
<1>2. \E d \in Advanceable(k) : \A i \in Advanceable(k) : i <= d
  BY <1>1, GreatestNumber
<1> QED BY <1>2 DEF Rightmost

LEMMA CarryIsKey ==
  ASSUME NEW k \in Keys, NEW d \in Advanceable(k)
  PROVE  /\ Carry(k, d) \in Keys
         /\ Len(Carry(k, d)) = Len(k)
         /\ d \in 1 .. Len(k)
<1>1. /\ Len(k) \in 1 .. PWD_LEN /\ Len(k) \in Nat
      /\ \A i \in 1 .. Len(k) : k[i] \in Nat /\ k[i] < Lens(Len(k), i)
  BY KeyFacts
<1>2. d \in 1 .. Len(k) /\ k[d] + 1 < Lens(Len(k), d)
  BY DEF Advanceable
<1>3. Carry(k, d) \in [1 .. Len(k) -> Nat]
  BY <1>1 DEF Carry
<1>4. ASSUME NEW i \in 1 .. Len(k) PROVE Carry(k, d)[i] < Lens(Len(k), i)
  <2>1. i \in Nat
    BY <1>1
  <2>2. Lens(Len(k), i) \in 1 .. MAXCHARS
    BY <1>1, <2>1, LensBounds
  <2>3. Lens(Len(k), i) \in Nat /\ 0 < Lens(Len(k), i)
    BY <2>2, CharsetAssumption DEF CharsetAssumption
  <2> QED BY <1>1, <1>2, <2>3 DEF Carry
<1> QED BY <1>1, <1>2, <1>3, <1>4, IsKey

\* A key of the same length that comes after k differs from it first in a
\* column that can be advanced.
LEMMA LaterKeyAdvances ==
  ASSUME NEW k \in Keys, NEW m \in Keys, Precedes(k, m), Len(m) = Len(k)
  PROVE  \E i \in Advanceable(k) : k[i] < m[i] /\ \A j \in 1 .. (i - 1) : k[j] = m[j]
<1>1. PICK i \in 1 .. Len(k) : k[i] < m[i] /\ \A j \in 1 .. (i - 1) : k[j] = m[j]
  BY KeyFacts DEF Precedes
<1>2. k[i] \in Nat /\ m[i] \in Nat /\ m[i] < Lens(Len(k), i)
  BY KeyFacts
<1>3. Lens(Len(k), i) \in Nat
  <2>1. Len(k) \in Nat /\ i \in Nat
    BY KeyFacts
  <2>2. Lens(Len(k), i) \in 1 .. MAXCHARS
    BY <2>1, LensBounds
  <2> QED BY <2>2
<1>4. k[i] + 1 < Lens(Len(k), i)
  BY <1>1, <1>2, <1>3
<1> QED BY <1>1, <1>4 DEF Advanceable

\* pwdgen_next(), when a column can be advanced, makes the next key of the room.
THEOREM CarryIsSuccessor ==
  ASSUME NEW k \in Keys, Advanceable(k) # {}
  PROVE  LET c == Carry(k, Rightmost(Advanceable(k)))
         IN  c \in Keys /\ Len(c) = Len(k) /\ Successor(k, c)
<1> DEFINE d == Rightmost(Advanceable(k))
           c == Carry(k, d)
<1>1. d \in Advanceable(k) /\ \A i \in Advanceable(k) : i <= d
  BY RightmostFacts
<1> HIDE DEF d
<1>2. c \in Keys /\ Len(c) = Len(k) /\ d \in 1 .. Len(k) /\ Len(k) \in Nat
  BY <1>1, CarryIsKey, KeyFacts
<1>3. \A i \in 1 .. Len(k) : k[i] \in Nat /\ c[i] \in Nat
  BY <1>2, KeyFacts
<1>4. /\ c[d] = k[d] + 1
      /\ \A j \in 1 .. Len(k) : (j < d => c[j] = k[j]) /\ (j > d => c[j] = 0)
  BY <1>2 DEF Carry
<1> HIDE DEF c
<1>5. Precedes(k, c)
  <2>1. k[d] < c[d]
    BY <1>2, <1>3, <1>4
  <2>2. \A j \in 1 .. (d - 1) : k[j] = c[j]
    BY <1>2, <1>4
  <2> QED BY <1>2, <2>1, <2>2 DEF Precedes
<1>6. ASSUME NEW m \in Keys, Precedes(k, m) PROVE AtMost(c, m)
  <2>1. CASE Len(m) # Len(k)
    BY <1>2, <1>6, <2>1 DEF Precedes, AtMost
  <2>2. CASE Len(m) = Len(k) /\ c # m
    <3>1. PICK i \in Advanceable(k) : k[i] < m[i] /\ \A j \in 1 .. (i - 1) : k[j] = m[j]
      BY <1>6, <2>2, LaterKeyAdvances
    <3>2. i \in 1 .. Len(k) /\ i <= d
      BY <1>1, <3>1 DEF Advanceable
    <3>3. PICK f \in 1 .. Len(k) : c[f] # m[f] /\ \A j \in 1 .. (f - 1) : c[j] = m[j]
      BY <1>2, <2>2, FirstDifference
    <3>4. m[f] \in Nat /\ c[f] \in Nat /\ m[i] \in Nat /\ c[i] \in Nat
      BY <1>2, <1>3, <2>2, <3>2, KeyFacts
    <3>5. c[f] < m[f]
      <4>1. CASE f > d
        <5>1. c[f] = 0
          BY <1>4, <4>1
        <5> QED BY <3>3, <3>4, <5>1
      <4>2. CASE f <= d /\ f < i
        <5>1. c[f] = k[f] /\ k[f] = m[f]
          BY <1>2, <1>4, <3>1, <3>2, <4>2
        <5> QED BY <3>3, <5>1
      <4>3. CASE f <= d /\ f = i
        <5>1. c[f] = k[f] \/ (f = d /\ c[f] = k[f] + 1)
          BY <1>2, <1>4, <4>3
        <5> QED BY <1>3, <3>1, <3>3, <3>4, <4>3, <5>1
      <4>4. CASE f <= d /\ f > i
        <5>1. i < d /\ i \in 1 .. (f - 1)
          BY <1>2, <3>2, <4>4
        <5>2. c[i] = k[i] /\ c[i] = m[i]
          BY <1>4, <3>2, <3>3, <5>1
        <5> QED BY <3>1, <3>4, <5>2
      <4> QED BY <1>2, <3>2, <4>1, <4>2, <4>3, <4>4
    <3> QED BY <1>2, <2>2, <3>3, <3>5 DEF AtMost, Precedes
  <2>3. CASE c = m
    BY <2>3 DEF AtMost
  <2> QED BY <2>1, <2>2, <2>3
<1>7. Successor(k, c)
  BY <1>5, <1>6 DEF Successor
<1> QED BY <1>2, <1>7 DEF c, d

\* pwdgen_next(), when every column is at its last character, makes the first key
\* of the next length, and that is the next key of the room.
THEOREM ExtendIsSuccessor ==
  ASSUME NEW k \in Keys, Advanceable(k) = {}, Len(k) < PWD_LEN
  PROVE  Extend(k) \in Keys /\ Len(Extend(k)) = Len(k) + 1 /\ Successor(k, Extend(k))
<1> DEFINE e == Extend(k)
<1>1. Len(k) \in Nat /\ Len(k) + 1 \in 1 .. PWD_LEN
  BY KeyFacts, CharsetAssumption DEF CharsetAssumption
<1>2. e \in [1 .. Len(k) + 1 -> Nat] /\ \A i \in 1 .. Len(k) + 1 : e[i] = 0
  BY <1>1 DEF Extend, Rollover
<1> HIDE DEF e
<1>3. ASSUME NEW i \in 1 .. Len(k) + 1 PROVE e[i] < Lens(Len(k) + 1, i)
  <2>1. i \in Nat /\ Len(k) + 1 \in Nat
    BY <1>1
  <2>2. Lens(Len(k) + 1, i) \in 1 .. MAXCHARS
    BY <2>1, LensBounds
  <2> QED BY <1>2, <2>2, CharsetAssumption DEF CharsetAssumption
<1>4. e \in Keys /\ Len(e) = Len(k) + 1
  BY <1>1, <1>2, <1>3, IsKey
<1>5. Precedes(k, e)
  BY <1>1, <1>4 DEF Precedes
<1>6. ASSUME NEW m \in Keys, Precedes(k, m) PROVE AtMost(e, m)
  <2>1. Len(m) \in Nat
    BY KeyFacts
  <2>2. Len(m) # Len(k)
    BY <1>6, LaterKeyAdvances
  <2>3. Len(m) > Len(k)
    BY <1>1, <1>6, <2>1, <2>2 DEF Precedes
  <2>4. CASE Len(m) > Len(k) + 1
    BY <1>1, <1>4, <2>1, <2>4 DEF Precedes, AtMost
  <2>5. CASE Len(m) = Len(k) + 1 /\ e # m
    <3>1. PICK f \in 1 .. Len(e) : e[f] # m[f] /\ \A j \in 1 .. (f - 1) : e[j] = m[j]
      BY <1>4, <2>5, FirstDifference, SMTT(30)
    <3>2. e[f] = 0 /\ m[f] \in Nat
      BY <1>2, <1>4, <2>5, <3>1, KeyFacts
    <3> QED BY <1>4, <2>5, <3>1, <3>2 DEF AtMost, Precedes
  <2>6. CASE e = m
    BY <2>6 DEF AtMost
  <2> QED BY <1>1, <2>1, <2>3, <2>4, <2>5, <2>6
<1> QED BY <1>4, <1>5, <1>6 DEF Successor, e

-----------------------------------------------------------------------------
(***************************************************************************)
(* The digits that pwdgen_init() finds for a legal password are a key, the *)
(* first that shows the password.                                          *)
(***************************************************************************)
LEMMA FirstDigitFacts ==
  ASSUME NEW w, NEW i \in 1 .. Len(w), Len(w) \in Nat, Legal(w)
  PROVE  /\ FirstDigit(w, i) \in 0 .. Lens(Len(w), i) - 1
         /\ FirstDigit(w, i) \in Nat
         /\ FirstDigit(w, i) < Lens(Len(w), i)
         /\ Table(Len(w), i, FirstDigit(w, i)) = w[i]
         /\ \A d \in Nat : d < Lens(Len(w), i) /\ Table(Len(w), i, d) = w[i]
                             => FirstDigit(w, i) <= d
<1> DEFINE Shows == {d \in 0 .. Lens(Len(w), i) - 1 : Table(Len(w), i, d) = w[i]}
<1>1. Lens(Len(w), i) \in Nat
  BY LensBounds
<1>2. Shows # {} /\ Shows \in SUBSET Nat
  BY DEF Legal
<1>3. PICK m \in Shows : \A d \in Shows : m <= d
  BY <1>2, LeastNumber
<1>4. \A e \in 0 .. m - 1 : Table(Len(w), i, e) # w[i]
  <2>1. ASSUME NEW e \in 0 .. m - 1 PROVE e \in 0 .. Lens(Len(w), i) - 1 /\ ~(m <= e)
    BY <1>1, <1>3
  <2> QED BY <1>3, <2>1
<1>5. /\ FirstDigit(w, i) \in 0 .. Lens(Len(w), i) - 1
      /\ Table(Len(w), i, FirstDigit(w, i)) = w[i]
      /\ \A e \in 0 .. FirstDigit(w, i) - 1 : Table(Len(w), i, e) # w[i]
  BY <1>3, <1>4 DEF FirstDigit
<1>6. ASSUME NEW d \in Nat, Table(Len(w), i, d) = w[i] PROVE FirstDigit(w, i) <= d
  <2>1. d \notin 0 .. FirstDigit(w, i) - 1
    BY <1>5, <1>6
  <2> QED BY <1>1, <1>5, <2>1
<1> QED BY <1>1, <1>5, <1>6

LEMMA DigitsOfFacts ==
  ASSUME NEW w \in Seq(Chars), Len(w) \in 1 .. PWD_LEN, Legal(w)
  PROVE  /\ DigitsOf(w) \in Keys
         /\ Len(DigitsOf(w)) = Len(w)
         /\ Word(DigitsOf(w)) = w
<1>1. Len(w) \in Nat
  OBVIOUS
<1>2. \A i \in 1 .. Len(w) : /\ FirstDigit(w, i) \in Nat
                             /\ FirstDigit(w, i) < Lens(Len(w), i)
                             /\ Table(Len(w), i, FirstDigit(w, i)) = w[i]
  BY <1>1, FirstDigitFacts
<1>3. DigitsOf(w) \in [1 .. Len(w) -> Nat]
  BY <1>2 DEF DigitsOf
<1>4. \A i \in 1 .. Len(w) : DigitsOf(w)[i] = FirstDigit(w, i)
  BY DEF DigitsOf
<1>5. DigitsOf(w) \in Keys /\ Len(DigitsOf(w)) = Len(w)
  BY <1>2, <1>3, <1>4, IsKey
<1>6. Word(DigitsOf(w)) = [i \in 1 .. Len(w) |-> w[i]]
  BY <1>2, <1>4, <1>5 DEF Word
<1> QED BY <1>5, <1>6

\* The chunks of the specification, accepted ones in particular.
LEMMA ChunkFacts ==
  ASSUME ChunkGiven, ChunkAccepted
  PROVE  /\ Len(start) \in Nat /\ Len(end) \in Nat /\ Len(end) < PWD_LEN
         /\ Len(start) <= Len(end)
         /\ DigitsOf(start) \in Keys /\ Len(DigitsOf(start)) = Len(start)
         /\ Word(DigitsOf(start)) = start
         /\ DigitsOf(end) \in Keys /\ Len(DigitsOf(end)) = Len(end)
         /\ Word(DigitsOf(end)) = end
<1>1. PICK c \in Chunks : start = c[1] /\ end = c[2]
  BY DEF ChunkGiven
<1>2. /\ start \in Seq(Chars) /\ Len(start) \in 1 .. PWD_LEN - 1
      /\ end \in Seq(Chars) /\ Len(end) \in 1 .. PWD_LEN - 1
  BY <1>1, ChunkAssumption DEF ChunkAssumption
<1>3. Len(start) \in 1 .. PWD_LEN /\ Len(end) \in 1 .. PWD_LEN
      /\ Len(end) < PWD_LEN
  BY <1>2, CharsetAssumption DEF CharsetAssumption
<1>4. Len(start) <= Len(end) /\ Legal(end) /\ Legal(start)
  BY DEF ChunkAccepted
<1> QED BY <1>2, <1>3, <1>4, DigitsOfFacts

-----------------------------------------------------------------------------
(***************************************************************************)
(* One call of pwdgen_next() that makes a password.                        *)
(***************************************************************************)
LEMMA WordOfKey ==
  ASSUME NEW k \in Keys
  PROVE  /\ Len(Word(k)) = Len(k)
         /\ \A i \in 1 .. Len(k) : Word(k)[i] = Table(Len(k), i, k[i])
<1>1. Len(k) \in Nat
  BY KeyFacts
<1> QED BY <1>1 DEF Word

LEMMA AdvanceShape ==
  ASSUME pwd_digit \in Keys, Advanceable(pwd_digit) # {},
         AdvanceTo(Rightmost(Advanceable(pwd_digit)))
  PROVE  /\ pwd_digit' \in Keys /\ Successor(pwd_digit, pwd_digit')
         /\ Len(pwd_digit') = Len(pwd_digit)
         /\ \E d \in 1 .. Len(pwd_digit) :
              /\ overflow' = Len(pwd_digit) - d + 1
              /\ \A i \in 1 .. Len(pwd_digit) : i < d => pwd_digit'[i] = pwd_digit[i]
              /\ pwd' = [i \in 1 .. Len(pwd_digit) |->
                          IF i < d THEN pwd[i] ELSE Table(Len(pwd_digit), i, pwd_digit'[i])]
<1> DEFINE d == Rightmost(Advanceable(pwd_digit))
<1>1. d \in Advanceable(pwd_digit)
  BY RightmostFacts
<1>2. pwd_digit' = Carry(pwd_digit, d) /\ overflow' = Len(pwd_digit) - d + 1
  BY DEF AdvanceTo, ChangedFrom, gen_length
<1>3. /\ pwd_digit' \in Keys /\ Successor(pwd_digit, pwd_digit')
      /\ Len(pwd_digit') = Len(pwd_digit)
  BY <1>2, CarryIsSuccessor
<1>4. d \in 1 .. Len(pwd_digit)
  BY <1>1, CarryIsKey
<1>5. pwd' = [i \in 1 .. Len(pwd_digit) |->
                IF i < d THEN pwd[i] ELSE Table(Len(pwd_digit), i, pwd_digit'[i])]
  BY DEF AdvanceTo, gen_length
<1> HIDE DEF d
<1>6. \A i \in 1 .. Len(pwd_digit) : i < d => pwd_digit'[i] = pwd_digit[i]
  BY <1>2 DEF Carry
<1> QED BY <1>2, <1>3, <1>4, <1>5, <1>6

LEMMA AdvanceFacts ==
  ASSUME pwd_digit \in Keys, pwd = Word(pwd_digit), Advanceable(pwd_digit) # {},
         AdvanceTo(Rightmost(Advanceable(pwd_digit)))
  PROVE  /\ pwd_digit' \in Keys /\ Successor(pwd_digit, pwd_digit')
         /\ Len(pwd_digit') = Len(pwd_digit)
         /\ pwd' = Word(pwd_digit')
         /\ \A i \in 1 .. Len(pwd') - overflow' : pwd'[i] = pwd[i]
<1>1. /\ pwd_digit' \in Keys /\ Successor(pwd_digit, pwd_digit')
      /\ Len(pwd_digit') = Len(pwd_digit) /\ Len(pwd_digit) \in Nat
  BY AdvanceShape, KeyFacts
<1>2. PICK d \in 1 .. Len(pwd_digit) :
        /\ overflow' = Len(pwd_digit) - d + 1
        /\ \A i \in 1 .. Len(pwd_digit) : i < d => pwd_digit'[i] = pwd_digit[i]
        /\ pwd' = [i \in 1 .. Len(pwd_digit) |->
                    IF i < d THEN pwd[i] ELSE Table(Len(pwd_digit), i, pwd_digit'[i])]
  BY AdvanceShape
<1>3. \A i \in 1 .. Len(pwd_digit) : pwd'[i] = Table(Len(pwd_digit), i, pwd_digit'[i])
  BY <1>2, WordOfKey
<1>4. pwd' = Word(pwd_digit')
  BY <1>1, <1>2, <1>3 DEF Word
<1>5. Len(pwd') = Len(pwd_digit)
  BY <1>1, <1>4, WordOfKey
<1>6. ASSUME NEW i \in 1 .. Len(pwd') - overflow' PROVE pwd'[i] = pwd[i]
  <2>1. i \in 1 .. Len(pwd_digit) /\ i < d
    BY <1>1, <1>2, <1>5
  <2> QED BY <1>2, <2>1
<1> QED BY <1>1, <1>4, <1>6

LEMMA LengthenFacts ==
  ASSUME pwd_digit \in Keys, Advanceable(pwd_digit) = {}, Len(pwd_digit) < PWD_LEN,
         Lengthen
  PROVE  /\ pwd_digit' \in Keys /\ Successor(pwd_digit, pwd_digit')
         /\ Len(pwd_digit') = Len(pwd_digit) + 1
         /\ pwd' = Word(pwd_digit')
         /\ \A i \in 1 .. Len(pwd') - overflow' : pwd'[i] = pwd[i]
<1>1. pwd_digit' = Extend(pwd_digit) /\ overflow' = Len(pwd_digit')
  BY DEF Lengthen
<1>2. /\ pwd_digit' \in Keys /\ Successor(pwd_digit, pwd_digit')
      /\ Len(pwd_digit') = Len(pwd_digit) + 1
  BY <1>1, ExtendIsSuccessor
<1>3. Len(pwd_digit) \in Nat
  BY KeyFacts
<1>4. \A i \in 1 .. Len(pwd_digit') : pwd_digit'[i] = 0
  BY <1>1, <1>2, <1>3 DEF Extend, Rollover
<1>5. pwd' = [i \in 1 .. Len(pwd_digit') |-> Table(Len(pwd_digit'), i, 0)]
  BY DEF Lengthen
<1>6. pwd' = Word(pwd_digit')
  BY <1>4, <1>5 DEF Word
<1>7. Len(pwd') = overflow' /\ Len(pwd') \in Nat
  BY <1>1, <1>2, <1>3, <1>6, WordOfKey
<1> QED BY <1>2, <1>6, <1>7

LEMMA MakeNextFacts ==
  ASSUME NEW rc, MakeNext(rc),
         pwd_digit \in Keys, pwd = Word(pwd_digit), Len(pwd_digit) < PWD_LEN
  PROVE  /\ pwd_digit' \in Keys /\ Successor(pwd_digit, pwd_digit')
         /\ Len(pwd_digit') \in {Len(pwd_digit), Len(pwd_digit) + 1}
         /\ pwd' = Word(pwd_digit')
         /\ \A i \in 1 .. Len(pwd') - overflow' : pwd'[i] = pwd[i]
         /\ rc = 0 => Len(pwd_digit') = Len(pwd_digit) \/ ~(Len(pwd_digit') > Len(end))
         /\ rc = 1 => pwd' = end \/ Len(pwd_digit') > Len(end)
         /\ rc = 0 /\ pwd' = end /\ Len(end_digit) = Len(end) => pwd_digit' # end_digit
         /\ rc \in {0, 1}
         /\ UNCHANGED <<end_digit, once>>
<1>1. UNCHANGED <<end_digit, once>>
  BY DEF MakeNext
<1>2. CASE Advanceable(pwd_digit) # {}
  <2> DEFINE d == Rightmost(Advanceable(pwd_digit))
  <2>1. AdvanceTo(d) /\ rc = (IF AtEnd(d) THEN 1 ELSE 0)
    BY <1>2 DEF MakeNext
  <2>2. rc = 1 => pwd' = end
    BY <2>1 DEF AtEnd
  <2>3. rc = 0 /\ pwd' = end /\ Len(end_digit) = Len(end) => pwd_digit' # end_digit
    BY <2>1 DEF AtEnd
  <2> HIDE DEF d
  <2> QED BY <1>1, <1>2, <2>1, <2>2, <2>3, AdvanceFacts DEF d
<1>3. CASE Advanceable(pwd_digit) = {}
  <2>1. Lengthen /\ rc = (IF Overshot \/ AtEnd(1) THEN 1 ELSE 0)
    BY <1>3 DEF MakeNext
  <2>2. rc = 1 => pwd' = end \/ Len(pwd_digit') > Len(end)
    BY <2>1 DEF AtEnd, Overshot
  <2>3. rc = 0 => ~(Len(pwd_digit') > Len(end))
    BY <2>1 DEF Overshot
  <2>4. rc = 0 /\ pwd' = end /\ Len(end_digit) = Len(end) => pwd_digit' # end_digit
    BY <2>1 DEF AtEnd, Overshot
  <2> QED BY <1>1, <1>3, <2>1, <2>2, <2>3, <2>4, LengthenFacts
<1> QED BY <1>2, <1>3

-----------------------------------------------------------------------------
(***************************************************************************)
(* A password that pwdgen_next() makes is a text of the chunk's            *)
(* characters, whatever the last one has become.                           *)
(***************************************************************************)
LEMMA ColumnChars ==
  ASSUME NEW l \in Nat, NEW i \in Nat
  PROVE  Column(l, i) \in Seq(Chars)
<1>1. CASE Matching(l, i) = {}
  BY <1>1, ChunkAssumption DEF Column, ChunkAssumption
<1>2. CASE Matching(l, i) # {}
  <2>1. Matching(l, i) \in SUBSET Nat /\ Matching(l, i) \subseteq 1 .. Len(Pairs)
    BY CharsetAssumption DEF Matching, CharsetAssumption
  <2> DEFINE j == CHOOSE j \in Matching(l, i) : \A m \in Matching(l, i) : j <= m
  <2>2. j \in 1 .. Len(Pairs)
    BY <1>2, <2>1, LeastNumber
  <2>3. Column(l, i) = Pairs[j].chars
    BY <1>2 DEF Column
  <2> HIDE DEF j
  <2> QED BY <2>2, <2>3, ChunkAssumption DEF ChunkAssumption
<1> QED BY <1>1, <1>2

LEMMA TableChars ==
  ASSUME NEW k \in Keys, NEW i \in 1 .. Len(k)
  PROVE  Table(Len(k), i, k[i]) \in Chars
<1>1. Len(k) \in Nat /\ i \in Nat /\ k[i] \in Nat /\ k[i] < Lens(Len(k), i)
  BY KeyFacts
<1>2. Column(Len(k), i) \in Seq(Chars)
  BY <1>1, ColumnChars
<1>3. k[i] + 1 \in 1 .. Len(Column(Len(k), i))
  BY <1>1, <1>2 DEF Lens
<1> QED BY <1>2, <1>3 DEF Table

LEMMA WordChars ==
  ASSUME NEW k \in Keys
  PROVE  Word(k) \in Seq(Chars)
<1>1. Len(k) \in Nat
  BY KeyFacts
<1>2. Word(k) \in [1 .. Len(k) -> Chars]
  BY TableChars DEF Word
<1> QED BY <1>1, <1>2

LEMMA MakeNextText ==
  ASSUME NEW rc, MakeNext(rc), pwd_digit \in Keys, Len(pwd_digit) < PWD_LEN,
         NEW S, Chars \subseteq S, pwd \in Seq(S), Len(pwd) = Len(pwd_digit)
  PROVE  /\ pwd_digit' \in Keys /\ Successor(pwd_digit, pwd_digit')
         /\ Len(pwd_digit') \in {Len(pwd_digit), Len(pwd_digit) + 1}
         /\ pwd' \in Seq(S) /\ Len(pwd') = Len(pwd_digit')
         /\ rc = 0 => Len(pwd_digit') = Len(pwd_digit) \/ ~(Len(pwd_digit') > Len(end))
         /\ rc \in {0, 1}
         /\ UNCHANGED <<end_digit, once>>
<1>1. UNCHANGED <<end_digit, once>> /\ Len(pwd_digit) \in Nat
  BY KeyFacts DEF MakeNext
<1>2. CASE Advanceable(pwd_digit) # {}
  <2> DEFINE n == Rightmost(Advanceable(pwd_digit))
  <2>1. AdvanceTo(n) /\ rc \in {0, 1}
    BY <1>2 DEF MakeNext
  <2> HIDE DEF n
  <2>2. /\ pwd_digit' \in Keys /\ Successor(pwd_digit, pwd_digit')
        /\ Len(pwd_digit') = Len(pwd_digit)
    BY <1>2, <2>1, AdvanceShape DEF n
  <2>3. PICK d \in 1 .. Len(pwd_digit) :
          pwd' = [i \in 1 .. Len(pwd_digit) |->
                    IF i < d THEN pwd[i] ELSE Table(Len(pwd_digit), i, pwd_digit'[i])]
    BY <1>2, <2>1, AdvanceShape DEF n
  <2>4. \A i \in 1 .. Len(pwd_digit) :
          pwd[i] \in S /\ Table(Len(pwd_digit), i, pwd_digit'[i]) \in S
    BY <1>1, <2>2, TableChars
  <2>5. pwd' \in [1 .. Len(pwd_digit) -> S]
    BY <2>3, <2>4
  <2> QED BY <1>1, <2>1, <2>2, <2>5
<1>3. CASE Advanceable(pwd_digit) = {}
  <2>1. Lengthen /\ rc = (IF Overshot \/ AtEnd(1) THEN 1 ELSE 0)
    BY <1>3 DEF MakeNext
  <2>2. rc \in {0, 1} /\ (rc = 0 => ~(Len(pwd_digit') > Len(end)))
    BY <2>1 DEF Overshot
  <2>3. /\ pwd_digit' \in Keys /\ Successor(pwd_digit, pwd_digit')
        /\ Len(pwd_digit') = Len(pwd_digit) + 1
        /\ pwd' = Word(pwd_digit')
    BY <1>3, <2>1, LengthenFacts
  <2>4. Len(pwd') = Len(pwd_digit') /\ pwd' \in Seq(S)
    BY <2>3, WordOfKey, WordChars
  <2> QED BY <1>1, <2>2, <2>3, <2>4
<1> QED BY <1>2, <1>3

-----------------------------------------------------------------------------
(***************************************************************************)
(* The end of a chunk.  A key that shows the end password, or a longer     *)
(* one, does not come before the end's own key, whose digits are the first *)
(* ones that show it; so all of the chunk has been made.                   *)
(***************************************************************************)
EndOfChunk == Word(pwd_digit) = end \/ Len(pwd_digit) > Len(end)

LEMMA EndReached ==
  ASSUME ChunkGiven, ChunkAccepted, NEW k \in Keys, Word(k) = end \/ Len(k) > Len(end)
  PROVE  AtMost(DigitsOf(end), k)
<1> DEFINE e == DigitsOf(end)
<1>1. e \in Keys /\ Len(e) = Len(end) /\ Len(end) \in Nat /\ Legal(end)
  BY ChunkFacts DEF ChunkAccepted
<1>2. \A i \in 1 .. Len(end) : e[i] = FirstDigit(end, i)
  BY DEF DigitsOf
<1> HIDE DEF e
<1>3. CASE Len(k) > Len(end)
  BY <1>1, <1>3 DEF AtMost, Precedes, e
<1>4. CASE Word(k) = end /\ k # e
  <2>1. Len(k) = Len(e) /\ Len(k) \in Nat
    BY <1>1, <1>4, WordOfKey, KeyFacts
  <2>2. PICK i \in 1 .. Len(e) : e[i] # k[i] /\ \A j \in 1 .. (i - 1) : e[j] = k[j]
    BY <1>1, <1>4, <2>1, FirstDifference
  <2>3. /\ k[i] \in Nat /\ k[i] < Lens(Len(end), i) /\ Table(Len(end), i, k[i]) = end[i]
        /\ e[i] \in Nat
    BY <1>1, <1>4, <2>1, <2>2, WordOfKey, KeyFacts
  <2>4. e[i] <= k[i]
    BY <1>1, <1>2, <2>2, <2>3, FirstDigitFacts
  <2>5. e[i] < k[i]
    BY <2>2, <2>3, <2>4
  <2> QED BY <2>1, <2>2, <2>5 DEF AtMost, Precedes, e
<1>5. CASE k = e
  BY <1>5 DEF AtMost, e
<1> QED BY <1>3, <1>4, <1>5

LEMMA BetweenOrdered ==
  ASSUME NEW s \in Keys, NEW e \in Keys, NEW k \in Keys, AtMost(e, k)
  PROVE  Between(s, e) \subseteq Between(s, k)
BY AtMostTransitive DEF Between

-----------------------------------------------------------------------------
\* The sums that main() may have in the end, and the codes they lead to.
LEMMA Codes ==
  /\ ExitCode(1) = 0 /\ ExitCode(2) = 1 /\ ExitCode(3) = 1 /\ ExitCode(4) = 2
  /\ ExitCode(6) = 1
  /\ ~Bit2(1) /\ ~Bit2(2) /\ ~Bit2(3) /\ Bit2(4) /\ Bit2(6)
BY DEF ExitCode, Bit2

\* The histories that count calls.
LEMMA OneMoreFacts ==
  ASSUME NEW n \in Nat
  PROVE  OneMore(n) \in Nat /\ (OneMore(n) < MaxPwds => OneMore(n) = n + 1)
BY TimerAssumption DEF OneMore, TimerAssumption

\* What a gathered password adds to a batch.
LEMMA AppendedSet ==
  ASSUME NEW S, NEW s \in Seq(S), NEW x \in S
  PROVE  Append(s, x) \in Seq(S) /\ ToSet(Append(s, x)) = ToSet(s) \union {x}
<1>1. Len(Append(s, x)) = Len(s) + 1 /\ Append(s, x) \in Seq(S) /\ Len(s) \in Nat
  OBVIOUS
<1>2. \A i \in 1 .. Len(s) : Append(s, x)[i] = s[i]
  OBVIOUS
<1>3. Append(s, x)[Len(s) + 1] = x
  OBVIOUS
<1>4. DOMAIN Append(s, x) = 1 .. Len(s) + 1 /\ DOMAIN s = 1 .. Len(s)
  BY <1>1
<1>5. 1 .. Len(s) + 1 = (1 .. Len(s)) \union {Len(s) + 1}
  BY <1>1
<1>6. ToSet(Append(s, x)) \subseteq ToSet(s) \union {x}
  BY <1>2, <1>3, <1>4, <1>5 DEF ToSet
<1>7. ToSet(s) \union {x} \subseteq ToSet(Append(s, x))
  BY <1>2, <1>3, <1>4, <1>5 DEF ToSet
<1> QED BY <1>1, <1>6, <1>7
=============================================================================
