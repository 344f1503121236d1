------------------------------ MODULE ImgProofs ------------------------------
(***************************************************************************)
(* Proofs about a worker that extracts strings from an image, for every    *)
(* image, every job, every size of the blocks and any failures: the list   *)
(* it checks is sorted and has no string twice, what it gathers fits into  *)
(* memory, its exit code and its counter can be trusted, and it is given   *)
(* the strings that are due, and no others.                                *)
(*                                                                         *)
(* First the order of strings, and that merging and sorting bring a list   *)
(* into it and keep what is in the list; then the steps of the worker.     *)
(***************************************************************************)
EXTENDS WorkerImg, ExtractProofs

(***************************************************************************)
(* The order of strings of one length.                                     *)
(***************************************************************************)
LEMMA BeforeIrreflexive ==
  ASSUME NEW n \in Nat, NEW a \in OfLength(n)
  PROVE  ~Before(a, a)
<1>1. \A i \in DOMAIN a : a[i] \in Int
  BY BytesAreNumbers
<1>2. \A i \in DOMAIN a : ~(a[i] < a[i])
  BY <1>1
<1> QED BY <1>2 DEF Before

LEMMA BeforeTotal ==
  ASSUME NEW n \in Nat, NEW a \in OfLength(n), NEW b \in OfLength(n), a # b
  PROVE  Before(a, b) \/ Before(b, a)
<1> DEFINE Differ == {i \in 1 .. n : a[i] # b[i]}
<1>1. Differ \in SUBSET Nat /\ Differ # {}
  BY DEF OfLength
<1>2. PICK i \in Differ : \A j \in Differ : i <= j
  BY <1>1, LeastNumber
<1>3. \A j \in 1 .. i - 1 : a[j] = b[j]
  BY <1>2
<1>4. i \in 1 .. n /\ a[i] \in Int /\ b[i] \in Int /\ a[i] # b[i] /\ DOMAIN a = 1 .. n /\ DOMAIN b = 1 .. n
  <2>1. i \in 1 .. n /\ a[i] # b[i]
    BY <1>2
  <2> HIDE DEF Differ
  <2>2. a \in [1 .. n -> Int] /\ b \in [1 .. n -> Int]
    BY BytesAreNumbers
  <2> QED BY <2>1, <2>2
<1>5. a[i] < b[i] \/ b[i] < a[i]
  BY <1>4
<1> HIDE DEF Differ
<1> QED BY <1>3, <1>4, <1>5 DEF Before

LEMMA BeforeTransitive ==
  ASSUME NEW n \in Nat, NEW a \in OfLength(n), NEW b \in OfLength(n), NEW c \in OfLength(n),
         Before(a, b), Before(b, c)
  PROVE  Before(a, c)
<1>1. DOMAIN a = 1 .. n /\ DOMAIN b = 1 .. n /\ \A i \in 1 .. n : a[i] \in Int /\ b[i] \in Int /\ c[i] \in Int
  BY BytesAreNumbers
<1>2. PICK i \in 1 .. n : a[i] < b[i] /\ \A j \in 1 .. i - 1 : a[j] = b[j]
  BY <1>1 DEF Before
<1>3. PICK k \in 1 .. n : b[k] < c[k] /\ \A j \in 1 .. k - 1 : b[j] = c[j]
  BY <1>1 DEF Before
<1>4. CASE i <= k
  <2>1. a[i] < c[i]
    BY <1>1, <1>2, <1>3, <1>4, SMTT(30)
  <2>2. \A j \in 1 .. i - 1 : a[j] = c[j]
    BY <1>2, <1>3, <1>4
  <2> QED BY <1>1, <2>1, <2>2 DEF Before
<1>5. CASE k < i
  <2>1. a[k] < c[k]
    BY <1>1, <1>2, <1>3, <1>5
  <2>2. \A j \in 1 .. k - 1 : a[j] = c[j]
    BY <1>2, <1>3, <1>5
  <2> QED BY <1>1, <2>1, <2>2 DEF Before
<1> QED BY <1>4, <1>5

\* Not before is an order too, but for equal strings.
LEMMA NotBeforeTransitive ==
  ASSUME NEW n \in Nat, NEW a \in OfLength(n), NEW b \in OfLength(n), NEW c \in OfLength(n),
         ~Before(b, a), ~Before(c, b)
  PROVE  ~Before(c, a)
<1>1. SUFFICES ASSUME Before(c, a) PROVE FALSE
  OBVIOUS
<1>2. a = b \/ Before(a, b)
  BY BeforeTotal
<1>3. b = c \/ Before(b, c)
  BY BeforeTotal
<1>4. Before(c, b)
  BY <1>1, <1>2, BeforeTransitive
<1> QED BY <1>4

InOrder(list) == \A p, q \in DOMAIN list : p < q => ~Before(list[q], list[p])

Increasing(list) == \A p, q \in DOMAIN list : p < q => Before(list[p], list[q])

LEMMA IncreasingInOrder ==
  ASSUME NEW n \in Nat, NEW list \in Seq(OfLength(n)), Increasing(list)
  PROVE  InOrder(list)
<1> SUFFICES ASSUME NEW p \in DOMAIN list, NEW q \in DOMAIN list, p < q, Before(list[q], list[p])
             PROVE  FALSE
  BY DEF InOrder
<1>1. list[p] \in OfLength(n) /\ list[q] \in OfLength(n)
  OBVIOUS
<1>2. Before(list[p], list[q])
  BY DEF Increasing
<1>3. Before(list[p], list[p])
  BY <1>1, <1>2, BeforeTransitive
<1> QED BY <1>1, <1>3, BeforeIrreflexive

-----------------------------------------------------------------------------
(***************************************************************************)
(* Merging.                                                                *)
(***************************************************************************)
MergePlaces(a, b) == (1 .. Len(a) + 1) \X (1 .. Len(b) + 1)

MergeStep(a, b, f, at) ==
  IF at[1] > Len(a) THEN SubSeq(b, at[2], Len(b))
  ELSE IF at[2] > Len(b) THEN SubSeq(a, at[1], Len(a))
  ELSE IF Before(b[at[2]], a[at[1]]) THEN <<b[at[2]]>> \o f[<<at[1], at[2] + 1>>]
  ELSE <<a[at[1]]>> \o f[<<at[1] + 1, at[2]>>]

Merging(a, b, f) == f = [at \in MergePlaces(a, b) |-> MergeStep(a, b, f, at)]

LEMMA MergedBy ==
  ASSUME NEW a, NEW b, NEW g, Merging(a, b, g)
  PROVE  \E f : Merging(a, b, f) /\ Merged(a, b) = f[<<1, 1>>]
<1>1. Merging(a, b, CHOOSE f : Merging(a, b, f))
  OBVIOUS
<1>2. Merged(a, b) = (CHOOSE f : Merging(a, b, f))[<<1, 1>>]
  BY DEF Merged, Merging, MergePlaces, MergeStep
<1> QED BY <1>1, <1>2

LEMMA OnlyAbove ==
  ASSUME NEW n \in Nat, NEW x \in 1 .. n + 1, x > n
  PROVE  x = n + 1
OBVIOUS

Togo(a, b) == [at \in MergePlaces(a, b) |-> Len(a) + 1 - at[1] + Len(b) + 1 - at[2]]

LEMMA OneStepOn ==
  ASSUME NEW n \in Nat, NEW k \in Nat, NEW i \in Nat, NEW j \in Nat
  PROVE  /\ n + 1 - i + k + 1 - j = (n + 1 - i + k + 1 - (j + 1)) + 1
         /\ n + 1 - i + k + 1 - j = (n + 1 - (i + 1) + k + 1 - j) + 1
OBVIOUS

LEMMA SumOfRest ==
  ASSUME NEW m \in Nat, NEW n \in Nat, NEW x \in 1 .. m + 1, NEW y \in 1 .. n + 1
  PROVE  m + 1 - x + n + 1 - y \in 0 .. m + n
OBVIOUS

LEMMA TogoType ==
  ASSUME NEW W, NEW a \in Seq(W), NEW b \in Seq(W)
  PROVE  /\ Togo(a, b) \in [MergePlaces(a, b) -> 0 .. Len(a) + Len(b)]
         /\ \A i \in 1 .. Len(a), j \in 1 .. Len(b) :
              /\ <<i, j>> \in MergePlaces(a, b)
              /\ <<i, j + 1>> \in MergePlaces(a, b) /\ <<i + 1, j>> \in MergePlaces(a, b)
              /\ Togo(a, b)[<<i, j + 1>>] < Togo(a, b)[<<i, j>>]
              /\ Togo(a, b)[<<i + 1, j>>] < Togo(a, b)[<<i, j>>]
<1> DEFINE D == MergePlaces(a, b)
<1>1. \A at \in D : at[1] \in 1 .. Len(a) + 1 /\ at[2] \in 1 .. Len(b) + 1
  BY DEF MergePlaces
<1>2. Togo(a, b) \in [D -> 0 .. Len(a) + Len(b)]
  <2> SUFFICES ASSUME NEW at \in D PROVE Len(a) + 1 - at[1] + Len(b) + 1 - at[2] \in 0 .. Len(a) + Len(b)
    BY DEF Togo
  <2> HIDE DEF D
  <2>1. at[1] \in 1 .. Len(a) + 1 /\ at[2] \in 1 .. Len(b) + 1
    BY <1>1
  <2>2. Len(a) \in Nat /\ Len(b) \in Nat
    OBVIOUS
  <2> QED BY <2>1, <2>2, SumOfRest
<1>3. ASSUME NEW i \in 1 .. Len(a), NEW j \in 1 .. Len(b)
      PROVE  /\ <<i, j>> \in D /\ <<i, j + 1>> \in D /\ <<i + 1, j>> \in D
             /\ Togo(a, b)[<<i, j + 1>>] < Togo(a, b)[<<i, j>>]
             /\ Togo(a, b)[<<i + 1, j>>] < Togo(a, b)[<<i, j>>]
  <2>1. <<i, j>> \in D /\ <<i, j + 1>> \in D /\ <<i + 1, j>> \in D
    BY DEF MergePlaces
  <2>2. /\ Togo(a, b)[<<i, j>>] = Len(a) + 1 - i + Len(b) + 1 - j
        /\ Togo(a, b)[<<i, j + 1>>] = Len(a) + 1 - i + Len(b) + 1 - (j + 1)
        /\ Togo(a, b)[<<i + 1, j>>] = Len(a) + 1 - (i + 1) + Len(b) + 1 - j
    BY <2>1 DEF Togo
  <2> HIDE DEF D
  <2> QED BY <2>1, <2>2, SMTT(30)
<1> QED BY <1>2, <1>3

LEMMA MergeExists ==
  ASSUME NEW W, NEW a \in Seq(W), NEW b \in Seq(W)
  PROVE  \E f : Merging(a, b, f)
<1> DEFINE D == MergePlaces(a, b)
           C == Seq(W)
           m == Togo(a, b)
           n == Len(a) + Len(b)
           F == [f \in [D -> C] |-> [at \in D |-> MergeStep(a, b, f, at)]]
<1>0. ASSUME NEW at \in D
      PROVE  at[1] \in 1 .. Len(a) + 1 /\ at[2] \in 1 .. Len(b) + 1 /\ at = <<at[1], at[2]>>
  BY DEF MergePlaces
<1>1. C # {} /\ n \in Nat /\ m \in [D -> 0 .. n]
  <2>1. << >> \in C
    OBVIOUS
  <2> QED BY <2>1, TogoType
<1>2. ASSUME NEW f \in [D -> C], NEW at \in D PROVE MergeStep(a, b, f, at) \in C
  <2>1. CASE at[1] > Len(a)
    BY <1>0, <2>1, Suffix DEF MergeStep
  <2>2. CASE ~(at[1] > Len(a)) /\ at[2] > Len(b)
    BY <1>0, <2>2, Suffix DEF MergeStep
  <2>3. CASE ~(at[1] > Len(a)) /\ ~(at[2] > Len(b))
    <3>1. /\ at[1] \in 1 .. Len(a) /\ at[2] \in 1 .. Len(b)
          /\ a[at[1]] \in W /\ b[at[2]] \in W
      BY <1>0, <2>3
    <3>2. f[<<at[1], at[2] + 1>>] \in C /\ f[<<at[1] + 1, at[2]>>] \in C
      BY <3>1, TogoType
    <3>3. <<b[at[2]]>> \o f[<<at[1], at[2] + 1>>] \in C /\ <<a[at[1]]>> \o f[<<at[1] + 1, at[2]>>] \in C
      BY <3>1, <3>2, InFront
    <3> QED BY <2>3, <3>3 DEF MergeStep
  <2> QED BY <2>1, <2>2, <2>3
<1>3. F \in [[D -> C] -> [D -> C]]
  <2> SUFFICES ASSUME NEW f \in [D -> C] PROVE [at \in D |-> MergeStep(a, b, f, at)] \in [D -> C]
    OBVIOUS
  <2> QED BY <1>2
<1>4. ASSUME NEW f \in [D -> C], NEW g \in [D -> C], NEW at \in D, Agree(D, m, f, g, at)
      PROVE  MergeStep(a, b, f, at) = MergeStep(a, b, g, at)
  <2>1. CASE at[1] > Len(a) \/ at[2] > Len(b)
    BY <2>1 DEF MergeStep
  <2>2. CASE ~(at[1] > Len(a)) /\ ~(at[2] > Len(b))
    <3>1. at[1] \in 1 .. Len(a) /\ at[2] \in 1 .. Len(b) /\ at = <<at[1], at[2]>>
      BY <1>0, <2>2
    <3>2. f[<<at[1], at[2] + 1>>] = g[<<at[1], at[2] + 1>>] /\ f[<<at[1] + 1, at[2]>>] = g[<<at[1] + 1, at[2]>>]
      <4> DEFINE i == at[1]
                 j == at[2]
      <4>1. i \in 1 .. Len(a) /\ j \in 1 .. Len(b) /\ at = <<i, j>>
        BY <3>1
      <4> HIDE DEF i, j
      <4>2. /\ <<i, j + 1>> \in D /\ <<i + 1, j>> \in D
            /\ m[<<i, j + 1>>] < m[<<i, j>>] /\ m[<<i + 1, j>>] < m[<<i, j>>]
        BY <4>1, TogoType
      <4> HIDE DEF D, m
      <4>3. f[<<i, j + 1>>] = g[<<i, j + 1>>] /\ f[<<i + 1, j>>] = g[<<i + 1, j>>]
        BY <1>4, <4>1, <4>2 DEF Agree
      <4> QED BY <4>3 DEF i, j
    <3> QED BY <3>2 DEF MergeStep
  <2> QED BY <2>1, <2>2
<1>5. \A f, g \in [D -> C], x \in D : Agree(D, m, f, g, x) => F[f][x] = F[g][x]
  BY <1>4
<1>6. PICK f \in [D -> C] : f = F[f]
  <2> HIDE DEF F, C, D, m, n
  <2>1. GoesDown(D, C, n, m, F)
    BY <1>1, <1>3, <1>5 DEF GoesDown
  <2> QED BY <2>1, Recursion
<1>7. f = [at \in D |-> MergeStep(a, b, f, at)]
  BY <1>6
<1> QED BY <1>7 DEF Merging

LEMMA OrderedInFront ==
  ASSUME NEW n \in Nat, NEW w \in OfLength(n), NEW r \in Seq(OfLength(n)), InOrder(r),
         \A k \in DOMAIN r : ~Before(r[k], w)
  PROVE  InOrder(<<w>> \o r)
<1> DEFINE s == <<w>> \o r
<1>1. /\ DOMAIN s = 1 .. Len(r) + 1 /\ s[1] = w /\ Len(r) \in Nat
      /\ \A k \in 2 .. Len(r) + 1 : s[k] = r[k - 1] /\ k - 1 \in DOMAIN r
  BY InFront
<1> HIDE DEF s
<1> SUFFICES ASSUME NEW p \in DOMAIN s, NEW q \in DOMAIN s, p < q PROVE ~Before(s[q], s[p])
  BY DEF InOrder, s
<1>2. q \in 2 .. Len(r) + 1 /\ s[q] = r[q - 1] /\ q - 1 \in DOMAIN r
  BY <1>1
<1>3. CASE p = 1
  BY <1>1, <1>2, <1>3
<1>4. CASE p # 1
  <2>1. p \in 2 .. Len(r) + 1 /\ s[p] = r[p - 1] /\ p - 1 \in DOMAIN r /\ p - 1 < q - 1
    BY <1>1, <1>2, <1>4
  <2> QED BY <1>2, <2>1 DEF InOrder
<1> QED BY <1>3, <1>4

LEMMA SuffixInOrder ==
  ASSUME NEW W, NEW a \in Seq(W), NEW i \in 1 .. Len(a) + 1, InOrder(a)
  PROVE  InOrder(SubSeq(a, i, Len(a)))
<1> DEFINE s == SubSeq(a, i, Len(a))
<1>1. DOMAIN s = 1 .. Len(a) - i + 1 /\ \A k \in DOMAIN s : s[k] = a[k + i - 1] /\ k + i - 1 \in DOMAIN a
  OBVIOUS
<1> HIDE DEF s
<1> SUFFICES ASSUME NEW p \in DOMAIN s, NEW q \in DOMAIN s, p < q PROVE ~Before(s[q], s[p])
  BY DEF InOrder, s
<1>2. p + i - 1 < q + i - 1
  BY <1>1
<1> QED BY <1>1, <1>2 DEF InOrder

\* What the loop of a merge makes of the rest of both lists.
RestMerged(n, a, b, f, at) ==
  /\ f[at] \in Seq(OfLength(n)) /\ Len(f[at]) = Togo(a, b)[at]
  /\ \A k \in DOMAIN f[at] : \/ \E p \in at[1] .. Len(a) : f[at][k] = a[p]
                             \/ \E q \in at[2] .. Len(b) : f[at][k] = b[q]
  /\ InOrder(a) /\ InOrder(b) => InOrder(f[at])

LEMMA MergeTakesOne ==
  ASSUME NEW n \in Nat, NEW a \in Seq(OfLength(n)), NEW b \in Seq(OfLength(n)),
         NEW f, NEW i \in 1 .. Len(a), NEW j \in 1 .. Len(b)
  PROVE  /\ Before(b[j], a[i]) /\ RestMerged(n, a, b, f, <<i, j + 1>>)
            /\ f[<<i, j>>] = <<b[j]>> \o f[<<i, j + 1>>] => RestMerged(n, a, b, f, <<i, j>>)
         /\ ~Before(b[j], a[i]) /\ RestMerged(n, a, b, f, <<i + 1, j>>)
            /\ f[<<i, j>>] = <<a[i]>> \o f[<<i + 1, j>>] => RestMerged(n, a, b, f, <<i, j>>)
<1> DEFINE W == OfLength(n)
<1>0. /\ a[i] \in W /\ b[j] \in W /\ Len(a) \in Nat /\ Len(b) \in Nat
      /\ \A p \in i .. Len(a) : a[p] \in W /\ p \in DOMAIN a
      /\ \A q \in j .. Len(b) : b[q] \in W /\ q \in DOMAIN b
      /\ i \in DOMAIN a /\ j \in DOMAIN b
  OBVIOUS
<1>1. /\ <<i, j>> \in MergePlaces(a, b) /\ <<i, j + 1>> \in MergePlaces(a, b) /\ <<i + 1, j>> \in MergePlaces(a, b)
  BY TogoType
<1>2. /\ Togo(a, b)[<<i, j>>] = Togo(a, b)[<<i, j + 1>>] + 1
      /\ Togo(a, b)[<<i, j>>] = Togo(a, b)[<<i + 1, j>>] + 1
  <2>1. /\ Togo(a, b)[<<i, j>>] = Len(a) + 1 - i + Len(b) + 1 - j
        /\ Togo(a, b)[<<i, j + 1>>] = Len(a) + 1 - i + Len(b) + 1 - (j + 1)
        /\ Togo(a, b)[<<i + 1, j>>] = Len(a) + 1 - (i + 1) + Len(b) + 1 - j
    BY <1>1 DEF Togo
  <2>2. Len(a) \in Nat /\ Len(b) \in Nat /\ i \in Nat /\ j \in Nat
    OBVIOUS
  <2> HIDE DEF W
  <2> QED BY <2>1, <2>2, OneStepOn
<1> HIDE DEF W
<1>3. ASSUME Before(b[j], a[i]), RestMerged(n, a, b, f, <<i, j + 1>>),
             f[<<i, j>>] = <<b[j]>> \o f[<<i, j + 1>>]
      PROVE  RestMerged(n, a, b, f, <<i, j>>)
  <2> DEFINE r == f[<<i, j + 1>>]
             s == f[<<i, j>>]
  <2>1. /\ r \in Seq(W) /\ Len(r) = Togo(a, b)[<<i, j + 1>>]
        /\ \A k \in DOMAIN r : \/ \E p \in i .. Len(a) : r[k] = a[p]
                               \/ \E q \in j + 1 .. Len(b) : r[k] = b[q]
        /\ InOrder(a) /\ InOrder(b) => InOrder(r)
    BY <1>3 DEF RestMerged, W
  <2>2. s = <<b[j]>> \o r
    BY <1>3
  <2> HIDE DEF r, s
  <2>3. /\ s \in Seq(W) /\ Len(s) = Len(r) + 1
        /\ DOMAIN s = 1 .. Len(r) + 1 /\ s[1] = b[j]
        /\ \A k \in 2 .. Len(r) + 1 : s[k] = r[k - 1] /\ k - 1 \in DOMAIN r
    <3>1. a[i] \in W /\ b[j] \in W
      BY <1>0
    <3>2. r \in Seq(W)
      BY <2>1
    <3>3. /\ <<b[j]>> \o r \in Seq(W) /\ Len(<<b[j]>> \o r) = Len(r) + 1
          /\ DOMAIN (<<b[j]>> \o r) = 1 .. Len(r) + 1 /\ (<<b[j]>> \o r)[1] = b[j]
          /\ \A k \in 2 .. Len(r) + 1 : (<<b[j]>> \o r)[k] = r[k - 1] /\ k - 1 \in DOMAIN r
      BY <3>1, <3>2, InFront
    <3> QED BY <2>2, <3>3
  <2>4. ASSUME NEW k \in DOMAIN s
        PROVE  \/ \E p \in i .. Len(a) : s[k] = a[p]
               \/ \E q \in j .. Len(b) : s[k] = b[q]
    <3>1. CASE k = 1
      BY <1>0, <2>3, <3>1
    <3>2. CASE k # 1
      <4>0. Len(r) \in Nat /\ k \in 1 .. Len(r) + 1
        BY <2>1, <2>3, SMTT(30)
      <4>1. s[k] = r[k - 1] /\ k - 1 \in DOMAIN r
        BY <2>3, <3>2, <4>0, SMTT(30)
      <4>2. \A q \in j + 1 .. Len(b) : q \in j .. Len(b)
        BY <1>0
      <4> QED BY <2>1, <4>1, <4>2, SMTT(30)
    <3> QED BY <3>1, <3>2
  <2>5. ASSUME InOrder(a), InOrder(b) PROVE InOrder(s)
    <3>1. ASSUME NEW k \in DOMAIN r PROVE ~Before(r[k], b[j])
      <4>1. CASE \E p \in i .. Len(a) : r[k] = a[p]
        <5>1. PICK p \in i .. Len(a) : r[k] = a[p]
          BY <4>1
        <5>2. ~Before(a[p], a[i])
          <6>1. CASE p = i
            BY <1>0, <6>1, BeforeIrreflexive DEF W
          <6>2. CASE p # i
            <7>1. i < p /\ p \in DOMAIN a
              BY <1>0, <6>2
            <7> QED BY <1>0, <2>5, <7>1 DEF InOrder
          <6> QED BY <6>1, <6>2
        <5>3. ~Before(a[i], b[j])
          <6> SUFFICES ASSUME Before(a[i], b[j]) PROVE FALSE
            OBVIOUS
          <6>1. Before(b[j], b[j])
            BY <1>0, <1>3, BeforeTransitive DEF W
          <6> QED BY <1>0, <6>1, BeforeIrreflexive DEF W
        <5> QED BY <1>0, <5>1, <5>2, <5>3, NotBeforeTransitive DEF W
      <4>2. CASE \E q \in j + 1 .. Len(b) : r[k] = b[q]
        <5>1. PICK q \in j + 1 .. Len(b) : r[k] = b[q]
          BY <4>2
        <5>2. j < q /\ q \in DOMAIN b
          BY <1>0, <5>1
        <5> QED BY <1>0, <2>5, <5>1, <5>2 DEF InOrder
      <4> QED BY <2>1, <4>1, <4>2
    <3>2. InOrder(r)
      BY <2>1, <2>5
    <3> QED BY <1>0, <2>1, <2>2, <3>1, <3>2, OrderedInFront DEF W
  <2>6. Len(s) = Togo(a, b)[<<i, j>>]
    BY <1>2, <2>1, <2>3
  <2> QED BY <2>3, <2>4, <2>5, <2>6 DEF RestMerged, W, s
<1>4. ASSUME ~Before(b[j], a[i]), RestMerged(n, a, b, f, <<i + 1, j>>),
             f[<<i, j>>] = <<a[i]>> \o f[<<i + 1, j>>]
      PROVE  RestMerged(n, a, b, f, <<i, j>>)
  <2> DEFINE r == f[<<i + 1, j>>]
             s == f[<<i, j>>]
  <2>1. /\ r \in Seq(W) /\ Len(r) = Togo(a, b)[<<i + 1, j>>]
        /\ \A k \in DOMAIN r : \/ \E p \in i + 1 .. Len(a) : r[k] = a[p]
                               \/ \E q \in j .. Len(b) : r[k] = b[q]
        /\ InOrder(a) /\ InOrder(b) => InOrder(r)
    BY <1>4 DEF RestMerged, W
  <2>2. s = <<a[i]>> \o r
    BY <1>4
  <2> HIDE DEF r, s
  <2>3. /\ s \in Seq(W) /\ Len(s) = Len(r) + 1
        /\ DOMAIN s = 1 .. Len(r) + 1 /\ s[1] = a[i]
        /\ \A k \in 2 .. Len(r) + 1 : s[k] = r[k - 1] /\ k - 1 \in DOMAIN r
    <3>1. a[i] \in W /\ b[j] \in W
      BY <1>0
    <3>2. r \in Seq(W)
      BY <2>1
    <3>3. /\ <<a[i]>> \o r \in Seq(W) /\ Len(<<a[i]>> \o r) = Len(r) + 1
          /\ DOMAIN (<<a[i]>> \o r) = 1 .. Len(r) + 1 /\ (<<a[i]>> \o r)[1] = a[i]
          /\ \A k \in 2 .. Len(r) + 1 : (<<a[i]>> \o r)[k] = r[k - 1] /\ k - 1 \in DOMAIN r
      BY <3>1, <3>2, InFront
    <3> QED BY <2>2, <3>3
  <2>4. ASSUME NEW k \in DOMAIN s
        PROVE  \/ \E p \in i .. Len(a) : s[k] = a[p]
               \/ \E q \in j .. Len(b) : s[k] = b[q]
    <3>1. CASE k = 1
      BY <1>0, <2>3, <3>1
    <3>2. CASE k # 1
      <4>0. Len(r) \in Nat /\ k \in 1 .. Len(r) + 1
        BY <2>1, <2>3, SMTT(30)
      <4>1. s[k] = r[k - 1] /\ k - 1 \in DOMAIN r
        BY <2>3, <3>2, <4>0, SMTT(30)
      <4>2. \A p \in i + 1 .. Len(a) : p \in i .. Len(a)
        BY <1>0
      <4> QED BY <2>1, <4>1, <4>2, ZenonT(60)
    <3> QED BY <3>1, <3>2
  <2>5. ASSUME InOrder(a), InOrder(b) PROVE InOrder(s)
    <3>1. ASSUME NEW k \in DOMAIN r PROVE ~Before(r[k], a[i])
      <4>1. CASE \E q \in j .. Len(b) : r[k] = b[q]
        <5>1. PICK q \in j .. Len(b) : r[k] = b[q]
          BY <4>1
        <5>2. CASE q = j
          BY <1>4, <5>1, <5>2
        <5>3. CASE q # j
          <6>1. j < q /\ q \in DOMAIN b
            BY <1>0, <5>3
          <6>2. ~Before(b[q], b[j])
            BY <1>0, <2>5, <6>1 DEF InOrder
          <6> QED BY <1>0, <1>4, <5>1, <6>2, NotBeforeTransitive DEF W
        <5> QED BY <5>2, <5>3
      <4>2. CASE \E p \in i + 1 .. Len(a) : r[k] = a[p]
        <5>1. PICK p \in i + 1 .. Len(a) : r[k] = a[p]
          BY <4>2
        <5>2. i < p /\ p \in DOMAIN a
          BY <1>0, <5>1
        <5> QED BY <1>0, <2>5, <5>1, <5>2 DEF InOrder
      <4> QED BY <2>1, <4>1, <4>2
    <3>2. InOrder(r)
      BY <2>1, <2>5
    <3> QED BY <1>0, <2>1, <2>2, <3>1, <3>2, OrderedInFront DEF W
  <2>6. Len(s) = Togo(a, b)[<<i, j>>]
    BY <1>2, <2>1, <2>3
  <2> QED BY <2>3, <2>4, <2>5, <2>6 DEF RestMerged, W, s
<1> QED BY <1>3, <1>4

\* Merging keeps all strings, and two lists in order give one in order.
LEMMA MergeSorts ==
  ASSUME NEW n \in Nat, NEW a \in Seq(OfLength(n)), NEW b \in Seq(OfLength(n))
  PROVE  /\ Merged(a, b) \in Seq(OfLength(n)) /\ Len(Merged(a, b)) = Len(a) + Len(b)
         /\ InOrder(a) /\ InOrder(b) => InOrder(Merged(a, b))
<1> DEFINE D == MergePlaces(a, b)
           m == Togo(a, b)
<1>1. PICK f : Merging(a, b, f) /\ Merged(a, b) = f[<<1, 1>>]
  <2>1. PICK g : Merging(a, b, g)
    BY MergeExists
  <2> QED BY <2>1, MergedBy
<1> DEFINE Bad == {at \in D : ~RestMerged(n, a, b, f, at)}
<1>2. m \in [D -> Nat]
  <2>1. m \in [D -> 0 .. Len(a) + Len(b)]
    BY TogoType
  <2> HIDE DEF m, D
  <2> QED BY <2>1
<1>3. Bad = {}
  <2> SUFFICES ASSUME Bad # {} PROVE FALSE
    OBVIOUS
  <2>1. PICK at \in Bad : \A x \in Bad : m[at] <= m[x]
    <3>1. Bad \in SUBSET D
      OBVIOUS
    <3> HIDE DEF Bad, D, m
    <3> QED BY <1>2, <3>1, LeastOf
  <2>2. at[1] \in 1 .. Len(a) + 1 /\ at[2] \in 1 .. Len(b) + 1 /\ at = <<at[1], at[2]>> /\ at \in D
    BY DEF MergePlaces
  <2>3. \A x \in D : m[x] < m[at] => RestMerged(n, a, b, f, x)
    <3> SUFFICES ASSUME NEW x \in D, m[x] < m[at], ~RestMerged(n, a, b, f, x) PROVE FALSE
      OBVIOUS
    <3>1. m[at] <= m[x] /\ m[at] \in Nat /\ m[x] \in Nat
      BY <1>2, <2>1, <2>2
    <3> HIDE DEF m
    <3> QED BY <3>1
  <2>4. f[at] = MergeStep(a, b, f, at)
    BY <1>1, <2>2 DEF Merging
  <2>5. m[at] = Len(a) + 1 - at[1] + Len(b) + 1 - at[2]
    BY <2>2 DEF Togo
  <2>6. ~RestMerged(n, a, b, f, at)
    BY <2>1
  <2> HIDE DEF Bad, D
  <2>7. CASE at[1] > Len(a)
    <3>1. at[1] = Len(a) + 1 /\ f[at] = SubSeq(b, at[2], Len(b))
      <4>1. at[1] \in 1 .. Len(a) + 1 /\ Len(a) \in Nat /\ at[1] > Len(a)
        BY <2>2, <2>7
      <4>2. at[1] = Len(a) + 1
        BY <4>1, OnlyAbove
      <4>3. f[at] = SubSeq(b, at[2], Len(b))
        BY <2>4, <2>7, Zenon DEF MergeStep
      <4> QED BY <4>2, <4>3
    <3>2. /\ f[at] \in Seq(OfLength(n)) /\ Len(f[at]) = Len(b) - at[2] + 1
          /\ \A k \in 1 .. Len(b) - at[2] + 1 : f[at][k] = b[k + at[2] - 1]
      BY <2>2, <3>1, Suffix, SMTT(30)
    <3>3. Len(f[at]) = m[at]
      <4> HIDE DEF m
      <4> QED BY <2>2, <2>5, <3>1, <3>2
    <3>4. \A k \in DOMAIN f[at] : f[at][k] = b[k + at[2] - 1] /\ k + at[2] - 1 \in at[2] .. Len(b)
      <4> DEFINE t == f[at]
                 i == at[2]
      <4>1. DOMAIN t = 1 .. Len(b) - i + 1 /\ i \in Nat \ {0} /\ Len(b) \in Nat
        BY <2>2, <3>2, SMTT(30)
      <4>2. \A k \in 1 .. Len(b) - i + 1 : t[k] = b[k + i - 1]
        BY <3>2
      <4> HIDE DEF t, i
      <4>3. \A k \in DOMAIN t : t[k] = b[k + i - 1] /\ k + i - 1 \in i .. Len(b)
        BY <4>1, <4>2
      <4> QED BY <4>3 DEF t, i
    <3>5. InOrder(b) => InOrder(f[at])
      BY <2>2, <3>1, SuffixInOrder
    <3> QED BY <2>6, <3>2, <3>3, <3>4, <3>5 DEF RestMerged
  <2>8. CASE ~(at[1] > Len(a)) /\ at[2] > Len(b)
    <3>1. at[2] = Len(b) + 1 /\ f[at] = SubSeq(a, at[1], Len(a))
      <4>1. at[2] \in 1 .. Len(b) + 1 /\ Len(b) \in Nat /\ at[2] > Len(b)
        BY <2>2, <2>8
      <4>2. at[2] = Len(b) + 1
        BY <4>1, OnlyAbove
      <4>3. f[at] = SubSeq(a, at[1], Len(a))
        BY <2>4, <2>8, Zenon DEF MergeStep
      <4> QED BY <4>2, <4>3
    <3>2. /\ f[at] \in Seq(OfLength(n)) /\ Len(f[at]) = Len(a) - at[1] + 1
          /\ \A k \in 1 .. Len(a) - at[1] + 1 : f[at][k] = a[k + at[1] - 1]
      BY <2>2, <3>1, Suffix, SMTT(30)
    <3>3. Len(f[at]) = m[at]
      <4> HIDE DEF m
      <4> QED BY <2>2, <2>5, <3>1, <3>2, SMTT(30)
    <3>4. \A k \in DOMAIN f[at] : f[at][k] = a[k + at[1] - 1] /\ k + at[1] - 1 \in at[1] .. Len(a)
      <4> DEFINE t == f[at]
                 i == at[1]
      <4>1. DOMAIN t = 1 .. Len(a) - i + 1 /\ i \in Nat \ {0} /\ Len(a) \in Nat
        BY <2>2, <3>2, SMTT(30)
      <4>2. \A k \in 1 .. Len(a) - i + 1 : t[k] = a[k + i - 1]
        BY <3>2
      <4> HIDE DEF t, i
      <4>3. \A k \in DOMAIN t : t[k] = a[k + i - 1] /\ k + i - 1 \in i .. Len(a)
        BY <4>1, <4>2, SMTT(30)
      <4> QED BY <4>3 DEF t, i
    <3>5. InOrder(a) => InOrder(f[at])
      BY <2>2, <3>1, SuffixInOrder
    <3> QED BY <2>6, <3>2, <3>3, <3>4, <3>5 DEF RestMerged
  <2>9. CASE ~(at[1] > Len(a)) /\ ~(at[2] > Len(b))
    <3> DEFINE i == at[1]
               j == at[2]
    <3>1. i \in 1 .. Len(a) /\ j \in 1 .. Len(b) /\ at = <<i, j>>
      BY <2>2, <2>9
    <3>2. /\ <<i, j + 1>> \in D /\ <<i + 1, j>> \in D
          /\ m[<<i, j + 1>>] < m[at] /\ m[<<i + 1, j>>] < m[at]
      <4> HIDE DEF i, j
      <4> QED BY <3>1, TogoType DEF D
    <3>3. RestMerged(n, a, b, f, <<i, j + 1>>) /\ RestMerged(n, a, b, f, <<i + 1, j>>)
      BY <2>3, <3>2
    <3>4. f[at] = IF Before(b[j], a[i]) THEN <<b[j]>> \o f[<<i, j + 1>>] ELSE <<a[i]>> \o f[<<i + 1, j>>]
      BY <2>4, <2>9 DEF MergeStep
    <3> HIDE DEF i, j
    <3> QED BY <2>6, <3>1, <3>3, <3>4, MergeTakesOne
  <2> QED BY <2>7, <2>8, <2>9
<1>4. <<1, 1>> \in D /\ m[<<1, 1>>] = Len(a) + Len(b)
  <2>1. <<1, 1>> \in D
    BY DEF MergePlaces
  <2>2. m[<<1, 1>>] = Len(a) + 1 - 1 + Len(b) + 1 - 1
    BY <2>1 DEF Togo
  <2> QED BY <2>1, <2>2
<1>5. RestMerged(n, a, b, f, <<1, 1>>)
  BY <1>3, <1>4
<1> QED BY <1>1, <1>4, <1>5 DEF RestMerged

-----------------------------------------------------------------------------
(***************************************************************************)
(* Sorting by halves.                                                      *)
(***************************************************************************)
Parts(list) == {p \in (DOMAIN list) \X (DOMAIN list) : p[1] <= p[2]}

Median(part) == (part[1] + part[2] - 2) \div 2 + 1

SortStep(list, f, part) ==
  IF part[1] = part[2]
    THEN <<list[part[1]]>>
    ELSE Merged(f[<<part[1], Median(part)>>], f[<<Median(part) + 1, part[2]>>])

Sorting(list, f) == f = [part \in Parts(list) |-> SortStep(list, f, part)]

LEMMA SortedBy ==
  ASSUME NEW list, list # << >>, NEW g, Sorting(list, g)
  PROVE  \E f : Sorting(list, f) /\ pwdgen_img_merge_sort(list) = f[<<1, Len(list)>>]
<1>1. Sorting(list, CHOOSE f : Sorting(list, f))
  OBVIOUS
<1>2. pwdgen_img_merge_sort(list) = (CHOOSE f : Sorting(list, f))[<<1, Len(list)>>]
  BY DEF pwdgen_img_merge_sort, Sorting, Parts, SortStep, Median
<1> QED BY <1>1, <1>2

Breadth(list) == [part \in Parts(list) |-> part[2] - part[1]]

LEMMA Halves ==
  ASSUME NEW W, NEW list \in Seq(W), NEW part \in Parts(list)
  PROVE  /\ part[1] \in 1 .. Len(list) /\ part[2] \in 1 .. Len(list) /\ part[1] <= part[2]
         /\ part = <<part[1], part[2]>>
         /\ Breadth(list)[part] = part[2] - part[1]
         /\ Breadth(list)[part] \in 0 .. Len(list)
         /\ part[1] # part[2] =>
              /\ Median(part) \in Nat /\ part[1] <= Median(part) /\ Median(part) < part[2]
              /\ <<part[1], Median(part)>> \in Parts(list)
              /\ <<Median(part) + 1, part[2]>> \in Parts(list)
              /\ Breadth(list)[<<part[1], Median(part)>>] < Breadth(list)[part]
              /\ Breadth(list)[<<Median(part) + 1, part[2]>>] < Breadth(list)[part]
<1> DEFINE i == part[1]
           j == part[2]
           h == Median(part)
           L == Len(list)
<1>1. i \in 1 .. L /\ j \in 1 .. L /\ i <= j /\ part = <<i, j>> /\ L \in Nat /\ DOMAIN list = 1 .. L
  BY DEF Parts
<1>2. h = (i + j - 2) \div 2 + 1
  BY DEF Median
<1>3. \A x, y \in 1 .. L : x <= y =>
        <<x, y>> \in Parts(list) /\ Breadth(list)[<<x, y>>] = y - x
  BY DEF Parts, Breadth
<1> HIDE DEF i, j, h, L
<1>4. Breadth(list)[part] = j - i /\ j - i \in 0 .. L
  BY <1>1, <1>3
<1>5. ASSUME i # j
      PROVE  h \in Nat /\ i <= h /\ h < j
  BY <1>1, <1>2, <1>5
<1>6. ASSUME i # j
      PROVE  /\ <<i, h>> \in Parts(list) /\ <<h + 1, j>> \in Parts(list)
             /\ Breadth(list)[<<i, h>>] < j - i
             /\ Breadth(list)[<<h + 1, j>>] < j - i
  <2>1. h \in 1 .. L /\ h + 1 \in 1 .. L /\ i <= h /\ h + 1 <= j
    BY <1>1, <1>5, <1>6
  <2>2. Breadth(list)[<<i, h>>] = h - i /\ Breadth(list)[<<h + 1, j>>] = j - (h + 1)
    BY <1>1, <1>3, <2>1
  <2>3. h - i < j - i /\ j - (h + 1) < j - i
    BY <1>1, <2>1
  <2> QED BY <1>1, <1>3, <2>1, <2>2, <2>3
<1> QED BY <1>1, <1>4, <1>5, <1>6 DEF i, j, h, L

LEMMA SortExists ==
  ASSUME NEW n \in Nat, NEW list \in Seq(OfLength(n))
  PROVE  \E f : Sorting(list, f)
<1> DEFINE D == Parts(list)
           C == Seq(OfLength(n))
           m == Breadth(list)
           k == Len(list)
           F == [f \in [D -> C] |-> [part \in D |-> SortStep(list, f, part)]]
<1>1. C # {} /\ k \in Nat /\ m \in [D -> 0 .. k]
  <2>1. << >> \in C
    OBVIOUS
  <2>2. \A part \in D : m[part] \in 0 .. k
    BY Halves
  <2>3. m \in [D -> 0 .. k]
    <3>1. m = [part \in D |-> m[part]]
      BY DEF Breadth
    <3> HIDE DEF m, D, k
    <3> QED BY <2>2, <3>1
  <2> QED BY <2>1, <2>3
<1>2. ASSUME NEW f \in [D -> C], NEW part \in D PROVE SortStep(list, f, part) \in C
  <2>1. CASE part[1] = part[2]
    <3>1. part[1] \in 1 .. Len(list)
      BY Halves
    <3>2. list[part[1]] \in OfLength(n)
      BY <3>1
    <3> QED BY <2>1, <3>2 DEF SortStep
  <2>2. CASE part[1] # part[2]
    <3>1. f[<<part[1], Median(part)>>] \in C /\ f[<<Median(part) + 1, part[2]>>] \in C
      BY <2>2, Halves
    <3> QED BY <2>2, <3>1, MergeSorts DEF SortStep
  <2> QED BY <2>1, <2>2
<1>3. F \in [[D -> C] -> [D -> C]]
  <2> SUFFICES ASSUME NEW f \in [D -> C] PROVE [part \in D |-> SortStep(list, f, part)] \in [D -> C]
    OBVIOUS
  <2> QED BY <1>2
<1>4. ASSUME NEW f \in [D -> C], NEW g \in [D -> C], NEW part \in D, Agree(D, m, f, g, part)
      PROVE  SortStep(list, f, part) = SortStep(list, g, part)
  <2>1. CASE part[1] = part[2]
    BY <2>1 DEF SortStep
  <2>2. CASE part[1] # part[2]
    <3>1. /\ f[<<part[1], Median(part)>>] = g[<<part[1], Median(part)>>]
          /\ f[<<Median(part) + 1, part[2]>>] = g[<<Median(part) + 1, part[2]>>]
      BY <1>4, <2>2, Halves DEF Agree
    <3> QED BY <3>1 DEF SortStep
  <2> QED BY <2>1, <2>2
<1>5. \A f, g \in [D -> C], x \in D : Agree(D, m, f, g, x) => F[f][x] = F[g][x]
  BY <1>4
<1>6. PICK f \in [D -> C] : f = F[f]
  <2> HIDE DEF F, C, D, m, k
  <2>1. GoesDown(D, C, k, m, F)
    BY <1>1, <1>3, <1>5 DEF GoesDown
  <2> QED BY <2>1, Recursion
<1>7. f = [part \in D |-> SortStep(list, f, part)]
  BY <1>6
<1> QED BY <1>7 DEF Sorting

LEMMA SortSorts ==
  ASSUME NEW n \in Nat, NEW list \in Seq(OfLength(n))
  PROVE  /\ pwdgen_img_merge_sort(list) \in Seq(OfLength(n))
         /\ Len(pwdgen_img_merge_sort(list)) = Len(list)
         /\ InOrder(pwdgen_img_merge_sort(list))
<1> DEFINE D == Parts(list)
           m == Breadth(list)
           W == OfLength(n)
<1>0. CASE list = << >>
  BY <1>0 DEF pwdgen_img_merge_sort, InOrder
<1>1. CASE list # << >>
  <2>1. PICK f : Sorting(list, f) /\ pwdgen_img_merge_sort(list) = f[<<1, Len(list)>>]
    <3>1. PICK g : Sorting(list, g)
      BY SortExists
    <3> QED BY <1>1, <3>1, SortedBy
  <2> DEFINE Fine(part) == f[part] \in Seq(W) /\ Len(f[part]) = m[part] + 1 /\ InOrder(f[part])
             Bad == {part \in D : ~Fine(part)}
  <2>2. m \in [D -> Nat]
    <3>1. \A part \in D : m[part] \in Nat
      <4>1. \A part \in D : m[part] \in 0 .. Len(list)
        BY Halves
      <4>2. Len(list) \in Nat
        OBVIOUS
      <4> HIDE DEF m, D
      <4> QED BY <4>1, <4>2
    <3>2. m = [part \in D |-> m[part]]
      BY DEF Breadth
    <3> HIDE DEF m, D
    <3> QED BY <3>1, <3>2
  <2> HIDE DEF m
  <2>3. Bad = {}
    <3> SUFFICES ASSUME Bad # {} PROVE FALSE
      OBVIOUS
    <3>1. PICK part \in Bad : \A x \in Bad : m[part] <= m[x]
      <4>1. Bad \in SUBSET D
        OBVIOUS
      <4> HIDE DEF Bad, D
      <4> QED BY <2>2, <4>1, LeastOf
    <3>2. part \in D /\ ~Fine(part)
      BY <3>1
    <3>3. \A x \in D : m[x] < m[part] => Fine(x)
      <4> SUFFICES ASSUME NEW x \in D, m[x] < m[part], ~Fine(x) PROVE FALSE
        OBVIOUS
      <4>1. x \in Bad
        OBVIOUS
      <4>2. m[part] <= m[x] /\ m[part] \in Nat /\ m[x] \in Nat
        BY <2>2, <3>1, <3>2, <4>1
      <4> QED BY <4>2
    <3>4. f[part] = SortStep(list, f, part)
      BY <2>1, <3>2 DEF Sorting
    <3> DEFINE i == part[1]
               j == part[2]
               h == Median(part)
    <3>5. /\ i \in 1 .. Len(list) /\ j \in 1 .. Len(list) /\ i <= j
          /\ m[part] = j - i
          /\ i # j =>
              /\ h \in Nat /\ i <= h /\ h < j
              /\ <<i, h>> \in D /\ <<h + 1, j>> \in D
              /\ m[<<i, h>>] < m[part]
              /\ m[<<h + 1, j>>] < m[part]
      BY <3>2, Halves DEF m
    <3>6. CASE i = j
      <4>1. f[part] = <<list[i]>> /\ list[i] \in W
        BY <3>4, <3>5, <3>6 DEF SortStep
      <4> HIDE DEF W
      <4>2. f[part] \in Seq(W) /\ Len(f[part]) = 1 /\ InOrder(f[part])
        BY <4>1 DEF InOrder
      <4>3. m[part] + 1 = 1
        BY <3>5, <3>6
      <4> QED BY <3>2, <4>2, <4>3
    <3>7. CASE i # j
      <4> DEFINE a == f[<<i, h>>]
                 b == f[<<h + 1, j>>]
      <4>1. Fine(<<i, h>>) /\ Fine(<<h + 1, j>>)
        BY <3>3, <3>5, <3>7
      <4>2. m[<<i, h>>] = h - i /\ m[<<h + 1, j>>] = j - (h + 1)
        <5>1. \A x, y : <<x, y>> \in D => m[<<x, y>>] = y - x
          BY DEF Breadth, m
        <5> QED BY <3>5, <3>7, <5>1
      <4>3. f[part] = Merged(a, b)
        BY <3>4, <3>7 DEF SortStep
      <4>4. a \in Seq(W) /\ b \in Seq(W) /\ InOrder(a) /\ InOrder(b) /\ Len(a) = h - i + 1 /\ Len(b) = j - (h + 1) + 1
        BY <4>1, <4>2
      <4> HIDE DEF a, b
      <4>5. Merged(a, b) \in Seq(W) /\ Len(Merged(a, b)) = Len(a) + Len(b) /\ InOrder(Merged(a, b))
        BY <4>4, MergeSorts
      <4>6. Len(a) + Len(b) = (j - i) + 1
        <5>1. i \in Nat /\ j \in Nat /\ h \in Nat /\ Len(a) = h - i + 1 /\ Len(b) = j - (h + 1) + 1
          BY <3>5, <3>7, <4>4, SMTT(30)
        <5> HIDE DEF i, j, h
        <5> DEFINE la == Len(a)
                   lb == Len(b)
        <5>2. la = h - i + 1 /\ lb = j - (h + 1) + 1
          BY <5>1
        <5> HIDE DEF la, lb
        <5>3. la + lb = (j - i) + 1
          BY <5>1, <5>2
        <5> QED BY <5>3 DEF la, lb
      <4> QED BY <3>2, <3>5, <4>3, <4>5, <4>6
    <3> QED BY <3>6, <3>7
  <2>4. <<1, Len(list)>> \in D /\ m[<<1, Len(list)>>] + 1 = Len(list)
    <3>1. Len(list) \in Nat /\ Len(list) >= 1 /\ DOMAIN list = 1 .. Len(list)
      BY <1>1
    <3>2. <<1, Len(list)>> \in D
      BY <3>1 DEF Parts
    <3>3. m[<<1, Len(list)>>] = Len(list) - 1
      BY <3>2 DEF Breadth, m
    <3> QED BY <3>1, <3>2, <3>3
  <2>5. Fine(<<1, Len(list)>>)
    BY <2>3, <2>4
  <2> QED BY <2>1, <2>4, <2>5
<1> QED BY <1>0, <1>1

-----------------------------------------------------------------------------
(***************************************************************************)
(* Weeding out doubles.                                                    *)
(***************************************************************************)
Added(r, w) == IF r # << >> /\ Last(r) = w THEN r ELSE Append(r, w)

Weeding(list, g) ==
  g = [S \in SUBSET (DOMAIN list) |->
         IF S = {} THEN << >> ELSE Added(g[S \ {Max(S)}], list[Max(S)])]

LEMMA WeedingBy ==
  ASSUME NEW W, NEW list \in Seq(W)
  PROVE  \E g : Weeding(list, g) /\ pwdgen_img_remove_doubles_in_place(list) = g[DOMAIN list]
<1> DEFINE n == Len(list)
           C == Seq(W)
           step == [p \in C \X (1 .. n) |-> Added(p[1], list[p[2]])]
<1>1. n \in Nat /\ DOMAIN list = 1 .. n /\ << >> \in C
  OBVIOUS
<1>2. ASSUME NEW r \in C, NEW i \in 1 .. n PROVE Added(r, list[i]) \in C
  <2>1. list[i] \in W
    OBVIOUS
  <2> QED BY <2>1 DEF Added
<1>3. step \in [C \X (1 .. n) -> C] /\ \A r \in C, i \in 1 .. n : step[<<r, i>>] = Added(r, list[i])
  <2> HIDE DEF C, n
  <2> QED BY <1>2
<1>4. PICK g \in [SUBSET (1 .. n) -> C] : Folding(n, << >>, step, g)
  <2> HIDE DEF C, n, step
  <2> QED BY <1>1, <1>3, FoldExists
<1>5. Weeding(list, g)
  <2>1. \A S \in SUBSET (1 .. n) : S # {} =>
          step[<<g[S \ {Max(S)}], Max(S)>>] = Added(g[S \ {Max(S)}], list[Max(S)])
    <3> SUFFICES ASSUME NEW S \in SUBSET (1 .. n), S # {}
                 PROVE  step[<<g[S \ {Max(S)}], Max(S)>>] = Added(g[S \ {Max(S)}], list[Max(S)])
      OBVIOUS
    <3>1. g[S \ {Max(S)}] \in C /\ Max(S) \in 1 .. n
      BY <1>1, WithoutTop
    <3> HIDE DEF C, n, step
    <3> QED BY <1>3, <3>1
  <2> HIDE DEF C, n, step
  <2> QED BY <1>1, <1>4, <2>1 DEF Weeding, Folding
<1>6. Weeding(list, CHOOSE h : Weeding(list, h))
  BY <1>5
<1>7. pwdgen_img_remove_doubles_in_place(list) = (CHOOSE h : Weeding(list, h))[DOMAIN list]
  BY DEF pwdgen_img_remove_doubles_in_place, FoldLeft, MapThenFoldSet, Weeding, Added
<1> QED BY <1>6, <1>7

Weeded(n, list, g, S) ==
  /\ g[S] \in Seq(OfLength(n)) /\ Len(g[S]) <= Top(S)
  /\ S # {} => g[S] # << >> /\ Last(g[S]) = list[Max(S)]
  /\ S = {} => g[S] = << >>
  /\ InOrder(list) => Increasing(g[S])

LEMMA OneAdded ==
  ASSUME NEW n \in Nat, NEW r \in Seq(OfLength(n)), NEW w \in OfLength(n), Increasing(r),
         r # << >> => ~Before(w, Last(r))
  PROVE  Increasing(Added(r, w))
<1>1. CASE r # << >> /\ Last(r) = w
  BY <1>1 DEF Added
<1>2. CASE ~(r # << >> /\ Last(r) = w)
  <2> DEFINE s == Append(r, w)
             L == Len(r)
  <2>1. /\ L \in Nat /\ DOMAIN s = 1 .. L + 1 /\ s[L + 1] = w /\ DOMAIN r = 1 .. L
        /\ \A k \in 1 .. L : s[k] = r[k] /\ r[k] \in OfLength(n)
    OBVIOUS
  <2>2. \A k \in 1 .. L : Before(r[k], w)
    <3> SUFFICES ASSUME NEW k \in 1 .. L PROVE Before(r[k], w)
      OBVIOUS
    <3>1. r # << >> /\ Last(r) = r[L] /\ r[L] \in OfLength(n) /\ L \in 1 .. L
      BY DEF Last
    <3>2. Before(r[L], w)
      BY <1>2, <3>1, BeforeTotal
    <3>3. CASE k = L
      BY <3>2, <3>3
    <3>4. CASE k # L
      <4>1. Before(r[k], r[L])
        <5> HIDE DEF s, L
        <5>1. k \in DOMAIN r /\ L \in DOMAIN r /\ k < L
          BY <2>1, <3>4
        <5> QED BY <5>1 DEF Increasing
      <4> QED BY <2>1, <3>1, <3>2, <4>1, BeforeTransitive
    <3> QED BY <3>3, <3>4
  <2> HIDE DEF s, L
  <2>3. Increasing(s)
    <3> SUFFICES ASSUME NEW p \in DOMAIN s, NEW q \in DOMAIN s, p < q PROVE Before(s[p], s[q])
      BY DEF Increasing
    <3>1. p \in 1 .. L /\ p \in DOMAIN r
      BY <2>1
    <3>2. CASE q = L + 1
      BY <2>1, <2>2, <3>1, <3>2
    <3>3. CASE q # L + 1
      <4>1. q \in 1 .. L
        BY <2>1, <3>3
      <4> QED BY <2>1, <3>1, <4>1 DEF Increasing
    <3> QED BY <3>2, <3>3
  <2> QED BY <1>2, <2>3 DEF Added, s
<1> QED BY <1>1, <1>2

\* No more strings than before, and of a list in order each string once.
LEMMA DoublesRemoved ==
  ASSUME NEW n \in Nat, NEW list \in Seq(OfLength(n))
  PROVE  /\ pwdgen_img_remove_doubles_in_place(list) \in Seq(OfLength(n))
         /\ Len(pwdgen_img_remove_doubles_in_place(list)) <= Len(list)
         /\ InOrder(list) => Increasing(pwdgen_img_remove_doubles_in_place(list))
<1> DEFINE L == Len(list)
           D == SUBSET (1 .. L)
           m == Tops(L)
           W == OfLength(n)
<1>0. L \in Nat /\ DOMAIN list = 1 .. L /\ \A i \in 1 .. L : list[i] \in W
  OBVIOUS
<1>1. PICK g : Weeding(list, g) /\ pwdgen_img_remove_doubles_in_place(list) = g[1 .. L]
  BY <1>0, WeedingBy
<1> DEFINE Bad == {S \in D : ~Weeded(n, list, g, S)}
<1>2. m \in [D -> Nat]
  BY <1>0, TopsType
<1>3. Bad = {}
  <2> SUFFICES ASSUME Bad # {} PROVE FALSE
    OBVIOUS
  <2>1. PICK S \in Bad : \A x \in Bad : m[S] <= m[x]
    <3>1. Bad \in SUBSET D
      OBVIOUS
    <3> HIDE DEF Bad, D, m
    <3> QED BY <1>2, <3>1, LeastOf
  <2>2. S \in D /\ ~Weeded(n, list, g, S)
    BY <2>1
  <2>3. \A x \in D : m[x] < m[S] => Weeded(n, list, g, x)
    <3> SUFFICES ASSUME NEW x \in D, m[x] < m[S], ~Weeded(n, list, g, x) PROVE FALSE
      OBVIOUS
    <3>1. x \in Bad
      OBVIOUS
    <3>2. m[S] <= m[x] /\ m[S] \in Nat /\ m[x] \in Nat
      BY <1>2, <2>1, <2>2, <3>1
    <3> HIDE DEF m
    <3> QED BY <3>2
  <2> HIDE DEF Bad
  <2>4. g[S] = IF S = {} THEN << >> ELSE Added(g[S \ {Max(S)}], list[Max(S)])
    BY <1>0, <1>1, <2>2 DEF Weeding
  <2>5. CASE S = {}
    BY <2>2, <2>4, <2>5 DEF Weeded, Top, Increasing
  <2>6. CASE S # {}
    <3> DEFINE T == S \ {Max(S)}
               r == g[T]
               w == list[Max(S)]
    <3>1. /\ Max(S) \in S /\ Max(S) \in 1 .. L /\ Top(S) = Max(S) /\ T \in D
          /\ Top(T) < Top(S) /\ m[T] < m[S] /\ Top(S) \in Nat
      <4>1. L \in Nat /\ S \in SUBSET (1 .. L)
        BY <1>0, <2>2
      <4> HIDE DEF L
      <4>2. Top(S) \in 0 .. L
        BY <4>1, WithoutTop
      <4>3. /\ Max(S) \in S /\ Max(S) \in 1 .. L /\ Top(S) = Max(S) /\ T \in D
            /\ Top(T) < Top(S) /\ m[T] < m[S]
        BY <4>1, <2>6, WithoutTop
      <4> QED BY <4>1, <4>2, <4>3
    <3>2. Weeded(n, list, g, T)
      BY <2>3, <3>1
    <3>3. r \in Seq(W) /\ w \in W /\ g[S] = Added(r, w) /\ Len(r) <= Top(T) /\ Top(T) \in Nat
      <4>1. r \in Seq(W) /\ Len(r) <= Top(T)
        BY <3>2 DEF Weeded
      <4>2. Top(T) \in 0 .. L
        BY <1>0, <3>1, WithoutTop
      <4>3. w \in W
        BY <1>0, <3>1
      <4> HIDE DEF T, r, w
      <4>4. Top(T) \in Nat
        BY <1>0, <4>2
      <4> QED BY <2>4, <2>6, <4>1, <4>3, <4>4 DEF r, w, T
    <3>4. T # {} => Max(T) \in T /\ Top(T) = Max(T)
      BY <1>0, <3>1, WithoutTop
    <3>5. r # << >> => T # {} /\ Last(r) = list[Max(T)]
      BY <3>2 DEF Weeded
    <3>6. InOrder(list) /\ r # << >> => ~Before(w, Last(r))
      <4> SUFFICES ASSUME InOrder(list), r # << >> PROVE ~Before(w, list[Max(T)])
        BY <3>5
      <4>1. Max(T) \in 1 .. L /\ Max(T) < Max(S)
        BY <3>1, <3>4, <3>5
      <4> QED BY <1>0, <3>1, <4>1 DEF InOrder
    <3>7. InOrder(list) => Increasing(r)
      BY <3>2 DEF Weeded
    <3> HIDE DEF T, r, w, D, L, W, m
    <3>8. InOrder(list) => Increasing(g[S])
      BY <3>3, <3>6, <3>7, OneAdded DEF W
    <3>9. g[S] \in Seq(W) /\ Len(g[S]) <= Len(r) + 1 /\ g[S] # << >> /\ Last(g[S]) = w
          /\ (g[S] = r \/ Len(g[S]) = Len(r) + 1)
      <4>1. CASE r # << >> /\ Last(r) = w
        <5>1. g[S] = r
          BY <3>3, <4>1 DEF Added
        <5>2. Len(r) \in Nat
          BY <3>3
        <5> QED BY <3>3, <4>1, <5>1, <5>2
      <4>2. CASE ~(r # << >> /\ Last(r) = w)
        <5>1. g[S] = Append(r, w)
          BY <3>3, <4>2 DEF Added
        <5> QED BY <3>3, <5>1 DEF Last
      <4> QED BY <4>1, <4>2
    <3>10. Len(g[S]) <= Top(S)
      <4>1. Len(r) \in Nat /\ Len(g[S]) \in Nat
        BY <3>3, <3>9
      <4> QED BY <3>1, <3>3, <3>9, <4>1
    <3> QED BY <2>2, <2>6, <3>8, <3>9, <3>10 DEF Weeded, W, w
  <2> QED BY <2>5, <2>6
<1>4. Weeded(n, list, g, 1 .. L)
  BY <1>3
<1>5. Top(1 .. L) \in 0 .. L
  BY <1>0, WithoutTop
<1>6. g[1 .. L] \in Seq(W) /\ Len(g[1 .. L]) <= L /\ (InOrder(list) => Increasing(g[1 .. L]))
  <2>1. g[1 .. L] \in Seq(W) /\ Len(g[1 .. L]) <= Top(1 .. L) /\ (InOrder(list) => Increasing(g[1 .. L]))
    BY <1>4 DEF Weeded
  <2>2. Len(g[1 .. L]) \in Nat
    BY <2>1
  <2> QED BY <1>0, <1>5, <2>1, <2>2
<1> QED BY <1>1, <1>6

TwoParts(W, a, b, s) ==
  /\ s \in Seq(W) /\ Len(s) = Len(a) + Len(b)
  /\ SubSeq(s, 1, Len(a)) = a /\ SubSeq(s, Len(a) + 1, Len(s)) = b

LEMMA Joined ==
  ASSUME NEW W, NEW a \in Seq(W), NEW b \in Seq(W)
  PROVE  TwoParts(W, a, b, a \o b)
<1> DEFINE s == a \o b
<1>1. s \in Seq(W) /\ Len(s) = Len(a) + Len(b) /\ Len(a) \in Nat /\ Len(b) \in Nat
  OBVIOUS
<1>2. \A k \in 1 .. Len(a) : s[k] = a[k]
  OBVIOUS
<1>3. \A k \in 1 .. Len(b) : s[Len(a) + k] = b[k]
  OBVIOUS
<1> HIDE DEF s
<1>4. SubSeq(s, 1, Len(a)) = a
  <2>1. SubSeq(s, 1, Len(a)) \in Seq(W) /\ Len(SubSeq(s, 1, Len(a))) = Len(a)
        /\ \A k \in 1 .. Len(a) : SubSeq(s, 1, Len(a))[k] = s[k]
    BY <1>1
  <2>2. \A k \in 1 .. Len(a) : SubSeq(s, 1, Len(a))[k] = a[k]
    BY <1>2, <2>1
  <2> DEFINE t == SubSeq(s, 1, Len(a))
  <2>3. t \in Seq(W) /\ Len(t) = Len(a) /\ \A k \in 1 .. Len(a) : t[k] = a[k]
    BY <2>1, <2>2
  <2> HIDE DEF t
  <2>4. t = a
    BY <2>3
  <2> QED BY <2>4 DEF t
<1>5. SubSeq(s, Len(a) + 1, Len(s)) = b
  <2> DEFINE t == SubSeq(s, Len(a) + 1, Len(s))
  <2>1. t \in Seq(W) /\ Len(t) = Len(b) /\ \A k \in 1 .. Len(b) : t[k] = s[Len(a) + k]
    BY <1>1
  <2> HIDE DEF t
  <2>2. t \in Seq(W) /\ Len(t) = Len(b) /\ \A k \in 1 .. Len(b) : t[k] = b[k]
    BY <1>3, <2>1
  <2>4. t = b
    BY <2>2
  <2> QED BY <2>4 DEF t
<1> QED BY <1>1, <1>4, <1>5 DEF s, TwoParts

LEMMA SortedOrLeft ==
  ASSUME NEW n \in Nat, NEW list \in Seq(OfLength(n)), NEW memory
  PROVE  /\ pwdgen_img_sort(list, memory) \in Seq(OfLength(n))
         /\ Len(pwdgen_img_sort(list, memory)) = Len(list)
         /\ memory => InOrder(pwdgen_img_sort(list, memory))
BY SortSorts DEF pwdgen_img_sort

\* What is sorted and rid of doubles does not grow; with memory enough it has every
\* string once, when its first m strings had.
LEMMA ListSorted ==
  ASSUME NEW n \in Nat, NEW list \in Seq(OfLength(n)), NEW m \in 0 .. Len(list), NEW memory
  PROVE  /\ SortAndUnique(list, m, memory) \in Seq(OfLength(n))
         /\ Len(SortAndUnique(list, m, memory)) <= Len(list)
         /\ memory.sort /\ memory.merge /\ (m > 0 => Increasing(SubSeq(list, 1, m)))
            => Increasing(SortAndUnique(list, m, memory))
<1> DEFINE W == OfLength(n)
           a == SubSeq(list, 1, m)
           b == pwdgen_img_sort(SubSeq(list, m + 1, Len(list)), memory.sort)
           s == IF m > 0 THEN pwdgen_img_merge(a \o b, m, memory.merge)
                         ELSE pwdgen_img_sort(list, memory.sort)
<1>1. SortAndUnique(list, m, memory) = pwdgen_img_remove_doubles_in_place(s)
  BY DEF SortAndUnique
<1>2. /\ s \in Seq(W) /\ Len(s) = Len(list)
      /\ memory.sort /\ memory.merge /\ (m > 0 => Increasing(a)) => InOrder(s)
  <2>1. CASE m > 0
    <3>1. a \in Seq(W) /\ Len(a) = m
      BY Prefix
    <3>2. SubSeq(list, m + 1, Len(list)) \in Seq(W) /\ Len(SubSeq(list, m + 1, Len(list))) = Len(list) - m
      <4>1. m + 1 \in 1 .. Len(list) + 1
        OBVIOUS
      <4>2. Len(list) - (m + 1) + 1 = Len(list) - m
        OBVIOUS
      <4> QED BY <4>1, <4>2, Suffix
    <3>3. b \in Seq(W) /\ Len(b) = Len(list) - m /\ (memory.sort => InOrder(b))
      BY <3>2, SortedOrLeft
    <3> HIDE DEF a, b
    <3>4. /\ a \o b \in Seq(W) /\ Len(a \o b) = Len(list)
          /\ SubSeq(a \o b, 1, m) = a /\ SubSeq(a \o b, m + 1, Len(a \o b)) = b
      <4>1. Len(a) + Len(b) = Len(list)
        BY <3>1, <3>3
      <4>2. a \in Seq(W) /\ b \in Seq(W) /\ Len(a) = m
        BY <3>1, <3>3
      <4>3. TwoParts(W, a, b, a \o b)
        <5> HIDE DEF W
        <5> QED BY <4>2, Joined
      <4> QED BY <4>1, <4>2, <4>3 DEF TwoParts
    <3>5. Merged(a, b) \in Seq(W) /\ Len(Merged(a, b)) = Len(list)
          /\ (InOrder(a) /\ InOrder(b) => InOrder(Merged(a, b)))
      <4>1. Len(a) + Len(b) = Len(list)
        BY <3>1, <3>3
      <4> QED BY <3>1, <3>3, <4>1, MergeSorts
    <3>6. Increasing(a) => InOrder(a)
      BY <3>1, IncreasingInOrder
    <3>7. s = IF memory.merge \/ Len(list) = 2 THEN Merged(a, b) ELSE a \o b
      BY <2>1, <3>4 DEF pwdgen_img_merge
    <3> QED BY <2>1, <3>3, <3>4, <3>5, <3>6, <3>7
  <2>2. CASE ~(m > 0)
    BY <2>2, SortedOrLeft
  <2> QED BY <2>1, <2>2
<1> HIDE DEF s, W
<1>3. /\ pwdgen_img_remove_doubles_in_place(s) \in Seq(W)
      /\ Len(pwdgen_img_remove_doubles_in_place(s)) <= Len(s)
      /\ InOrder(s) => Increasing(pwdgen_img_remove_doubles_in_place(s))
  BY <1>2, DoublesRemoved DEF W
<1> QED BY <1>1, <1>2, <1>3 DEF W

-----------------------------------------------------------------------------
(***************************************************************************)
(* The sizes.                                                              *)
(***************************************************************************)
LEMMA Quotient ==
  ASSUME NEW a \in Nat, NEW b \in Nat, b >= 1
  PROVE  a \div b \in Nat
OBVIOUS

LEMMA PowerOfTwo ==
  ASSUME NEW S, IsFiniteSet(S)
  PROVE  2^Cardinality(S) \in Nat /\ 2^Cardinality(S) >= 1
<1>1. Cardinality(SUBSET S) = 2^Cardinality(S) /\ IsFiniteSet(SUBSET S)
  BY FS_SUBSET
<1>2. Cardinality(SUBSET S) \in Nat
  BY <1>1, FS_CardinalityType
<1>3. Cardinality(SUBSET S) # 0
  <2>1. SUBSET S # {}
    OBVIOUS
  <2> HIDE <1>2
  <2> QED BY <1>1, <2>1, FS_EmptySet, Zenon
<1> DEFINE c == Cardinality(SUBSET S)
<1>4. c >= 1 /\ c \in Nat
  <2> HIDE DEF c
  <2>1. c \in Nat /\ c # 0
    BY <1>2, <1>3 DEF c
  <2> QED BY <2>1
<1> QED BY <1>1, <1>4

LEMMA Numbers ==
  /\ BUFSIZE \in Nat /\ ManyStrings \in Nat /\ MARGIN \in Nat /\ IsFiniteSet(LongLengths)
BY ImgAssumption, Zenon DEF ImgAssumption

LEMMA AJob ==
  ASSUME NEW j \in Jobs
  PROVE  GoodOpt(j.opt) /\ j.image \in Seq(Byte) /\ j.start \in Nat
<1>1. j.image \in Seq(0 .. 255) /\ j.start \in Nat \ {0}
  BY ImgAssumption, ZenonT(60) DEF ImgAssumption
<1>2. j.image \in Seq(Byte)
  BY <1>1, Zenon DEF Byte
<1>7. j.opt.stages # {} /\ j.opt.stages \subseteq 0 .. 1
  BY ImgAssumption, ZenonT(60) DEF ImgAssumption
<1>8. j.opt.mutations # {} /\ j.opt.mutations \subseteq 0 .. 10
  BY ImgAssumption, ZenonT(60) DEF ImgAssumption
<1> DEFINE st == j.opt.stages
           mu == j.opt.mutations
<1>3. st # {} /\ st \in SUBSET (0 .. 1) /\ mu # {} /\ mu \in SUBSET (0 .. 10)
  BY <1>7, <1>8
<1> HIDE DEF st, mu
<1>4. st \subseteq {0, 1}
  <2>1. 0 .. 1 = {0, 1}
    OBVIOUS
  <2> QED BY <1>3, <2>1
<1>5. \A m \in mu : m \in Bits /\ m <= 10
  <2>1. \A m \in 0 .. 10 : m \in Bits /\ m <= 10
    BY DEF Bits
  <2> QED BY <1>3, <2>1
<1>6. GoodOpt(j.opt)
  BY <1>3, <1>4, <1>5 DEF GoodOpt, st, mu
<1> QED BY <1>1, <1>2, <1>6

LEMMA BlockSize == job \in Jobs => \A l : buffer_size(l) \in Nat
<1> SUFFICES ASSUME job \in Jobs, NEW l PROVE buffer_size(l) \in Nat
  OBVIOUS
<1> DEFINE c == Kinds(opt)
           few == IF c > 3 THEN (2 * BUFSIZE) \div c ELSE BUFSIZE
           S == {x \in LongLengths : l >= x}
<1>1. c \in Nat /\ c >= 1 /\ Combinations = c
  <2>1. c \in Nat \ {0}
    BY AJob, KindsCounted DEF opt
  <2>2. Combinations = c
    BY DEF Combinations, Kinds
  <2> HIDE DEF c
  <2> QED BY <2>1, <2>2
<1>2. few \in Nat
  <2> HIDE DEF c
  <2>1. 2 * BUFSIZE \in Nat
    BY Numbers
  <2>2. (2 * BUFSIZE) \div c \in Nat
    BY <1>1, <2>1, Quotient
  <2> QED BY <2>2, Numbers
<1>3. 2^Cardinality(S) \in Nat /\ 2^Cardinality(S) >= 1
  <2>1. IsFiniteSet(S)
    BY Numbers, FS_Subset
  <2> HIDE DEF S
  <2> QED BY <2>1, PowerOfTwo
<1>4. buffer_size(l) = few \div 2^Cardinality(S)
  BY <1>1 DEF buffer_size
<1> HIDE DEF few, S
<1> QED BY <1>2, <1>3, <1>4, Quotient

LEMMA ListSizes ==
  job \in Jobs => /\ max_merge \in Nat /\ max_list \in Nat /\ max_merge <= max_list
                  /\ max_merge = (buffer_size(len) + 1) * Passes(opt) * (Kinds(opt) + 1) + MARGIN
<1> SUFFICES ASSUME job \in Jobs
             PROVE  /\ max_merge \in Nat /\ max_list \in Nat /\ max_merge <= max_list
                    /\ max_merge = (buffer_size(len) + 1) * Passes(opt) * (Kinds(opt) + 1) + MARGIN
  OBVIOUS
<1> DEFINE b == buffer_size(len) + 1
           p == Passes(opt)
           k == Kinds(opt) + 1
<1>1. b \in Nat /\ p \in Nat /\ k \in Nat
  <2>1. buffer_size(len) \in Nat
    BY BlockSize
  <2>2. Kinds(opt) \in Nat
    BY AJob, KindsCounted DEF opt
  <2> QED BY <2>1, <2>2 DEF Passes
<1>2. max_merge = b * p * k + MARGIN
  BY DEF max_merge, Passes, Combinations, Kinds
<1> HIDE DEF b, p, k
<1>3. b * p * k \in Nat
  <2>1. b * p \in Nat
    BY <1>1
  <2> DEFINE q == b * p
  <2> HIDE DEF q
  <2>2. q * k \in Nat
    BY <1>1, <2>1 DEF q
  <2> QED BY <2>2 DEF q
<1>4. max_merge \in Nat
  <2> DEFINE q == b * p * k
  <2>1. q \in Nat
    BY <1>3
  <2> HIDE DEF q
  <2> QED BY <1>2, <2>1, Numbers DEF q
<1>5. max_list \in Nat /\ max_merge <= max_list
  BY <1>4, Numbers DEF max_list
<1> QED BY <1>2, <1>4, <1>5 DEF b, p, k

-----------------------------------------------------------------------------
LEMMA OneMoreString ==
  ASSUME NEW n \in Nat
  PROVE  OneMore(n) \in Nat /\ (OneMore(n) < MaxPwds => OneMore(n) = n + 1 /\ n < MaxPwds)
BY TimerAssumption DEF OneMore, TimerAssumption

-----------------------------------------------------------------------------
(***************************************************************************)
(* The counter.  It is brought up to date when a list has been gone        *)
(* through; until then it is behind by the strings before cur_pwd.         *)
(***************************************************************************)
InList == phase \in {"check", "left"}

SumRight ==
  /\ InList => cur_pwd \in Nat \ {0}
  /\ calls < MaxPwds => calls = (IF InList THEN pwds + cur_pwd - 1 ELSE pwds)

TallyInv == TimerTypeOK /\ pwds_done = 0 /\ calls \in Nat /\ len \in Nat /\ job \in Jobs /\ SumRight

LEMMA TallyKept ==
  ASSUME TallyInv, TimerTypeOK', UNCHANGED <<pwds, pwds_done, calls, job>>, ~InList,
         len' \in Nat, ~InList' \/ cur_pwd' = 1
  PROVE  TallyInv'
<1>1. pwds \in Nat /\ MaxPwds \in Nat
  BY TimerAssumption DEF TallyInv, TimerTypeOK, TimerAssumption
<1> QED BY <1>1 DEF TallyInv, SumRight

LEMMA SameTimer ==
  ASSUME TimerTypeOK, UNCHANGED timerVars
  PROVE  TimerTypeOK' /\ UNCHANGED <<pwds, pwds_done, timedOut>>
BY DEF TimerTypeOK, timerVars, clockVars, checkVars, countVars

(***************************************************************************)
(* The exit code.  A call that sets pwd->error does not end the list, so   *)
(* the target may be given after it; main() says PWD_ERROR then.           *)
(***************************************************************************)
Running == {"init", "length", "read", "check", "left"}

Outcome ==
  /\ found \in {0, 2, 4, 7}
  /\ ~error =>
       /\ found = 0 => target \notin given /\ ~failed /\ len > job.end
       /\ found = 2 => target \in given \/ failed
       /\ found = 4 => timedOut /\ target \notin given /\ ~failed

ImgInv ==
  /\ TallyInv
  /\ error \in BOOLEAN
  /\ phase \in Running \union {"end", "exited"}
  /\ phase \in Running => ~failed /\ (~error => target \notin given)
  /\ phase = "end" => Outcome
  /\ phase # "exited" => exitcode = -1
  /\ exitcode = 0 => target \notin given /\ ~failed /\ len > job.end
  /\ exitcode = 1 => target \in given \/ failed
  /\ exitcode = 2 => timedOut /\ target \notin given /\ ~failed

LEMMA ImgOfInit == WorkerImgInit => ImgInv
<1> SUFFICES ASSUME WorkerImgInit PROVE ImgInv
  OBVIOUS
<1>1. /\ TimerInitWith(0, 0) /\ phase = "init" /\ error = FALSE /\ exitcode = -1
      /\ given = {} /\ failed = FALSE /\ calls = 0 /\ len = 0 /\ job \in Jobs
  BY DEF WorkerImgInit, EndInit
<1>2. max_pwds \in 0 .. ULongMod - 1 /\ warps \in 0 .. MaxWarps
  BY <1>1, TimerAssumption DEF TimerInitWith, TimerAssumption
<1>3. timedOut \in BOOLEAN
  BY <1>1 DEF TimerInitWith
<1>4. /\ now \in Int /\ real \in Nat /\ tstart \in Int /\ tlast \in Int /\ tlast_report \in Int
      /\ took \in Int /\ report_status \in Nat /\ pwds = 0 /\ pwds_done = 0
  BY <1>1 DEF TimerInitWith
<1>5. TallyInv
  BY <1>1, <1>2, <1>3, <1>4 DEF TallyInv, SumRight, InList, TimerTypeOK
<1>6. exitcode \notin {0, 1, 2} /\ phase # "end" /\ phase # "exited"
  BY <1>1
<1> QED BY <1>1, <1>5, <1>6 DEF ImgInv, Running

\* A step that hands nothing to dofunction() and does not end the worker.
LEMMA ImgGoesOn ==
  ASSUME ImgInv, TallyInv', phase \in Running, phase' \in Running,
         UNCHANGED <<target, error, exitcode, given, failed>>
  PROVE  ImgInv'
BY DEF ImgInv, Running

LEMMA ImgOfRefusal ==
  ASSUME ImgInv, Abort
  PROVE  ImgInv'
<1>1. /\ phase = "init" /\ phase' = "exited" /\ exitcode' = PWD_ERROR
      /\ UNCHANGED <<timerVars, error, job, len, given, calls, failed>>
  BY DEF Abort, GiveUp, imgVars, seenVars
<1>2. TallyInv'
  BY <1>1, SameTimer, TallyKept DEF ImgInv, TallyInv, InList
<1> QED BY <1>1, <1>2 DEF ImgInv, Running, PWD_ERROR

LEMMA ImgOfLengths ==
  ASSUME ImgInv, AllLengthsDone
  PROVE  ImgInv'
<1>1. /\ phase = "length" /\ phase' = "end" /\ len > job.end
      /\ found' = (IF error' THEN PWD_ERROR ELSE PWD_FAIL)
      /\ UNCHANGED <<timerVars, error, target, exitcode, job, len, given, calls, failed>>
  BY DEF AllLengthsDone, Return, imgVars, seenVars
<1>2. TallyInv'
  BY <1>1, SameTimer, TallyKept DEF ImgInv, TallyInv, InList
<1>3. Outcome'
  BY <1>1 DEF ImgInv, Running, Outcome, PWD_ERROR, PWD_FAIL
<1> QED BY <1>1, <1>2, <1>3 DEF ImgInv, Running

LEMMA ImgOfLength ==
  ASSUME ImgInv, StartLength
  PROVE  ImgInv'
<1>1. /\ phase = "length" /\ pwdgen_time_check
      /\ UNCHANGED <<clockVars, countVars, error, job, len, given, calls, failed>>
  BY DEF StartLength, seenVars
<1>2. /\ target' = target /\ exitcode' = exitcode
      /\ \/ phase' = "read"
         \/ phase' = "end" /\ found' = (IF error' THEN PWD_ERROR ELSE PWD_TIMEOUT) /\ timedOut'
         \/ phase' = "end" /\ found' = PWD_ERROR
  BY DEF StartLength, Return, GoTo
<1>3. TimerTypeOK
  BY DEF ImgInv, TallyInv
<1>4. TimerTypeOK' /\ UNCHANGED <<pwds, pwds_done>>
  BY <1>1, <1>3, CheckTypes DEF TimerTypeOK, clockVars, countVars
<1>5. TallyInv'
  BY <1>1, <1>2, <1>4, TallyKept DEF ImgInv, TallyInv, InList
<1>6. CASE phase' = "read"
  BY <1>1, <1>2, <1>5, <1>6, ImgGoesOn DEF Running
<1>7. CASE phase' = "end"
  <2>1. Outcome'
    BY <1>1, <1>2, <1>7 DEF ImgInv, Running, Outcome, PWD_ERROR, PWD_TIMEOUT
  <2> QED BY <1>1, <1>2, <1>5, <1>7, <2>1 DEF ImgInv, Running
<1> QED BY <1>2, <1>6, <1>7

LEMMA ImgOfReading ==
  ASSUME ImgInv, ReadBlock \/ LeftOver
  PROVE  ImgInv'
<1>1. /\ phase = "read"
      /\ UNCHANGED <<timerVars, error, job, given, calls, failed, target, exitcode>>
      /\ \/ phase' \in {"read", "length"}
         \/ phase' \in {"check", "left"} /\ cur_pwd' = 1
      /\ len' \in {len, len + 1}
  <2>1. CASE ReadBlock
    BY <2>1 DEF ReadBlock, GoTo, seenVars
  <2>2. CASE LeftOver
    BY <2>2 DEF LeftOver, NextLength, GoTo, seenVars
  <2> QED BY <2>1, <2>2
<1>2. TallyInv'
  <2>1. ~InList /\ len' \in Nat /\ (~InList' \/ cur_pwd' = 1)
    BY <1>1 DEF InList, ImgInv, TallyInv
  <2> QED BY <1>1, <2>1, SameTimer, TallyKept DEF ImgInv, TallyInv
<1> QED BY <1>1, <1>2, ImgGoesOn DEF Running

LEMMA ImgOfCheck ==
  ASSUME ImgInv, CheckString
  PROVE  ImgInv'
<1>1. PICK r \in Results :
        /\ dofunction(r)
        /\ \/ r # 0 /\ AddChecked /\ Return(PWD_SUCCESS) /\ len' = len
           \/ /\ r = 0 /\ cur_pwd' = cur_pwd + 1
              /\ UNCHANGED <<timerVars, phase, target, found, exitcode, len>>
           \/ /\ r = 0 /\ AddChecked
              /\ IF phase = "left" THEN NextLength ELSE GoTo("read") /\ UNCHANGED len
  BY DEF CheckString
<1>2. /\ phase \in {"check", "left"} /\ InList /\ UNCHANGED job
      /\ calls' = OneMore(calls) /\ given' = given \union {pwd_list[cur_pwd]}
      /\ failed' = (failed \/ r = PWD_ERROR)
      /\ target' = target /\ exitcode' = exitcode
  BY <1>1 DEF CheckString, dofunction, InList, Return, NextLength, GoTo
<1>3. /\ TimerTypeOK /\ pwds_done = 0 /\ calls \in Nat /\ len \in Nat /\ job \in Jobs
      /\ cur_pwd \in Nat \ {0} /\ pwds \in Nat /\ MaxPwds \in Nat
      /\ calls < MaxPwds => calls = pwds + cur_pwd - 1
  BY <1>2, TimerAssumption DEF ImgInv, TallyInv, SumRight, TimerTypeOK, TimerAssumption
<1>4. /\ calls' \in Nat
      /\ calls' < MaxPwds => calls' = calls + 1 /\ calls < MaxPwds
  BY <1>2, <1>3, OneMoreString
<1>5. ~failed /\ (~error => target \notin given) /\ error \in BOOLEAN /\ exitcode = -1
  BY <1>2 DEF ImgInv, Running
<1>6. /\ error' \in BOOLEAN
      /\ r = 0 => ~failed' /\ (~error' => target' \notin given')
      /\ r # 0 => target' \in given' \/ failed'
  <2>1. PWD_SUCCESS # 0 /\ PWD_ERROR # 0 /\ PWD_FAIL = 0 /\ PWD_SUCCESS # PWD_ERROR
        /\ PWD_FAIL # PWD_ERROR
    BY DEF PWD_SUCCESS, PWD_FAIL, PWD_ERROR
  <2>2. \/ /\ r = (IF pwd_list[cur_pwd] = target THEN PWD_SUCCESS ELSE PWD_FAIL)
           /\ error' = error
        \/ r = PWD_ERROR /\ error' \in BOOLEAN
        \/ r = PWD_FAIL /\ error' = TRUE
    BY <1>1 DEF dofunction
  <2>3. CASE r = PWD_ERROR /\ error' \in BOOLEAN
    BY <1>2, <1>5, <2>1, <2>3
  <2>4. CASE r = PWD_FAIL /\ error' = TRUE
    BY <1>2, <1>5, <2>1, <2>4
  <2>5. CASE /\ r = (IF pwd_list[cur_pwd] = target THEN PWD_SUCCESS ELSE PWD_FAIL)
             /\ error' = error
    <3>1. CASE pwd_list[cur_pwd] = target
      BY <1>2, <1>5, <2>1, <2>5, <3>1
    <3>2. CASE pwd_list[cur_pwd] # target
      BY <1>2, <1>5, <2>1, <2>5, <3>2
    <3> QED BY <3>1, <3>2
  <2> QED BY <2>2, <2>3, <2>4, <2>5
<1>7. ASSUME AddChecked, phase' \notin {"check", "left"}, len' \in Nat
      PROVE  TallyInv'
  <2>1. /\ pwds' = AddUp(cur_pwd) /\ took' = Took /\ pwds_done' = 0
        /\ UNCHANGED <<clockVars, tstart, tlast, tlast_report, report_status, max_pwds, timedOut>>
    BY <1>3, <1>7 DEF AddChecked, Counted
  <2>2. pwds' \in Nat /\ took' \in Int
    BY <1>3, <2>1, AddUpType DEF Took, TimerTypeOK
  <2>3. TimerTypeOK'
    BY <1>3, <2>1, <2>2 DEF TimerTypeOK, clockVars
  <2>4. calls' < MaxPwds => calls' = pwds'
    BY <1>3, <1>4, <2>1 DEF AddUp
  <2> QED BY <1>2, <1>3, <1>4, <1>7, <2>1, <2>3, <2>4 DEF TallyInv, SumRight, InList
<1>8. CASE r # 0
  <2>1. /\ AddChecked /\ phase' = "end" /\ len' = len
        /\ found' = (IF error' THEN PWD_ERROR ELSE PWD_SUCCESS)
    BY <1>1, <1>8 DEF Return
  <2>2. TallyInv'
    BY <1>3, <1>7, <2>1
  <2>3. Outcome'
    BY <1>6, <1>8, <2>1 DEF Outcome, PWD_ERROR, PWD_SUCCESS
  <2> QED BY <1>2, <1>5, <1>6, <2>1, <2>2, <2>3 DEF ImgInv, Running
<1>9. CASE r = 0 /\ cur_pwd' = cur_pwd + 1 /\ UNCHANGED <<timerVars, phase, len>>
  <2>1. TimerTypeOK' /\ UNCHANGED <<pwds, pwds_done>>
    BY <1>3, <1>9, SameTimer
  <2>2. InList' /\ cur_pwd' \in Nat \ {0} /\ (calls' < MaxPwds => calls' = pwds' + cur_pwd' - 1)
    BY <1>2, <1>3, <1>4, <1>9, <2>1 DEF InList
  <2>3. TallyInv'
    BY <1>2, <1>3, <1>4, <1>9, <2>1, <2>2 DEF TallyInv, SumRight
  <2> QED BY <1>2, <1>5, <1>6, <1>9, <2>3 DEF ImgInv, Running
<1>10. CASE r = 0 /\ AddChecked /\ phase' \in {"length", "read"} /\ len' \in {len, len + 1}
  <2>1. TallyInv'
    BY <1>3, <1>7, <1>10
  <2> QED BY <1>2, <1>5, <1>6, <1>10, <2>1 DEF ImgInv, Running
<1> QED BY <1>1, <1>8, <1>9, <1>10 DEF NextLength, GoTo

LEMMA ImgOfFinish ==
  ASSUME ImgInv, Finish
  PROVE  ImgInv'
<1>1. /\ phase = "end" /\ phase' = "exited" /\ Exit(found)
      /\ UNCHANGED <<error, job, len, cur_pwd, given, calls, failed, target>>
  BY DEF Finish, Exit, imgVars, seenVars
<1>2. Outcome /\ TallyInv /\ error \in BOOLEAN
  BY <1>1 DEF ImgInv
<1>3. CASE exitcode' = PWD_ERROR /\ UNCHANGED timerVars
  <2>1. TallyInv'
    BY <1>1, <1>2, <1>3, SameTimer, TallyKept DEF TallyInv, InList
  <2> QED BY <1>1, <1>2, <1>3, <2>1 DEF ImgInv, Running, PWD_ERROR
<1>4. CASE found < PWD_ERROR /\ ~error' /\ exitcode' = ExitCode(found) /\ pwdgen_stop
  <2>1. /\ pwds' = AddUp(pwds_done) /\ pwds_done' = 0 /\ took' = now - tstart
        /\ UNCHANGED <<clockVars, tstart, tlast, tlast_report, report_status, max_pwds, timedOut>>
    BY <1>4 DEF pwdgen_stop
  <2>2. /\ TimerTypeOK /\ pwds_done = 0 /\ calls \in Nat /\ pwds \in Nat /\ MaxPwds \in Nat
        /\ now \in Int /\ tstart \in Int /\ (calls < MaxPwds => calls = pwds)
    BY <1>1, <1>2, TimerAssumption DEF TallyInv, SumRight, InList, TimerTypeOK, TimerAssumption
  <2>3. pwds' \in Nat /\ took' \in Int
    BY <2>1, <2>2, AddUpType
  <2>4. TimerTypeOK'
    BY <2>1, <2>2, <2>3 DEF TimerTypeOK, clockVars
  <2>5. calls' < MaxPwds => calls' = pwds'
    BY <1>1, <2>1, <2>2 DEF AddUp
  <2>6. TallyInv'
    BY <1>1, <1>2, <2>1, <2>4, <2>5 DEF TallyInv, SumRight, InList
  <2>7. /\ found \in {0, 2, 4}
        /\ found = 0 => exitcode' = 0
        /\ found = 2 => exitcode' = 1
        /\ found = 4 => exitcode' = 2
    BY <1>2, <1>4 DEF Outcome, ExitCode, PWD_ERROR
  <2> QED BY <1>1, <1>2, <1>4, <2>1, <2>6, <2>7 DEF ImgInv, Outcome, Running
<1> QED BY <1>1, <1>3, <1>4 DEF Exit

LEMMA ImgOfTime ==
  ASSUME ImgInv, PassTime
  PROVE  ImgInv'
<1>1. (Tick \/ SetBack) /\ UNCHANGED <<target, phase, found, error, exitcode>>
      /\ UNCHANGED <<job, len, cur_pwd, given, calls, failed>>
  BY DEF PassTime, ClockTicks, mainVars, imgVars, seenVars
<1>2. UNCHANGED <<pwds, pwds_done, timedOut>>
  BY <1>1 DEF Tick, SetBack, countVars, checkVars
<1>3. TallyInv'
  BY <1>1, <1>2, EnvironmentTypes DEF ImgInv, TallyInv, SumRight, InList
<1> QED BY <1>1, <1>2, <1>3 DEF ImgInv, Running, Outcome

LEMMA ImgInduction == WorkerImgSpec => []ImgInv
<1>1. ImgInv /\ [WorkerImgNext]_workerImgVars => ImgInv'
  <2> SUFFICES ASSUME ImgInv, [WorkerImgNext]_workerImgVars PROVE ImgInv'
    OBVIOUS
  <2>1. CASE Start
    <3>1. /\ phase = "init" /\ phase' = "length" /\ len' = job.start
          /\ UNCHANGED <<timerVars, target, error, exitcode, job, given, calls, failed>>
      BY <2>1, SMTT(30) DEF Start, seenVars
    <3>2. len' \in Nat
      BY <3>1, ImgAssumption DEF ImgInv, TallyInv, ImgAssumption
    <3>3. TallyInv'
      BY <3>1, <3>2, SameTimer, TallyKept DEF ImgInv, TallyInv, InList
    <3> QED BY <3>1, <3>3, ImgGoesOn DEF Running
  <2>2. CASE Abort
    BY <2>2, ImgOfRefusal
  <2>3. CASE AllLengthsDone
    BY <2>3, ImgOfLengths
  <2>4. CASE StartLength
    BY <2>4, ImgOfLength
  <2>5. CASE ReadBlock \/ LeftOver
    BY <2>5, ImgOfReading
  <2>6. CASE CheckString
    BY <2>6, ImgOfCheck
  <2>7. CASE Finish
    BY <2>7, ImgOfFinish
  <2>8. CASE PassTime
    BY <2>8, ImgOfTime
  <2>9. CASE UNCHANGED workerImgVars
    <3>1. /\ UNCHANGED <<timerVars, target, phase, found, error, exitcode>>
          /\ UNCHANGED <<job, len, cur_pwd, given, calls, failed>>
      BY <2>9 DEF workerImgVars, mainVars, imgVars, seenVars
    <3>2. TimerTypeOK' /\ UNCHANGED <<pwds, pwds_done, timedOut>>
      BY <3>1, SameTimer DEF ImgInv, TallyInv
    <3>3. TallyInv'
      BY <3>1, <3>2 DEF ImgInv, TallyInv, SumRight, InList
    <3> QED BY <3>1, <3>2, <3>3 DEF ImgInv, Running, Outcome
  <2> QED BY <2>1, <2>2, <2>3, <2>4, <2>5, <2>6, <2>7, <2>8, <2>9 DEF WorkerImgNext, Work
<1> QED BY <1>1, ImgOfInit, PTL DEF WorkerImgSpec

\* A worker that extracts strings says "in vain" only after all lengths and when the
\* target was none of the strings, "found" only if it was one or dofunction() failed,
\* "timeout" only after a timeout, and counts the strings it gave.
THEOREM ImgCodeTrusted == WorkerImgSpec => []ImgStopCode
<1>1. ImgInv => ImgStopCode
  <2> SUFFICES ASSUME ImgInv PROVE ImgStopCode
    BY SMTT(30)
  <2>1. job.start \in Nat /\ job.end \in Nat /\ len \in Nat
    BY ImgAssumption, ZenonT(60) DEF ImgInv, TallyInv, ImgAssumption
  <2>2. len > job.end => \A l \in Lengths : Done(l)
    BY <2>1 DEF Lengths, Done
  <2>3. phase \notin {"check", "left"} /\ calls < MaxPwds => pwds = calls
    BY DEF ImgInv, TallyInv, SumRight, InList
  <2> QED BY <2>2, <2>3 DEF ImgInv, ImgStopCode
<1> QED BY <1>1, ImgInduction, PTL

-----------------------------------------------------------------------------
(***************************************************************************)
(* The list.  Its first strings are in order whenever there was memory to  *)
(* sort them, and before a block is read there is room for what it gives.  *)
(***************************************************************************)
RoomLeft == Len(pwd_list) + max_merge <= max_list

RoomInv ==
  /\ pwd_list \in Seq(OfLength(len)) /\ Len(pwd_list) <= max_list
  /\ sorted \in 0 .. Len(pwd_list) /\ unsorted \in BOOLEAN
  /\ ~unsorted => Increasing(SubSeq(pwd_list, 1, sorted))
  /\ kept \in Seq(Byte) /\ Len(kept) <= len /\ read_bytes \in Nat
  /\ phase \in {"init", "length"} => pwd_list = << >>
  /\ phase = "init" => kept = << >>
  /\ phase = "read" /\ ~img_eof => RoomLeft
  /\ InList /\ ~unsorted => Increasing(pwd_list)

LEMMA NoStrings ==
  ASSUME NEW n, NEW W
  PROVE  << >> \in Seq(W) /\ Len(<< >>) = 0 /\ Increasing(SubSeq(<< >>, 1, 0)) /\ Increasing(<< >>)
<1>1. SubSeq(<< >>, 1, 0) = << >>
  OBVIOUS
<1>2. Increasing(<< >>)
  BY DEF Increasing
<1>3. << >> \in Seq(W) /\ Len(<< >>) = 0
  OBVIOUS
<1>4. Increasing(SubSeq(<< >>, 1, 0))
  BY <1>1, <1>2, Zenon
<1> QED BY <1>2, <1>3, <1>4

LEMMA SameSizes ==
  ASSUME UNCHANGED <<job, len>>
  PROVE  max_list' = max_list /\ max_merge' = max_merge
BY DEF max_list, max_merge, buffer_size, Combinations, opt

SizesFit == max_merge \in Nat /\ max_list \in Nat /\ max_merge <= max_list

AnyJob == job \in Jobs

LEMMA FitNow == AnyJob => SizesFit
BY ListSizes DEF AnyJob, SizesFit

LEMMA FitNext == (AnyJob => SizesFit)'
BY FitNow, PTL

LEMMA NextSizes ==
  ASSUME job' \in Jobs
  PROVE  max_merge' \in Nat /\ max_list' \in Nat /\ max_merge' <= max_list'
BY FitNext DEF AnyJob, SizesFit

LEMMA RoomStays ==
  ASSUME RoomInv, UNCHANGED <<job, len, fileVars, listVars>>,
         phase' = phase \/ phase' \in {"end", "exited"}
  PROVE  RoomInv'
<1>1. /\ UNCHANGED <<job, len, read_bytes, img_eof, kept, pwd_list, sorted, unsorted>>
      /\ max_list' = max_list /\ max_merge' = max_merge
  BY SameSizes DEF fileVars, listVars
<1>2. InList' => InList
  BY DEF InList
<1>3. phase' \in {"init", "length"} => phase \in {"init", "length"}
  OBVIOUS
<1>4. (phase' = "read" => phase = "read") /\ (phase' = "init" => phase = "init")
  OBVIOUS
<1> QED BY <1>1, <1>2, <1>3, <1>4 DEF RoomInv, RoomLeft

\* With an empty list there is room for any length.
LEMMA RoomOfEmpty ==
  ASSUME job' \in Jobs, len' \in Nat, phase' # "init",
         pwd_list' = << >>, sorted' = 0, unsorted' \in BOOLEAN,
         kept' \in Seq(Byte), Len(kept') <= len', read_bytes' \in Nat
  PROVE  RoomInv'
<1>1. max_merge' \in Nat /\ max_list' \in Nat /\ max_merge' <= max_list'
  BY NextSizes
<1>2. /\ pwd_list' \in Seq(OfLength(len')) /\ Len(pwd_list') = 0
      /\ Increasing(SubSeq(pwd_list', 1, sorted')) /\ Increasing(pwd_list')
  BY NoStrings
<1>3. Len(pwd_list') <= max_list' /\ RoomLeft' /\ sorted' \in 0 .. Len(pwd_list')
  <2>1. sorted' \in 0 .. Len(pwd_list')
    BY <1>2
  <2>2. Len(pwd_list') <= max_list' /\ Len(pwd_list') + max_merge' <= max_list'
    <3> DEFINE z == Len(pwd_list')
               m == max_merge'
               c == max_list'
    <3>1. z = 0 /\ m \in Nat /\ c \in Nat /\ m <= c
      BY <1>1, <1>2
    <3> HIDE DEF z, m, c
    <3>2. z <= c /\ z + m <= c
      BY <3>1
    <3> QED BY <3>2 DEF z, m, c
  <2> QED BY <2>1, <2>2 DEF RoomLeft
<1> QED BY <1>2, <1>3 DEF RoomInv

LEMMA RoomOfInit == WorkerImgInit => RoomInv
<1> SUFFICES ASSUME WorkerImgInit PROVE RoomInv
  OBVIOUS
<1>1. /\ phase = "init" /\ job \in Jobs /\ len = 0 /\ read_bytes = 0 /\ kept = << >>
      /\ pwd_list = << >> /\ sorted = 0 /\ unsorted = FALSE
  BY DEF WorkerImgInit, EndInit
<1>2. max_list \in Nat
  BY <1>1, ListSizes
<1>3. /\ pwd_list \in Seq(OfLength(len)) /\ Len(pwd_list) = 0
      /\ Increasing(SubSeq(pwd_list, 1, sorted)) /\ kept \in Seq(Byte) /\ Len(kept) = 0
  BY <1>1, NoStrings
<1>4. /\ Len(pwd_list) <= max_list /\ sorted \in 0 .. Len(pwd_list) /\ unsorted \in BOOLEAN
      /\ Len(kept) <= len /\ read_bytes \in Nat
  <2> DEFINE z == Len(pwd_list)
             k == Len(kept)
             c == max_list
  <2>1. z = 0 /\ k = 0 /\ c \in Nat
    BY <1>2, <1>3
  <2> HIDE DEF z, k, c
  <2>2. z <= c /\ 0 \in 0 .. z /\ k <= 0
    BY <2>1
  <2>3. sorted = 0 /\ len = 0 /\ unsorted \in BOOLEAN /\ read_bytes \in Nat
    BY <1>1
  <2>4. sorted \in 0 .. z /\ k <= len
    BY <2>2, <2>3
  <2> QED BY <2>2, <2>3, <2>4 DEF z, k, c
<1>5. ~InList /\ phase # "read"
  BY <1>1 DEF InList
<1> QED BY <1>1, <1>3, <1>4, <1>5 DEF RoomInv

-----------------------------------------------------------------------------
\* A block is no longer than the buffer, what is kept of it no longer than a string.
LEMMA ABlock ==
  ASSUME job \in Jobs, len \in Nat, read_bytes \in Nat, kept \in Seq(Byte), Len(kept) <= len
  PROVE  /\ Data \in Seq(Byte) /\ Len(Data) \in Nat /\ Len(Data) <= buffer_size(len)
         /\ Kept \in Seq(Byte) /\ Len(Kept) <= len
         /\ kept \o Data \in Seq(Byte) /\ Len(kept \o Data) - len <= buffer_size(len)
<1> DEFINE b == buffer_size(len)
           img == job.image
           e == Min({read_bytes + b, Len(img)})
           d == SubSeq(img, read_bytes + 1, e)
<1>1. b \in Nat /\ img \in Seq(Byte)
  BY BlockSize, AJob
<1>2. Data = d
  BY DEF Data
<1> HIDE DEF b, img
<1>3. e \in Nat /\ e <= read_bytes + b /\ e <= Len(img)
  <2> DEFINE S == {read_bytes + b, Len(img)}
  <2>1. S \in SUBSET Nat /\ S # {} /\ read_bytes + b \in S /\ Len(img) \in S
    BY <1>1
  <2>2. e = Min(S)
    OBVIOUS
  <2> HIDE DEF S, e
  <2>3. e \in S /\ \A x \in S : e <= x
    BY <2>1, <2>2, MinOf
  <2> QED BY <2>1, <2>3
<1> HIDE DEF e
<1>4. d \in Seq(Byte) /\ Len(d) \in Nat /\ Len(d) <= b
  <2>1. d \in Seq(Byte)
    BY <1>1, <1>3
  <2>2. Len(d) = IF read_bytes + 1 <= e THEN e - read_bytes ELSE 0
    BY <1>1, <1>3
  <2> HIDE DEF d
  <2> QED BY <1>1, <1>3, <2>1, <2>2
<1> HIDE DEF d
<1>5. Kept \in Seq(Byte) /\ Len(Kept) <= len
  <2>1. CASE opt.skip_invalids
    BY <2>1 DEF Kept
  <2>2. CASE ~opt.skip_invalids
    <3> DEFINE m == Min({len, Len(d)})
    <3>1. m \in Nat /\ m <= len /\ m <= Len(d)
      <4> DEFINE S == {len, Len(d)}
      <4>1. S \in SUBSET Nat /\ S # {} /\ len \in S /\ Len(d) \in S
        BY <1>4
      <4>2. m = Min(S)
        OBVIOUS
      <4> HIDE DEF S, m
      <4>3. m \in S /\ \A x \in S : m <= x
        BY <4>1, <4>2, MinOf
      <4> QED BY <4>1, <4>3
    <3>2. Kept = SubSeq(d, 1, m)
      BY <1>2, <2>2 DEF Kept
    <3> HIDE DEF m
    <3>3. SubSeq(d, 1, m) \in Seq(Byte) /\ Len(SubSeq(d, 1, m)) = m
      BY <1>4, <3>1
    <3> QED BY <3>1, <3>2, <3>3
  <2> QED BY <2>1, <2>2
<1>6. kept \o d \in Seq(Byte) /\ Len(kept \o d) = Len(kept) + Len(d) /\ Len(kept) \in Nat
  BY <1>4
<1>7. Len(kept \o d) - len <= b
  BY <1>1, <1>4, <1>6
<1> QED BY <1>2, <1>4, <1>5, <1>6, <1>7 DEF b

\* What a block gives fits into its list.
LEMMA BlockFits ==
  ASSUME job \in Jobs, len \in Nat, RoomInv
  PROVE  /\ Extracted(kept \o Data, len, opt) \in Seq(OfLength(len))
         /\ Len(Extracted(kept \o Data, len, opt)) < max_merge
<1> DEFINE buf == kept \o Data
           b == buffer_size(len)
           e == Extracted(buf, len, opt)
           c == (b + 1) * Passes(opt) * (Kinds(opt) + 1)
<1>1. GoodOpt(opt) /\ b \in Nat
  BY AJob, BlockSize DEF opt
<1>2. buf \in Seq(Byte) /\ Len(buf) - len <= b
  BY ABlock DEF RoomInv
<1>3. max_merge \in Nat /\ max_merge = c + MARGIN
  BY ListSizes
<1> HIDE DEF buf, b
<1>4. e \in Seq(OfLength(len)) /\ Len(e) < c
  BY <1>1, <1>2, AllPasses
<1>5. c \in Nat
  <2>1. Kinds(opt) \in Nat /\ Passes(opt) \in Nat
    BY <1>1, KindsCounted DEF Passes
  <2> DEFINE p == Passes(opt)
             k == Kinds(opt) + 1
  <2>2. p \in Nat /\ k \in Nat
    BY <2>1
  <2> HIDE DEF p, k
  <2>3. (b + 1) * p \in Nat
    BY <1>1, <2>2
  <2> DEFINE q == (b + 1) * p
  <2> HIDE DEF q
  <2>4. q * k \in Nat
    BY <2>2, <2>3 DEF q
  <2> QED BY <2>4 DEF q, p, k
<1>6. Len(e) \in Nat
  <2> HIDE DEF e
  <2> QED BY <1>4
<1> HIDE DEF e, c
<1>7. Len(e) < max_merge
  BY <1>3, <1>4, <1>5, <1>6, Numbers
<1> QED BY <1>4, <1>7 DEF e, buf

\* A list that is sorted.
LEMMA AfterSort ==
  ASSUME RoomInv, job \in Jobs, len \in Nat, NEW list \in Seq(OfLength(len)), Len(list) <= max_list,
         NEW n \in 0 .. Len(list), SortList(n, list),
         ~unsorted /\ n > 0 => Increasing(SubSeq(list, 1, n))
  PROVE  /\ pwd_list' \in Seq(OfLength(len)) /\ Len(pwd_list') <= max_list
         /\ sorted' \in 0 .. Len(pwd_list') /\ unsorted' \in BOOLEAN
         /\ ~unsorted' => Increasing(pwd_list')
         /\ ~unsorted' => Increasing(SubSeq(pwd_list', 1, sorted'))
<1>1. PICK memory \in Memory :
        pwd_list' = SortAndUnique(list, n, memory) /\ unsorted' = (unsorted \/ memory # Enough)
  BY DEF SortList
<1>2. sorted' = Len(pwd_list')
  BY DEF SortList
<1>3. /\ pwd_list' \in Seq(OfLength(len)) /\ Len(pwd_list') <= Len(list)
      /\ memory.sort /\ memory.merge /\ (n > 0 => Increasing(SubSeq(list, 1, n))) => Increasing(pwd_list')
  BY <1>1, ListSorted
<1>4. Len(pwd_list') \in Nat /\ Len(list) \in Nat /\ max_list \in Nat
  BY <1>3, ListSizes
<1>5. Len(pwd_list') <= max_list /\ sorted' \in 0 .. Len(pwd_list')
  <2> DEFINE z == Len(pwd_list')
             y == Len(list)
             c == max_list
  <2>1. z \in Nat /\ y \in Nat /\ c \in Nat /\ z <= y /\ y <= c /\ sorted' = z
    BY <1>2, <1>3, <1>4
  <2> HIDE DEF z, y, c
  <2>2. z <= c /\ sorted' \in 0 .. z
    BY <2>1
  <2> QED BY <2>2 DEF z, c
<1>6. unsorted \in BOOLEAN
  BY DEF RoomInv
<1>7. ~unsorted' => Increasing(pwd_list')
  <2> SUFFICES ASSUME ~unsorted' PROVE Increasing(pwd_list')
    OBVIOUS
  <2>1. ~unsorted /\ memory = Enough
    BY <1>1
  <2>2. memory.sort /\ memory.merge
    BY <2>1 DEF Enough
  <2>3. n > 0 => Increasing(SubSeq(list, 1, n))
    BY <2>1
  <2> QED BY <1>3, <2>2, <2>3
<1>8. SubSeq(pwd_list', 1, sorted') = pwd_list'
  <2> DEFINE s == pwd_list'
  <2>1. s \in Seq(OfLength(len))
    BY <1>3
  <2> HIDE DEF s
  <2>2. SubSeq(s, 1, Len(s)) = s
    BY <2>1
  <2> QED BY <1>2, <2>2 DEF s
<1>9. unsorted' \in BOOLEAN
  BY <1>1, <1>6
<1>10. ~unsorted' => Increasing(SubSeq(pwd_list', 1, sorted'))
  BY <1>7, <1>8, Zenon
<1> QED BY <1>3, <1>5, <1>7, <1>9, <1>10

LEMMA LongerList ==
  ASSUME NEW W, NEW a \in Seq(W), NEW b \in Seq(W), NEW n \in 0 .. Len(a)
  PROVE  /\ a \o b \in Seq(W) /\ Len(a \o b) = Len(a) + Len(b) /\ n \in 0 .. Len(a \o b)
         /\ SubSeq(a \o b, 1, n) = SubSeq(a, 1, n)
<1> DEFINE s == a \o b
<1>1. s \in Seq(W) /\ Len(s) = Len(a) + Len(b) /\ \A k \in 1 .. Len(a) : s[k] = a[k]
  OBVIOUS
<1>2. Len(a) \in Nat /\ Len(b) \in Nat /\ n \in Nat /\ n <= Len(a)
  OBVIOUS
<1> HIDE DEF s
<1>3. n \in 0 .. Len(s)
  BY <1>1, <1>2
<1> DEFINE t == SubSeq(s, 1, n)
           u == SubSeq(a, 1, n)
<1>4. t \in Seq(W) /\ Len(t) = n /\ \A k \in 1 .. n : t[k] = s[k]
  BY <1>1, <1>3
<1>5. u \in Seq(W) /\ Len(u) = n /\ \A k \in 1 .. n : u[k] = a[k]
  BY <1>2
<1> HIDE DEF t, u
<1>6. \A k \in 1 .. n : t[k] = u[k]
  BY <1>1, <1>2, <1>4, <1>5
<1>7. t = u
  BY <1>4, <1>5, <1>6
<1> QED BY <1>1, <1>3, <1>7 DEF s, t, u

LEMMA RoomOfReading ==
  ASSUME RoomInv, job \in Jobs, len \in Nat, ReadBlock
  PROVE  RoomInv'
<1> DEFINE new == Extracted(kept \o Data, len, opt)
           list == pwd_list \o new
<1>1. /\ phase = "read" /\ ~img_eof
      /\ read_bytes' = read_bytes + Len(Data) /\ kept' = Kept
      /\ UNCHANGED <<job, len>>
      /\ \/ phase' = "read" /\ new = << >> /\ UNCHANGED <<pwd_list, sorted, unsorted>>
         \/ /\ ~MustSort(Len(list)) /\ phase' = "read" /\ pwd_list' = list
            /\ UNCHANGED <<sorted, unsorted>>
         \/ /\ SortList(sorted, list)
            /\ \/ phase' = "check"
               \/ phase' = "read" /\ ~MustSort(Len(pwd_list'))
  BY DEF ReadBlock, GoTo, Gathered, listVars
<1>2. /\ new \in Seq(OfLength(len)) /\ Len(new) < max_merge
  BY BlockFits
<1>3. /\ pwd_list \in Seq(OfLength(len)) /\ Len(pwd_list) <= max_list /\ sorted \in 0 .. Len(pwd_list)
      /\ unsorted \in BOOLEAN /\ RoomLeft /\ (~unsorted => Increasing(SubSeq(pwd_list, 1, sorted)))
  BY <1>1 DEF RoomInv
<1>4. max_merge \in Nat /\ max_list \in Nat /\ max_list' = max_list /\ max_merge' = max_merge
  BY <1>1, ListSizes, SameSizes
<1>5. kept' \in Seq(Byte) /\ Len(kept') <= len' /\ read_bytes' \in Nat
  <2>1. /\ read_bytes \in Nat /\ kept \in Seq(Byte) /\ Len(kept) <= len
    BY DEF RoomInv
  <2>2. Len(Data) \in Nat /\ Kept \in Seq(Byte) /\ Len(Kept) <= len
    BY <2>1, ABlock
  <2> QED BY <1>1, <2>1, <2>2
<1> HIDE DEF new
<1>6. /\ list \in Seq(OfLength(len)) /\ Len(list) = Len(pwd_list) + Len(new)
      /\ sorted \in 0 .. Len(list) /\ SubSeq(list, 1, sorted) = SubSeq(pwd_list, 1, sorted)
  BY <1>2, <1>3, LongerList
<1>7. Len(new) \in Nat /\ Len(pwd_list) \in Nat
  BY <1>2, <1>3
<1> HIDE DEF list
<1>8. Len(list) <= max_list
  <2>1. Len(pwd_list) + max_merge <= max_list
    BY <1>3 DEF RoomLeft
  <2> QED BY <1>2, <1>4, <1>6, <1>7, <2>1
<1>9. \A s : s \in Nat /\ ~MustSort(s) => s + max_merge <= max_list
  BY <1>4 DEF MustSort
<1>10. CASE phase' = "read" /\ UNCHANGED <<pwd_list, sorted, unsorted>>
  <2>1. RoomLeft'
    BY <1>3, <1>4, <1>10 DEF RoomLeft
  <2>2. ~InList'
    BY <1>10 DEF InList
  <2> QED BY <1>1, <1>3, <1>4, <1>5, <1>10, <2>1, <2>2 DEF RoomInv
<1>11. CASE /\ ~MustSort(Len(list)) /\ phase' = "read" /\ pwd_list' = list
            /\ UNCHANGED <<sorted, unsorted>>
  <2>0. Len(list) \in Nat
    BY <1>6
  <2>1. RoomLeft'
    <3>1. Len(list) + max_merge <= max_list
      BY <1>9, <1>11, <2>0
    <3> QED BY <1>4, <1>11, <3>1 DEF RoomLeft
  <2>2. ~InList'
    BY <1>11 DEF InList
  <2>3. ~unsorted' => Increasing(SubSeq(pwd_list', 1, sorted'))
    BY <1>3, <1>6, <1>11
  <2>4. pwd_list' \in Seq(OfLength(len')) /\ Len(pwd_list') <= max_list' /\ sorted' \in 0 .. Len(pwd_list')
        /\ unsorted' \in BOOLEAN
    BY <1>1, <1>3, <1>4, <1>6, <1>8, <1>11
  <2> QED BY <1>1, <1>5, <1>11, <2>1, <2>2, <2>3, <2>4 DEF RoomInv
<1>12. CASE /\ SortList(sorted, list)
            /\ phase' = "check" \/ (phase' = "read" /\ ~MustSort(Len(pwd_list')))
  <2>1. ~unsorted /\ sorted > 0 => Increasing(SubSeq(list, 1, sorted))
    BY <1>3, <1>6
  <2>2. /\ pwd_list' \in Seq(OfLength(len)) /\ Len(pwd_list') <= max_list
        /\ sorted' \in 0 .. Len(pwd_list') /\ unsorted' \in BOOLEAN
        /\ ~unsorted' => Increasing(pwd_list')
        /\ ~unsorted' => Increasing(SubSeq(pwd_list', 1, sorted'))
    BY <1>6, <1>8, <1>12, <2>1, AfterSort
  <2>3. Len(pwd_list') \in Nat
    BY <2>2
  <2>4. phase' = "read" => RoomLeft'
    <3> SUFFICES ASSUME phase' = "read" PROVE RoomLeft'
      OBVIOUS
    <3>1. ~MustSort(Len(pwd_list'))
      BY <1>12
    <3>2. Len(pwd_list') + max_merge <= max_list
      BY <1>9, <2>3, <3>1
    <3> QED BY <1>4, <3>2 DEF RoomLeft
  <2>5. phase' \notin {"init", "length"}
    BY <1>12
  <2>6. pwd_list' \in Seq(OfLength(len')) /\ Len(pwd_list') <= max_list'
    BY <1>1, <1>4, <2>2
  <2> QED BY <1>5, <2>2, <2>4, <2>5, <2>6 DEF RoomInv
<1> QED BY <1>1, <1>10, <1>11, <1>12

LEMMA RoomOfLeftOver ==
  ASSUME RoomInv, job \in Jobs, len \in Nat, LeftOver
  PROVE  RoomInv'
<1>1. /\ phase = "read" /\ UNCHANGED <<job, fileVars>>
      /\ \/ /\ pwd_list = << >> /\ len' = len + 1 /\ phase' = "length" /\ UNCHANGED listVars
         \/ /\ SortList(0, pwd_list) /\ phase' = "left" /\ UNCHANGED len
  BY DEF LeftOver, NextLength, GoTo
<1>2. /\ pwd_list \in Seq(OfLength(len)) /\ Len(pwd_list) <= max_list /\ sorted \in 0 .. Len(pwd_list)
      /\ unsorted \in BOOLEAN /\ kept \in Seq(Byte) /\ Len(kept) <= len /\ read_bytes \in Nat
  BY DEF RoomInv
<1>3. UNCHANGED <<read_bytes, kept>>
  BY <1>1 DEF fileVars
<1>4. CASE pwd_list = << >> /\ len' = len + 1 /\ phase' = "length" /\ UNCHANGED listVars
  <2>1. UNCHANGED <<pwd_list, sorted, unsorted>>
    BY <1>4 DEF listVars
  <2>2. sorted' = 0
    <3>1. Len(pwd_list) = 0
      BY <1>4
    <3>2. sorted \in 0 .. 0
      BY <1>2, <3>1
    <3> QED BY <2>1, <3>2
  <2>3. len' \in Nat /\ Len(kept') <= len'
    <3>1. Len(kept) \in Nat
      BY <1>2
    <3> QED BY <1>2, <1>3, <1>4, <3>1
  <2>4. phase' # "init" /\ job' \in Jobs
    BY <1>1, <1>4
  <2> QED BY <1>2, <1>3, <1>4, <2>1, <2>2, <2>3, <2>4, RoomOfEmpty
<1>5. CASE SortList(0, pwd_list) /\ phase' = "left" /\ UNCHANGED len
  <2>1. 0 \in 0 .. Len(pwd_list) /\ ~(0 > 0)
    BY <1>2
  <2>2. /\ pwd_list' \in Seq(OfLength(len)) /\ Len(pwd_list') <= max_list
        /\ sorted' \in 0 .. Len(pwd_list') /\ unsorted' \in BOOLEAN
        /\ ~unsorted' => Increasing(pwd_list')
        /\ ~unsorted' => Increasing(SubSeq(pwd_list', 1, sorted'))
    BY <1>2, <1>5, <2>1, AfterSort
  <2>3. max_list' = max_list
    BY <1>1, <1>5, SameSizes
  <2> QED BY <1>2, <1>3, <1>5, <2>2, <2>3 DEF RoomInv
<1> QED BY <1>1, <1>4, <1>5

LEMMA RoomOfCheck ==
  ASSUME RoomInv, job \in Jobs, len \in Nat, CheckString
  PROVE  RoomInv'
<1>1. /\ phase \in {"check", "left"} /\ UNCHANGED <<job, fileVars>>
      /\ \/ phase' = "end" /\ UNCHANGED <<len, listVars>>
         \/ UNCHANGED <<phase, len, listVars>>
         \/ Emptied /\ len' \in {len, len + 1} /\ phase' # "init"
  BY DEF CheckString, Return, NextLength, GoTo
<1>2. CASE (phase' = "end" \/ UNCHANGED phase) /\ UNCHANGED <<len, listVars>>
  BY <1>1, <1>2, RoomStays
<1>3. CASE Emptied /\ len' \in {len, len + 1} /\ phase' # "init"
  <2>1. pwd_list' = << >> /\ sorted' = 0 /\ unsorted' \in BOOLEAN
    BY <1>3 DEF Emptied
  <2>2. kept \in Seq(Byte) /\ Len(kept) <= len /\ read_bytes \in Nat /\ UNCHANGED <<read_bytes, kept>>
    BY <1>1 DEF RoomInv, fileVars
  <2>3. len' \in Nat /\ Len(kept') <= len'
    <3>1. Len(kept) \in Nat
      BY <2>2
    <3> QED BY <1>3, <2>2, <3>1
  <2> QED BY <1>1, <1>3, <2>1, <2>2, <2>3, RoomOfEmpty
<1> QED BY <1>1, <1>2, <1>3

LEMMA RoomOfStart ==
  ASSUME RoomInv, job \in Jobs, len \in Nat, Start \/ StartLength
  PROVE  RoomInv'
<1>1. CASE Start
  <2>1. /\ phase = "init" /\ phase' = "length" /\ len' = job.start
        /\ UNCHANGED <<job, read_bytes, kept, pwd_list, sorted, unsorted>>
    BY <1>1 DEF Start, fileVars, listVars
  <2>2. /\ pwd_list = << >> /\ sorted \in 0 .. Len(pwd_list) /\ unsorted \in BOOLEAN
        /\ kept = << >> /\ read_bytes \in Nat
    BY <2>1 DEF RoomInv
  <2>3. sorted' = 0
    <3>1. sorted \in 0 .. 0
      BY <2>2
    <3> QED BY <2>1, <3>1
  <2>4. len' \in Nat /\ kept' \in Seq(Byte) /\ Len(kept') <= len'
    <3>1. len' \in Nat /\ kept' = << >>
      BY <2>1, <2>2, AJob
    <3> QED BY <3>1
  <2> QED BY <2>1, <2>2, <2>3, <2>4, RoomOfEmpty
<1>2. CASE StartLength
  <2>1. /\ phase = "length" /\ UNCHANGED <<job, len>>
        /\ \/ phase' = "end" /\ UNCHANGED <<fileVars, listVars>>
           \/ /\ phase' = "read" /\ read_bytes' = 0 /\ kept' = << >>
              /\ pwd_list' = << >> /\ sorted' = 0 /\ unsorted' = FALSE
    BY <1>2 DEF StartLength, Return, GoTo
  <2>2. CASE phase' = "end" /\ UNCHANGED <<fileVars, listVars>>
    BY <2>1, <2>2, RoomStays
  <2>3. CASE /\ phase' = "read" /\ read_bytes' = 0 /\ kept' = << >>
             /\ pwd_list' = << >> /\ sorted' = 0 /\ unsorted' = FALSE
    <3>1. kept' \in Seq(Byte) /\ Len(kept') <= len'
      BY <2>1, <2>3
    <3> QED BY <2>1, <2>3, <3>1, RoomOfEmpty
  <2> QED BY <2>1, <2>2, <2>3
<1> QED BY <1>1, <1>2

LEMMA RoomInduction == WorkerImgSpec => []RoomInv
<1>1. ImgInv /\ RoomInv /\ [WorkerImgNext]_workerImgVars => RoomInv'
  <2> SUFFICES ASSUME ImgInv, RoomInv, [WorkerImgNext]_workerImgVars PROVE RoomInv'
    OBVIOUS
  <2>0. job \in Jobs /\ len \in Nat
    BY DEF ImgInv, TallyInv
  <2>1. CASE Start \/ StartLength
    BY <2>0, <2>1, RoomOfStart
  <2>2. CASE Abort
    <3>1. phase' = "exited" /\ UNCHANGED <<job, len, fileVars, listVars>>
      BY <2>2 DEF Abort, GiveUp, imgVars
    <3> QED BY <3>1, RoomStays
  <2>3. CASE AllLengthsDone
    <3>1. phase' = "end" /\ UNCHANGED <<job, len, fileVars, listVars>>
      BY <2>3 DEF AllLengthsDone, Return, imgVars
    <3> QED BY <3>1, RoomStays
  <2>4. CASE ReadBlock
    BY <2>0, <2>4, RoomOfReading
  <2>5. CASE LeftOver
    BY <2>0, <2>5, RoomOfLeftOver
  <2>6. CASE CheckString
    BY <2>0, <2>6, RoomOfCheck
  <2>7. CASE Finish
    <3>1. phase' = "exited" /\ UNCHANGED <<job, len, fileVars, listVars>>
      BY <2>7 DEF Finish, Exit, imgVars
    <3> QED BY <3>1, RoomStays
  <2>8. CASE PassTime
    <3>1. UNCHANGED <<phase, job, len, fileVars, listVars>>
      BY <2>8 DEF PassTime, ClockTicks, mainVars, imgVars
    <3> QED BY <3>1, RoomStays
  <2>9. CASE UNCHANGED workerImgVars
    <3>1. UNCHANGED <<phase, job, len, fileVars, listVars>>
      BY <2>9 DEF workerImgVars, mainVars, imgVars
    <3> QED BY <3>1, RoomStays
  <2> QED BY <2>1, <2>2, <2>3, <2>4, <2>5, <2>6, <2>7, <2>8, <2>9 DEF WorkerImgNext, Work
<1> QED BY <1>1, RoomOfInit, ImgInduction, PTL DEF WorkerImgSpec

\* The strings of a block never need more than the memory of the block's list, nor
\* those gathered more than that of the long list, for every image, every job, every
\* size of the blocks and with or without memory for sorting.
THEOREM MemoryEnough == WorkerImgSpec => []ListFits
<1>1. ImgInv /\ RoomInv => ListFits
  <2> SUFFICES ASSUME ImgInv, RoomInv PROVE ListFits
    OBVIOUS
  <2>1. job \in Jobs /\ len \in Nat
    BY DEF ImgInv, TallyInv
  <2>2. Len(Extracted(kept \o Data, len, opt)) < max_merge
    BY <2>1, BlockFits
  <2> QED BY <2>2 DEF ListFits, RoomInv, RoomLeft
<1> QED BY <1>1, ImgInduction, RoomInduction, PTL

\* Whenever a list is handed to dofunction(), and there was memory to sort it, each
\* string stands before the next one and none stands there twice.
THEOREM GivenInOrder == WorkerImgSpec => []SortedUnique
<1>1. RoomInv => SortedUnique
  <2> SUFFICES ASSUME RoomInv, phase \in {"check", "left"}, ~unsorted,
                      NEW i \in 1 .. Len(pwd_list) - 1
               PROVE  Before(pwd_list[i], pwd_list[i + 1])
    BY DEF SortedUnique
  <2>1. Increasing(pwd_list) /\ pwd_list \in Seq(OfLength(len))
    BY DEF RoomInv, InList
  <2>2. i \in DOMAIN pwd_list /\ i + 1 \in DOMAIN pwd_list /\ i < i + 1
    BY <2>1
  <2> QED BY <2>1, <2>2 DEF Increasing
<1> QED BY <1>1, RoomInduction, PTL

-----------------------------------------------------------------------------
(***************************************************************************)
(* Merging, sorting and weeding keep the strings of a list.                *)
(***************************************************************************)
\* Merging loses no string and makes none up.
LEMMA MergeKeeps ==
  ASSUME NEW n \in Nat, NEW a \in Seq(OfLength(n)), NEW b \in Seq(OfLength(n))
  PROVE  ToSet(Merged(a, b)) = ToSet(a) \cup ToSet(b)
<1> DEFINE W == OfLength(n)
           D == MergePlaces(a, b)
           m == Togo(a, b)
<1>1. PICK f : Merging(a, b, f) /\ Merged(a, b) = f[<<1, 1>>]
  <2>1. PICK g : Merging(a, b, g)
    BY MergeExists
  <2> QED BY <2>1, MergedBy
<1> DEFINE P == {at \in D : /\ f[at] \in Seq(W)
                            /\ ToSet(f[at]) = Onward(a, at[1]) \cup Onward(b, at[2])}
<1>2. m \in [D -> Nat]
  <2>1. m \in [D -> 0 .. Len(a) + Len(b)]
    BY TogoType
  <2> HIDE DEF m, D
  <2> QED BY <2>1
<1>3. ASSUME NEW at \in D, \A x \in D : m[x] < m[at] => x \in P
      PROVE  at \in P
  <2> DEFINE i == at[1]
             j == at[2]
  <2>1. /\ i \in 1 .. Len(a) + 1 /\ j \in 1 .. Len(b) + 1 /\ at = <<i, j>>
        /\ Len(a) \in Nat /\ Len(b) \in Nat
    BY DEF MergePlaces
  <2>2. f[at] = MergeStep(a, b, f, at)
    BY <1>1, <1>3 DEF Merging
  <2>3. CASE i > Len(a)
    <3>1. f[at] = SubSeq(b, j, Len(b))
      BY <2>2, <2>3 DEF MergeStep
    <3>2. i = Len(a) + 1
      BY <2>1, <2>3, OnlyAbove
    <3> HIDE DEF i, j, D, m, W
    <3>3. f[at] \in Seq(W) /\ ToSet(f[at]) = Onward(b, j) /\ Onward(a, i) = {}
      BY <2>1, <3>1, <3>2, Suffix, SetOfSuffix, OneOnward DEF W
    <3> QED BY <3>3, <1>3 DEF i, j
  <2>4. CASE ~(i > Len(a)) /\ j > Len(b)
    <3>1. f[at] = SubSeq(a, i, Len(a))
      BY <2>2, <2>4 DEF MergeStep
    <3>2. j = Len(b) + 1
      BY <2>1, <2>4, OnlyAbove
    <3> HIDE DEF i, j, D, m, W
    <3>3. f[at] \in Seq(W) /\ ToSet(f[at]) = Onward(a, i) /\ Onward(b, j) = {}
      BY <2>1, <3>1, <3>2, Suffix, SetOfSuffix, OneOnward DEF W
    <3> QED BY <3>3, <1>3 DEF i, j
  <2>5. CASE ~(i > Len(a)) /\ ~(j > Len(b))
    <3>1. i \in 1 .. Len(a) /\ j \in 1 .. Len(b) /\ i <= Len(a) /\ j <= Len(b)
      BY <2>1, <2>5
    <3>2. f[at] = IF Before(b[j], a[i]) THEN <<b[j]>> \o f[<<i, j + 1>>] ELSE <<a[i]>> \o f[<<i + 1, j>>]
      BY <2>2, <2>5 DEF MergeStep
    <3> HIDE DEF i, j
    <3>3. /\ <<i, j + 1>> \in D /\ <<i + 1, j>> \in D
          /\ m[<<i, j + 1>>] < m[at] /\ m[<<i + 1, j>>] < m[at]
      BY <2>1, <3>1, TogoType DEF D
    <3>4. <<i, j + 1>> \in P /\ <<i + 1, j>> \in P
      <4> HIDE DEF P, D, m
      <4> QED BY <1>3, <3>3
    <3>5. /\ f[<<i, j + 1>>] \in Seq(W) /\ f[<<i + 1, j>>] \in Seq(W)
          /\ ToSet(f[<<i, j + 1>>]) = Onward(a, i) \cup Onward(b, j + 1)
          /\ ToSet(f[<<i + 1, j>>]) = Onward(a, i + 1) \cup Onward(b, j)
      BY <3>4
    <3>6. a[i] \in W /\ b[j] \in W
      BY <3>1
    <3>7. Onward(a, i) = {a[i]} \cup Onward(a, i + 1) /\ Onward(b, j) = {b[j]} \cup Onward(b, j + 1)
      BY <2>1, <3>1, OneOnward
    <3> HIDE DEF W
    <3>8. f[at] \in Seq(W) /\ ToSet(f[at]) = Onward(a, i) \cup Onward(b, j)
      <4>1. CASE Before(b[j], a[i])
        <5> DEFINE w == b[j]
                   r == f[<<i, j + 1>>]
        <5>0. w \in W /\ r \in Seq(W) /\ f[at] = <<w>> \o r
          BY <3>2, <3>5, <3>6, <4>1
        <5> HIDE DEF w, r
        <5>1. f[at] \in Seq(W) /\ ToSet(f[at]) = {w} \cup ToSet(r)
          BY <5>0, InFront, SetInFront
        <5> USE DEF w, r
        <5> QED BY <3>5, <3>7, <5>1
      <4>2. CASE ~Before(b[j], a[i])
        <5> DEFINE w == a[i]
                   r == f[<<i + 1, j>>]
        <5>0. w \in W /\ r \in Seq(W) /\ f[at] = <<w>> \o r
          BY <3>2, <3>5, <3>6, <4>2
        <5> HIDE DEF w, r
        <5>1. f[at] \in Seq(W) /\ ToSet(f[at]) = {w} \cup ToSet(r)
          BY <5>0, InFront, SetInFront
        <5> USE DEF w, r
        <5> QED BY <3>5, <3>7, <5>1
      <4> QED BY <4>1, <4>2
    <3> HIDE DEF D
    <3> QED BY <1>3, <3>8 DEF i, j
  <2> QED BY <2>3, <2>4, <2>5
<1>4. <<1, 1>> \in D
  BY DEF MergePlaces
<1>5. <<1, 1>> \in P
  <2> HIDE DEF P, D, m
  <2> QED BY <1>2, <1>3, <1>4, AllOf, SMTT(30)
<1>6. Onward(a, 1) = ToSet(a) /\ Onward(b, 1) = ToSet(b)
  BY OneOnward
<1> QED BY <1>1, <1>5, <1>6

LEMMA SortKeeps ==
  ASSUME NEW n \in Nat, NEW list \in Seq(OfLength(n))
  PROVE  ToSet(pwdgen_img_merge_sort(list)) = ToSet(list)
<1> DEFINE D == Parts(list)
           m == Breadth(list)
           W == OfLength(n)
           In(part) == {list[k] : k \in part[1] .. part[2]}
<1>0. CASE list = << >>
  BY <1>0 DEF pwdgen_img_merge_sort
<1>1. CASE list # << >>
  <2>1. PICK f : Sorting(list, f) /\ pwdgen_img_merge_sort(list) = f[<<1, Len(list)>>]
    <3>1. PICK g : Sorting(list, g)
      BY SortExists
    <3> QED BY <1>1, <3>1, SortedBy
  <2> DEFINE P == {part \in D : f[part] \in Seq(W) /\ ToSet(f[part]) = In(part)}
  <2>2. m \in [D -> Nat]
    <3>1. \A part \in D : m[part] \in Nat
      <4>1. \A part \in D : m[part] \in 0 .. Len(list)
        BY Halves
      <4>2. Len(list) \in Nat
        OBVIOUS
      <4> HIDE DEF m, D
      <4> QED BY <4>1, <4>2
    <3>2. m = [part \in D |-> m[part]]
      BY DEF Breadth
    <3> HIDE DEF m, D
    <3> QED BY <3>1, <3>2
  <2>3. ASSUME NEW part \in D, \A x \in D : m[x] < m[part] => x \in P
        PROVE  part \in P
    <3> DEFINE i == part[1]
               j == part[2]
               h == Median(part)
    <3>1. f[part] = SortStep(list, f, part)
      BY <2>1, <2>3 DEF Sorting
    <3>2. /\ i \in 1 .. Len(list) /\ j \in 1 .. Len(list) /\ i <= j
          /\ i # j =>
              /\ h \in Nat /\ i <= h /\ h < j
              /\ <<i, h>> \in D /\ <<h + 1, j>> \in D
              /\ m[<<i, h>>] < m[part]
              /\ m[<<h + 1, j>>] < m[part]
      BY <2>3, Halves
    <3>3. CASE i = j
      <4>1. f[part] = <<list[i]>> /\ list[i] \in W
        BY <3>1, <3>2, <3>3 DEF SortStep
      <4>2. i .. j = {i}
        BY <3>2, <3>3
      <4> HIDE DEF W
      <4>3. f[part] \in Seq(W) /\ ToSet(f[part]) = {list[i]}
        BY <4>1 DEF ToSet
      <4> QED BY <2>3, <4>2, <4>3, SMTT(30)
    <3>4. CASE i # j
      <4> DEFINE a == f[<<i, h>>]
                 b == f[<<h + 1, j>>]
      <4>1. <<i, h>> \in P /\ <<h + 1, j>> \in P
        <5> HIDE DEF P, D, m, h, i, j
        <5> QED BY <2>3, <3>2, <3>4
      <4>2. f[part] = Merged(a, b)
        BY <3>1, <3>4 DEF SortStep
      <4>3. /\ a \in Seq(W) /\ b \in Seq(W)
            /\ ToSet(a) = {list[k] : k \in i .. h} /\ ToSet(b) = {list[k] : k \in h + 1 .. j}
        BY <4>1
      <4> HIDE DEF a, b
      <4>4. Merged(a, b) \in Seq(W) /\ ToSet(Merged(a, b)) = ToSet(a) \cup ToSet(b)
        BY <4>3, MergeSorts, MergeKeeps
      <4>5. i .. j = (i .. h) \cup (h + 1 .. j)
        <5> HIDE DEF i, j, h
        <5> QED BY <3>2, <3>4
      <4> HIDE DEF W, h
      <4>6. ToSet(f[part]) = In(part)
        BY <4>2, <4>3, <4>4, <4>5
      <4> QED BY <2>3, <4>2, <4>4, <4>6
    <3> QED BY <3>3, <3>4
  <2>4. <<1, Len(list)>> \in D
    <3>1. Len(list) \in Nat /\ Len(list) >= 1 /\ DOMAIN list = 1 .. Len(list)
      BY <1>1
    <3> QED BY <3>1 DEF Parts
  <2>5. <<1, Len(list)>> \in P
    <3> HIDE DEF P, D, m
    <3> QED BY <2>2, <2>3, <2>4, AllOf, SMTT(30)
  <2>6. In(<<1, Len(list)>>) = ToSet(list)
    BY DEF ToSet
  <2> QED BY <2>1, <2>5, <2>6
<1> QED BY <1>0, <1>1

LEMMA SetOfAdded ==
  ASSUME NEW W, NEW r \in Seq(W), NEW w \in W
  PROVE  Added(r, w) \in Seq(W) /\ ToSet(Added(r, w)) = ToSet(r) \cup {w}
<1>1. CASE r # << >> /\ Last(r) = w
  <2>1. Len(r) \in DOMAIN r /\ r[Len(r)] = w
    BY <1>1 DEF Last
  <2>2. w \in ToSet(r)
    BY <2>1 DEF ToSet
  <2> QED BY <1>1, <2>2 DEF Added
<1>2. CASE ~(r # << >> /\ Last(r) = w)
  <2> DEFINE b == <<w>>
  <2>1. Added(r, w) = r \o b
    BY <1>2 DEF Added
  <2>2. b \in Seq(W) /\ ToSet(b) = {w}
    BY DEF ToSet
  <2> HIDE DEF b
  <2>3. r \o b \in Seq(W) /\ ToSet(r \o b) = ToSet(r) \cup ToSet(b)
    BY <2>2, SetOfJoined
  <2> QED BY <2>1, <2>2, <2>3
<1> QED BY <1>1, <1>2

LEMMA WeedingKeeps ==
  ASSUME NEW n \in Nat, NEW list \in Seq(OfLength(n))
  PROVE  ToSet(pwdgen_img_remove_doubles_in_place(list)) = ToSet(list)
<1> DEFINE L == Len(list)
           D == SUBSET (1 .. L)
           m == Tops(L)
           W == OfLength(n)
<1>0. L \in Nat /\ DOMAIN list = 1 .. L /\ \A i \in 1 .. L : list[i] \in W
  OBVIOUS
<1>1. PICK g : Weeding(list, g) /\ pwdgen_img_remove_doubles_in_place(list) = g[1 .. L]
  BY <1>0, WeedingBy
<1> DEFINE P == {S \in D : g[S] \in Seq(W) /\ ToSet(g[S]) = {list[k] : k \in S}}
<1>2. m \in [D -> Nat]
  BY <1>0, TopsType
<1>3. ASSUME NEW S \in D, \A x \in D : m[x] < m[S] => x \in P
      PROVE  S \in P
  <2>1. g[S] = IF S = {} THEN << >> ELSE Added(g[S \ {Max(S)}], list[Max(S)])
    BY <1>0, <1>1 DEF Weeding
  <2>2. CASE S = {}
    <3>1. g[S] = << >> /\ {list[k] : k \in S} = {}
      BY <2>1, <2>2
    <3>2. << >> \in Seq(W) /\ ToSet(<< >>) = {}
      BY DEF ToSet
    <3> QED BY <1>3, <3>1, <3>2
  <2>3. CASE S # {}
    <3> DEFINE T == S \ {Max(S)}
    <3>1. Max(S) \in S /\ Max(S) \in 1 .. L /\ T \in D /\ m[T] < m[S]
      <4> HIDE DEF L
      <4> QED BY <1>0, <2>3, WithoutTop
    <3>2. T \in P
      <4> HIDE DEF P, D, m, T
      <4> QED BY <1>3, <3>1
    <3>3. list[Max(S)] \in W
      BY <1>0, <3>1
    <3>4. g[T] \in Seq(W) /\ ToSet(g[T]) = {list[k] : k \in T}
      BY <3>2
    <3>5. g[S] \in Seq(W) /\ ToSet(g[S]) = ToSet(g[T]) \cup {list[Max(S)]}
      <4> DEFINE r == g[T]
                 w == list[Max(S)]
      <4>1. r \in Seq(W) /\ w \in W /\ g[S] = Added(r, w)
        BY <2>1, <2>3, <3>3, <3>4
      <4> HIDE DEF W, r, w
      <4>2. g[S] \in Seq(W) /\ ToSet(g[S]) = ToSet(r) \cup {w}
        BY <4>1, SetOfAdded
      <4> QED BY <4>2 DEF r, w
    <3>6. S = T \cup {Max(S)}
      BY <3>1
    <3> HIDE DEF T, W
    <3>7. ToSet(g[S]) = {list[k] : k \in S}
      BY <3>4, <3>5, <3>6
    <3> QED BY <3>5, <3>7
  <2> QED BY <2>2, <2>3
<1>4. 1 .. L \in P
  <2>1. 1 .. L \in D
    OBVIOUS
  <2> HIDE DEF P, D, m
  <2> QED BY <1>2, <1>3, <2>1, AllOf
<1> QED BY <1>0, <1>1, <1>4 DEF ToSet

LEMMA Halved ==
  ASSUME NEW W, NEW s \in Seq(W), NEW m \in 0 .. Len(s)
  PROVE  SubSeq(s, 1, m) \o SubSeq(s, m + 1, Len(s)) = s
<1> DEFINE a == SubSeq(s, 1, m)
           c == SubSeq(s, m + 1, Len(s))
           t == a \o c
<1>1. /\ a \in Seq(W) /\ Len(a) = m /\ \A k \in 1 .. m : a[k] = s[k]
      /\ Len(s) \in Nat /\ m \in Nat /\ m <= Len(s)
  OBVIOUS
<1>2. c \in Seq(W) /\ Len(c) = Len(s) - m /\ \A k \in 1 .. Len(s) - m : c[k] = s[k + m]
  <2>1. m + 1 \in 1 .. Len(s) + 1
    OBVIOUS
  <2>2. /\ c \in Seq(W) /\ Len(c) = Len(s) - (m + 1) + 1
        /\ \A k \in 1 .. Len(s) - (m + 1) + 1 : c[k] = s[k + (m + 1) - 1]
    BY <2>1, Suffix
  <2> HIDE DEF c
  <2>3. \A k \in Int : k + (m + 1) - 1 = k + m
    OBVIOUS
  <2>4. Len(s) - (m + 1) + 1 = Len(s) - m
    BY <1>1
  <2> QED BY <2>2, <2>3, <2>4
<1> HIDE DEF a, c
<1>3. /\ t \in Seq(W) /\ Len(t) = Len(a) + Len(c)
      /\ \A k \in 1 .. Len(a) : t[k] = a[k]
      /\ \A k \in 1 .. Len(c) : t[Len(a) + k] = c[k]
  BY <1>1, <1>2
<1> HIDE DEF t
<1>4. t \in Seq(W) /\ Len(t) = Len(s)
  BY <1>1, <1>2, <1>3
<1>5. ASSUME NEW k \in 1 .. Len(s) PROVE t[k] = s[k]
  <2>1. CASE k <= m
    BY <1>1, <1>3, <2>1
  <2>2. CASE k > m
    <3>1. k - m \in 1 .. Len(s) - m /\ m + (k - m) = k /\ (k - m) + m = k
      BY <1>1, <2>2
    <3>2. c[k - m] = s[(k - m) + m]
      BY <1>2, <3>1
    <3>3. t[m + (k - m)] = c[k - m]
      BY <1>1, <1>2, <1>3, <3>1
    <3> QED BY <3>1, <3>2, <3>3
  <2> QED BY <1>1, <2>1, <2>2
<1>6. t = s
  BY <1>4, <1>5
<1> QED BY <1>6 DEF a, c, t

\* Whatever memory there is, what is sorted and rid of doubles has the same strings.
LEMMA ListKept ==
  ASSUME NEW n \in Nat, NEW list \in Seq(OfLength(n)), NEW m \in 0 .. Len(list), NEW memory
  PROVE  ToSet(SortAndUnique(list, m, memory)) = ToSet(list)
<1> DEFINE W == OfLength(n)
           Sorted(s) == pwdgen_img_sort(s, memory.sort)
           a == SubSeq(list, 1, m)
           c == SubSeq(list, m + 1, Len(list))
           b == Sorted(c)
           s == IF m > 0 THEN pwdgen_img_merge(a \o b, m, memory.merge) ELSE Sorted(list)
<1>1. SortAndUnique(list, m, memory) = pwdgen_img_remove_doubles_in_place(s)
  BY DEF SortAndUnique
<1>2. \A r \in Seq(W) : Sorted(r) \in Seq(W) /\ Len(Sorted(r)) = Len(r) /\ ToSet(Sorted(r)) = ToSet(r)
  BY SortedOrLeft, SortKeeps DEF pwdgen_img_sort
<1>3. s \in Seq(W) /\ ToSet(s) = ToSet(list)
  <2>1. CASE m > 0
    <3>1. a \in Seq(W) /\ Len(a) = m /\ c \in Seq(W)
      <4>1. m + 1 \in 1 .. Len(list) + 1
        OBVIOUS
      <4> QED BY <4>1, Prefix, Suffix
    <3>2. list = a \o c
      BY Halved
    <3>3. b \in Seq(W) /\ ToSet(b) = ToSet(c)
      BY <1>2, <3>1
    <3> HIDE DEF a, b, c, W
    <3>4. /\ a \o b \in Seq(W) /\ SubSeq(a \o b, 1, m) = a
          /\ SubSeq(a \o b, m + 1, Len(a \o b)) = b
          /\ ToSet(a \o b) = ToSet(list)
      <4>1. TwoParts(W, a, b, a \o b)
        BY <3>1, <3>3, Joined
      <4>2. ToSet(a \o b) = ToSet(a) \cup ToSet(b) /\ ToSet(list) = ToSet(a) \cup ToSet(c)
        BY <3>1, <3>2, <3>3, SetOfJoined
      <4> QED BY <3>1, <3>3, <4>1, <4>2 DEF TwoParts
    <3>5. Merged(a, b) \in Seq(W) /\ ToSet(Merged(a, b)) = ToSet(list)
      <4>1. ToSet(a \o b) = ToSet(a) \cup ToSet(b)
        BY <3>1, <3>3, SetOfJoined
      <4> QED BY <3>1, <3>3, <3>4, <4>1, MergeSorts, MergeKeeps DEF W
    <3>6. s \in {Merged(a, b), a \o b}
      BY <2>1, <3>4 DEF pwdgen_img_merge
    <3> QED BY <3>4, <3>5, <3>6
  <2>2. CASE ~(m > 0)
    BY <1>2, <2>2
  <2> QED BY <2>1, <2>2
<1> HIDE DEF s
<1> QED BY <1>1, <1>3, WeedingKeeps

BlockTo == Min({read_bytes + buffer_size(len), Len(job.image)})

\* After whole blocks the next one ends where the block of each of its bytes ends.
LEMMA NextBlock ==
  ASSUME job \in Jobs, read_bytes \in Nat, read_bytes <= Len(job.image),
         NEW k \in Nat, read_bytes = k * buffer_size(len)
  PROVE  /\ BlockTo \in Nat /\ read_bytes <= BlockTo /\ BlockTo <= Len(job.image)
         /\ BlockTo \in {Len(job.image), read_bytes + buffer_size(len)}
         /\ Data = SubSeq(job.image, read_bytes + 1, BlockTo) /\ Len(Data) = BlockTo - read_bytes
         /\ Len(Data) < buffer_size(len) => BlockTo = Len(job.image)
         /\ Len(Data) >= buffer_size(len) => BlockTo = read_bytes + buffer_size(len)
         /\ \A p \in read_bytes + 1 .. BlockTo : BlockEnd(p, buffer_size(len)) = BlockTo
<1> DEFINE n == buffer_size(len)
           img == job.image
           L == Len(img)
           e == Min({read_bytes + n, L})
           d == SubSeq(img, read_bytes + 1, e)
<1>1. n \in Nat /\ img \in Seq(Byte) /\ L \in Nat /\ L = Len(img)
  BY BlockSize, AJob
<1>2. Data = d /\ BlockTo = e
  BY DEF Data, BlockTo
<1>3. read_bytes = k * n /\ read_bytes \in Nat /\ read_bytes <= L
  OBVIOUS
<1> HIDE DEF n, img, L
<1>4. e \in Nat /\ e <= read_bytes + n /\ e <= L /\ (e = read_bytes + n \/ e = L)
  <2>1. read_bytes + n \in Nat
    BY <1>1
  <2> DEFINE a == read_bytes + n
  <2> HIDE DEF a
  <2>2. e = Min({a, L})
    BY DEF a
  <2>3. Min({a, L}) \in Nat /\ Min({a, L}) <= a /\ Min({a, L}) <= L /\ (Min({a, L}) = a \/ Min({a, L}) = L)
    BY <1>1, <2>1, LesserOf DEF a
  <2> HIDE DEF e
  <2> QED BY <2>2, <2>3 DEF a
<1> HIDE DEF e
<1>5. read_bytes <= e
  BY <1>1, <1>3, <1>4
<1>6. Len(d) = e - read_bytes
  <2>1. e <= Len(img)
    BY <1>1, <1>4
  <2>2. Len(d) = IF read_bytes + 1 <= e THEN e - read_bytes ELSE 0
    BY <1>1, <1>4, <2>1, SMTT(30)
  <2> HIDE DEF d
  <2> QED BY <1>3, <1>4, <1>5, <2>2
<1> HIDE DEF d
<1>7. ASSUME NEW p \in read_bytes + 1 .. e
      PROVE  BlockEnd(p, n) = e
  <2>1. n \in Nat \ {0} /\ p \in read_bytes + 1 .. read_bytes + n
    BY <1>1, <1>3, <1>4, SMTT(30)
  <2>2. ((p - 1) \div n + 1) * n = read_bytes + n
    BY <1>3, <2>1, SameBlock
  <2>3. BlockEnd(p, n) = Min({((p - 1) \div n + 1) * n, L})
    BY DEF BlockEnd, L, img
  <2> QED BY <2>2, <2>3 DEF e
<1>8. /\ Len(d) < n => e = L
      /\ Len(d) >= n => e = read_bytes + n
  BY <1>1, <1>3, <1>4, <1>6, SMTT(30)
<1>9. /\ BlockTo \in Nat /\ read_bytes <= BlockTo /\ BlockTo <= L /\ BlockTo \in {L, read_bytes + n}
      /\ Len(Data) = BlockTo - read_bytes
      /\ Len(Data) < n => BlockTo = L
      /\ Len(Data) >= n => BlockTo = read_bytes + n
  BY <1>2, <1>4, <1>5, <1>6, <1>8
<1>10. Data = SubSeq(img, read_bytes + 1, BlockTo)
  BY <1>2 DEF d
<1>11. \A p \in read_bytes + 1 .. BlockTo : BlockEnd(p, n) = BlockTo
  BY <1>2, <1>7
<1> QED BY <1>9, <1>10, <1>11 DEF n, L, img

LEMMA JobAsIs ==
  ASSUME NEW j \in Jobs
  PROVE  AsIs(j.opt) /\ j.start >= 1 /\ j.start \in Nat /\ j.end \in Nat
<1>1. /\ j.start \in Nat \ {0} /\ j.end \in Nat
      /\ j.opt.utf8 => j.opt.stages = {0} /\ j.opt.mutations = {DICT_ORIGINAL}
  BY ImgAssumption, ZenonT(60) DEF ImgAssumption
<1>2. j.start >= 1
  BY <1>1
<1> QED BY <1>1, <1>2 DEF AsIs

-----------------------------------------------------------------------------
(***************************************************************************)
(* What the worker has when it reads the image.  Of the bytes it has read, *)
(* every string inside a block was given or is in the list.                *)
(***************************************************************************)
Reading == phase \in {"read", "check", "left"}

BlockDue(p, l) == Due(From(p, BlockEnd(p, buffer_size(l))), l, opt)

Genuine(w, l) ==
  IF opt.utf8
    THEN WellFormed(w)
    ELSE \E p \in Positions : \E t \in Due(From(p, Len(job.image)), l, opt) : w \in VariantsMade(t, opt)

FilePlace ==
  /\ read_bytes <= Len(job.image)
  /\ ~img_eof => \E k \in Nat : read_bytes = k * buffer_size(len)
  /\ img_eof => read_bytes = Len(job.image)
  /\ phase = "left" => img_eof
  /\ read_bytes = 0 \/ opt.skip_invalids => kept = << >>

NothingLost ==
  \A p \in 1 .. read_bytes : Inside(p, len) =>
    \A t \in BlockDue(p, len) : Asked(t, opt) \subseteq given \cup ToSet(pwd_list)

AllTrue ==
  OneBlock(len) \/ opt.skip_invalids => \A w \in ToSet(pwd_list) : Genuine(w, len)

GivenBefore ==
  InList => cur_pwd \in 1 .. Len(pwd_list) /\ \A k \in 1 .. cur_pwd - 1 : pwd_list[k] \in given

ReadInv ==
  /\ phase = "length" \/ Reading => len \in Nat \ {0}
  /\ Reading => FilePlace /\ NothingLost /\ AllTrue /\ GivenBefore

\* What a block gives has all that is due in it.
LEMMA BlockComplete ==
  ASSUME job \in Jobs, len \in Nat \ {0}, RoomInv, FilePlace, ~img_eof,
         NEW p \in read_bytes + 1 .. BlockTo, Inside(p, len), NEW t \in BlockDue(p, len)
  PROVE  Asked(t, opt) \subseteq ToSet(Extracted(kept \o Data, len, opt))
<1> DEFINE img == job.image
           n == buffer_size(len)
<1>1. img \in Seq(Byte) /\ GoodOpt(opt) /\ AsIs(opt)
  BY AJob, JobAsIs DEF opt
<1>2. read_bytes \in Nat /\ read_bytes <= Len(img) /\ kept \in Seq(Byte)
  BY DEF RoomInv, FilePlace
<1>3. PICK k \in Nat : read_bytes = k * n
  BY DEF FilePlace
<1>4. /\ BlockTo \in Nat /\ read_bytes <= BlockTo /\ BlockTo <= Len(img)
      /\ Data = SubSeq(img, read_bytes + 1, BlockTo) /\ BlockEnd(p, n) = BlockTo
  BY <1>2, <1>3, NextBlock
<1>5. p + len <= BlockTo
  BY <1>4 DEF Inside
<1>6. p \in read_bytes + 1 .. BlockTo - len
  BY <1>2, <1>4, <1>5
<1>7. t \in Due(SubSeq(img, p, BlockTo), len, opt)
  BY <1>4 DEF BlockDue, From
<1> HIDE DEF img, n
<1>8. \A q \in read_bytes + 1 .. BlockTo - len : \A x \in Due(SubSeq(img, q, BlockTo), len, opt) :
        Asked(x, opt) \subseteq ToSet(Extracted(kept \o SubSeq(img, read_bytes + 1, BlockTo), len, opt))
  BY <1>1, <1>2, <1>4, BlockGives
<1> QED BY <1>4, <1>6, <1>7, <1>8

\* What a block gives is in the image, when the image has one block or bytes are skipped.
LEMMA BlockSound ==
  ASSUME job \in Jobs, len \in Nat \ {0}, RoomInv, FilePlace, ~img_eof, OneBlock(len) \/ opt.skip_invalids,
         NEW w \in ToSet(Extracted(kept \o Data, len, opt))
  PROVE  Genuine(w, len)
<1> DEFINE img == job.image
           n == buffer_size(len)
           L == Len(img)
           buf == kept \o Data
<1>1. img \in Seq(Byte) /\ GoodOpt(opt) /\ AsIs(opt) /\ n \in Nat /\ L \in Nat
  BY AJob, JobAsIs, BlockSize DEF opt
<1>2. read_bytes \in Nat /\ read_bytes <= L /\ kept \in Seq(Byte) /\ Len(kept) <= len
  BY DEF RoomInv, FilePlace
<1>3. PICK k \in Nat : read_bytes = k * n
  BY DEF FilePlace
<1>4. /\ BlockTo \in Nat /\ read_bytes <= BlockTo /\ BlockTo <= L /\ BlockTo \in {L, read_bytes + n}
      /\ Data = SubSeq(img, read_bytes + 1, BlockTo) /\ Len(Data) = BlockTo - read_bytes
  BY <1>2, <1>3, NextBlock
<1>5. Data \in Seq(Byte) /\ buf \in Seq(Byte) /\ Len(buf) = Len(kept) + Len(Data)
      /\ (kept = << >> => buf = Data)
  <2>1. Data \in Seq(Byte)
    BY <1>2, ABlock
  <2>2. \A d \in Seq(Byte) : kept \o d \in Seq(Byte) /\ Len(kept \o d) = Len(kept) + Len(d)
    BY <1>2
  <2>3. \A d \in Seq(Byte) : << >> \o d = d
    OBVIOUS
  <2> QED BY <2>1, <2>2, <2>3
<1>6. w \in ToSet(Extracted(buf, len, opt))
  OBVIOUS
<1>7. (read_bytes = 0 \/ opt.skip_invalids => kept = << >>) /\ (OneBlock(len) <=> L <= n)
  BY DEF FilePlace, OneBlock
<1>8. Genuine(w, len) <=>
        IF opt.utf8 THEN WellFormed(w)
        ELSE \E p \in DOMAIN img : \E t \in Due(SubSeq(img, p, L), len, opt) : w \in VariantsMade(t, opt)
  BY DEF Genuine, From, Positions
<1> HIDE DEF img, n, L, buf
<1>9. CASE opt.utf8
  <2>1. opt.stages = {0} /\ opt.mutations = {DICT_ORIGINAL}
    BY <1>1, <1>9 DEF AsIs
  <2>2. \A x \in ToSet(Extracted(buf, len, opt)) : WellFormed(x)
    BY <1>1, <1>5, <1>9, <2>1, Utf8Given
  <2> QED BY <1>6, <1>8, <1>9, <2>2
<1>10. CASE ~opt.utf8 /\ kept = << >> /\ (BlockTo = L \/ opt.skip_invalids)
  <2>1. w \in ToSet(Extracted(SubSeq(img, read_bytes + 1, BlockTo), len, opt))
    BY <1>4, <1>5, <1>6, <1>10
  <2>2. BlockTo <= Len(img) /\ (BlockTo = Len(img) \/ opt.skip_invalids)
    BY <1>4, <1>10 DEF L
  <2>3. \E p \in DOMAIN img : \E t \in Due(SubSeq(img, p, Len(img)), len, opt) : w \in VariantsMade(t, opt)
    BY <1>1, <1>2, <1>4, <1>10, <2>1, <2>2, BlockTrue
  <2> QED BY <1>8, <1>10, <2>3 DEF L
<1>11. CASE ~opt.utf8 /\ ~opt.skip_invalids /\ read_bytes = 0
  <2>1. L <= n
    BY <1>7, <1>11
  <2>2. BlockTo = L
    BY <1>1, <1>4, <1>11, <2>1
  <2> QED BY <1>7, <1>10, <1>11, <2>2
<1>12. CASE ~opt.utf8 /\ ~opt.skip_invalids /\ read_bytes # 0
  <2>1. L <= n
    BY <1>7, <1>12
  <2>2. read_bytes >= n
    <3>1. k # 0
      BY <1>1, <1>3, <1>12
    <3>2. k = (k - 1) + 1 /\ k - 1 \in Nat
      BY <3>1
    <3>3. (k - 1) * n \in Nat /\ k * n = (k - 1) * n + n
      BY <1>1, <3>2
    <3> DEFINE a == (k - 1) * n
    <3>4. a \in Nat /\ read_bytes = a + n
      BY <1>3, <3>3
    <3> HIDE DEF a
    <3> QED BY <1>1, <3>4
  <2>3. Len(Data) = 0
    BY <1>1, <1>2, <1>4, <2>1, <2>2
  <2>4. Len(buf) <= len
    <3>1. Len(kept) \in Nat
      BY <1>2
    <3> QED BY <1>2, <1>5, <2>3, <3>1
  <2>5. Extracted(buf, len, opt) = << >>
    BY <1>5, <1>12, <2>4, NothingFrom
  <2>6. ToSet(<< >>) = {}
    BY DEF ToSet
  <2> QED BY <1>6, <2>5, <2>6
<1> QED BY <1>7, <1>9, <1>10, <1>11, <1>12

-----------------------------------------------------------------------------
\* The job does not change, and with it what is due.
LEMMA SameJob ==
  ASSUME UNCHANGED job
  PROVE  /\ opt' = opt /\ Positions' = Positions
         /\ \A l : buffer_size(l)' = buffer_size(l) /\ (OneBlock(l)' <=> OneBlock(l))
         /\ \A p, l : (Inside(p, l)' <=> Inside(p, l)) /\ BlockDue(p, l)' = BlockDue(p, l)
         /\ \A w, l : Genuine(w, l)' <=> Genuine(w, l)
<1>1. opt' = opt /\ Positions' = Positions
  BY DEF opt, Positions
<1>2. \A l : buffer_size(l)' = buffer_size(l)
  BY <1>1 DEF buffer_size, Combinations
<1>3. \A l : OneBlock(l)' <=> OneBlock(l)
  BY <1>2 DEF OneBlock
<1>4. \A p, n : BlockEnd(p, n)' = BlockEnd(p, n) /\ From(p, n)' = From(p, n)
  BY DEF BlockEnd, From
<1>5. \A p, l : BlockEnd(p, buffer_size(l))' = BlockEnd(p, buffer_size(l))
  BY <1>2 DEF BlockEnd
<1>6. \A p, l : Inside(p, l)' <=> Inside(p, l)
  BY <1>5 DEF Inside
<1>7. \A p, l : BlockDue(p, l)' = BlockDue(p, l)
  BY <1>1, <1>5 DEF BlockDue, From
<1>8. \A w, l : Genuine(w, l)' <=> Genuine(w, l)
  BY <1>1 DEF Genuine, From
<1> QED BY <1>1, <1>2, <1>3, <1>6, <1>7, <1>8

LEMMA SameReading ==
  ASSUME ReadInv, UNCHANGED <<job, len, fileVars, listVars, cur_pwd, given>>,
         phase' = phase \/ phase' \in {"end", "exited"}
  PROVE  ReadInv'
<1>1. UNCHANGED <<job, len, read_bytes, img_eof, kept, pwd_list, cur_pwd, given>>
  BY DEF fileVars, listVars
<1>2. CASE phase' = phase
  <2>1. FilePlace => FilePlace'
    BY <1>1, <1>2, SameJob DEF FilePlace
  <2>2. NothingLost => NothingLost'
    BY <1>1, SameJob DEF NothingLost
  <2>3. AllTrue => AllTrue'
    BY <1>1, SameJob DEF AllTrue
  <2>4. GivenBefore => GivenBefore'
    BY <1>1, <1>2 DEF GivenBefore, InList
  <2> QED BY <1>1, <1>2, <2>1, <2>2, <2>3, <2>4 DEF ReadInv, Reading
<1>3. CASE phase' \in {"end", "exited"}
  BY <1>3 DEF ReadInv, Reading
<1> QED BY <1>2, <1>3

LEMMA ReadOfStart ==
  ASSUME ReadInv, job \in Jobs, Start \/ StartLength
  PROVE  ReadInv'
<1>1. CASE Start
  <2>1. phase' = "length" /\ len' = job.start
    BY <1>1 DEF Start
  <2> QED BY <2>1, JobAsIs DEF ReadInv, Reading
<1>2. CASE StartLength
  <2>1. /\ phase = "length" /\ UNCHANGED <<job, len, given, cur_pwd>>
        /\ \/ phase' = "end"
           \/ /\ phase' = "read" /\ read_bytes' = 0 /\ img_eof' = FALSE /\ kept' = << >> /\ pwd_list' = << >>
    BY <1>2 DEF StartLength, Return, GoTo, seenVars
  <2>2. CASE phase' = "end"
    BY <2>2 DEF ReadInv, Reading
  <2>3. CASE /\ phase' = "read" /\ read_bytes' = 0 /\ img_eof' = FALSE /\ kept' = << >> /\ pwd_list' = << >>
    <3>1. job.image \in Seq(Byte) /\ buffer_size(len) \in Nat
      BY AJob, BlockSize
    <3>2. FilePlace'
      <4>1. 0 <= Len(job.image) /\ 0 = 0 * buffer_size(len) /\ 0 \in Nat
        BY <3>1
      <4>2. Len(job'.image) = Len(job.image) /\ buffer_size(len)' = buffer_size(len)
        BY <2>1, SameJob
      <4> QED BY <2>3, <4>1, <4>2 DEF FilePlace
    <3>3. NothingLost'
      <4>1. 1 .. read_bytes' = {}
        BY <2>3
      <4> QED BY <4>1 DEF NothingLost
    <3>4. AllTrue'
      <4>1. ToSet(pwd_list') = {}
        BY <2>3 DEF ToSet
      <4> QED BY <4>1 DEF AllTrue
    <3>5. GivenBefore'
      BY <2>3 DEF GivenBefore, InList
    <3>6. len' \in Nat \ {0}
      BY <2>1 DEF ReadInv
    <3> QED BY <3>2, <3>3, <3>4, <3>5, <3>6 DEF ReadInv
  <2> QED BY <2>1, <2>2, <2>3
<1> QED BY <1>1, <1>2

-----------------------------------------------------------------------------
LEMMA PlaceOfReading ==
  ASSUME FilePlace, RoomInv, job \in Jobs, len \in Nat, ~img_eof, UNCHANGED <<job, len>>, phase' # "left",
         read_bytes' = read_bytes + Len(Data), img_eof' = (Len(Data) < buffer_size(len)), kept' = Kept
  PROVE  FilePlace' /\ read_bytes' = BlockTo
<1> DEFINE n == buffer_size(len)
           L == Len(job.image)
           D == Len(Data)
<1>1. read_bytes \in Nat /\ read_bytes <= L /\ kept \in Seq(Byte) /\ Len(kept) <= len
      /\ (read_bytes = 0 \/ opt.skip_invalids => kept = << >>)
  BY DEF RoomInv, FilePlace
<1>2. PICK k \in Nat : read_bytes = k * n
  BY DEF FilePlace
<1>3. /\ BlockTo \in Nat /\ read_bytes <= BlockTo /\ BlockTo <= L /\ D = BlockTo - read_bytes
      /\ D < n => BlockTo = L
      /\ D >= n => BlockTo = read_bytes + n
  BY <1>1, <1>2, NextBlock
<1>4. n \in Nat /\ D \in Nat /\ Data \in Seq(Byte) /\ Kept \in Seq(Byte)
  BY <1>1, ABlock, BlockSize
<1>5. read_bytes' = read_bytes + D /\ (img_eof' <=> D < n) /\ kept' = Kept
  OBVIOUS
<1>6. Len(job'.image) = L /\ buffer_size(len)' = n /\ opt' = opt
  BY SameJob
<1> HIDE DEF n, L, D
<1>7. read_bytes' = BlockTo
  BY <1>1, <1>3, <1>5
<1>8. ~img_eof' => \E i \in Nat : read_bytes' = i * n
  <2> SUFFICES ASSUME ~img_eof' PROVE \E i \in Nat : read_bytes' = i * n
    OBVIOUS
  <2>1. read_bytes' = read_bytes + n
    BY <1>3, <1>4, <1>5, <1>7
  <2>2. (k + 1) * n = k * n + n /\ k + 1 \in Nat
    BY <1>4
  <2> QED BY <1>2, <2>1, <2>2
<1>9. read_bytes' = 0 \/ opt.skip_invalids => kept' = << >>
  <2>1. CASE opt.skip_invalids
    BY <1>1, <1>5, <2>1 DEF Kept
  <2>2. CASE ~opt.skip_invalids /\ read_bytes' = 0
    <3>1. read_bytes = 0 /\ D = 0
      BY <1>1, <1>4, <1>5, <2>2
    <3>2. Min({len, D}) = 0
      <4>1. Min({len, D}) \in Nat /\ Min({len, D}) <= D
        BY <1>4, LesserOf
      <4> DEFINE m == Min({len, D})
      <4>2. m \in Nat /\ m <= D
        BY <4>1
      <4> HIDE DEF m
      <4>3. m = 0
        BY <3>1, <4>2
      <4> QED BY <4>3 DEF m
    <3>3. Kept = SubSeq(Data, 1, 0)
      BY <2>2, <3>2 DEF Kept, D
    <3>4. SubSeq(Data, 1, 0) = << >>
      BY <1>4
    <3> QED BY <1>5, <3>3, <3>4
  <2> QED BY <2>1, <2>2
<1>10. read_bytes' <= L /\ (img_eof' => read_bytes' = L)
  BY <1>3, <1>5, <1>7
<1>11. phase' # "left"
  OBVIOUS
<1>12. FilePlace'
  BY <1>6, <1>8, <1>9, <1>10, <1>11 DEF FilePlace
<1> QED BY <1>7, <1>12

LEMMA SetOfSorted ==
  ASSUME NEW list \in Seq(OfLength(len)), NEW n \in 0 .. Len(list), len \in Nat, SortList(n, list)
  PROVE  ToSet(pwd_list') = ToSet(list)
<1>1. PICK memory \in Memory : pwd_list' = SortAndUnique(list, n, memory)
  BY DEF SortList
<1> QED BY <1>1, ListKept

LEMMA HasFirst ==
  ASSUME NEW W, NEW a \in Seq(W), NEW b \in Seq(W), ToSet(b) = ToSet(a), a # << >>
  PROVE  1 \in 1 .. Len(b)
<1>1. a[1] \in ToSet(a)
  <2>1. 1 \in DOMAIN a
    OBVIOUS
  <2> QED BY <2>1 DEF ToSet
<1>2. DOMAIN b = 1 .. Len(b) /\ Len(b) \in Nat
  OBVIOUS
<1>3. PICK k \in 1 .. Len(b) : b[k] = a[1]
  BY <1>1, <1>2 DEF ToSet
<1> QED BY <1>2, <1>3

LEMMA ReadOfReading ==
  ASSUME ReadInv, RoomInv, job \in Jobs, len \in Nat, ReadBlock
  PROVE  ReadInv' /\ UNCHANGED <<job, len, given>>
<1> DEFINE new == Extracted(kept \o Data, len, opt)
           list == pwd_list \o new
<1>1. /\ phase = "read" /\ ~img_eof
      /\ read_bytes' = read_bytes + Len(Data) /\ img_eof' = (Len(Data) < buffer_size(len)) /\ kept' = Kept
      /\ UNCHANGED <<job, len, given>>
      /\ \/ phase' = "read" /\ new = << >> /\ UNCHANGED pwd_list
         \/ phase' = "read" /\ pwd_list' = list
         \/ /\ SortList(sorted, list) /\ new # << >>
            /\ phase' = "read" \/ (phase' = "check" /\ cur_pwd' = 1)
  BY DEF ReadBlock, GoTo, Gathered, listVars, seenVars
<1>2. len \in Nat \ {0} /\ FilePlace /\ NothingLost /\ AllTrue
  BY <1>1 DEF ReadInv, Reading
<1>3. FilePlace' /\ read_bytes' = BlockTo
  <2>1. phase' # "left"
    BY <1>1
  <2> QED BY <1>1, <1>2, <2>1, PlaceOfReading
<1>4. new \in Seq(OfLength(len))
  BY BlockFits
<1>5. pwd_list \in Seq(OfLength(len)) /\ sorted \in 0 .. Len(pwd_list)
  BY DEF RoomInv
<1>6. \A p \in read_bytes + 1 .. BlockTo : Inside(p, len) =>
        \A t \in BlockDue(p, len) : Asked(t, opt) \subseteq ToSet(new)
  BY <1>1, <1>2, BlockComplete
<1>7. OneBlock(len) \/ opt.skip_invalids => \A w \in ToSet(new) : Genuine(w, len)
  BY <1>1, <1>2, BlockSound
<1> HIDE DEF new
<1>8. /\ list \in Seq(OfLength(len)) /\ sorted \in 0 .. Len(list)
      /\ ToSet(list) = ToSet(pwd_list) \cup ToSet(new)
      /\ (new # << >> => list # << >>)
  <2>1. list \in Seq(OfLength(len)) /\ sorted \in 0 .. Len(list) /\ Len(list) = Len(pwd_list) + Len(new)
    BY <1>4, <1>5, LongerList
  <2>2. ToSet(list) = ToSet(pwd_list) \cup ToSet(new)
    BY <1>4, <1>5, SetOfJoined
  <2>3. new # << >> => Len(new) \in Nat /\ Len(new) > 0 /\ Len(pwd_list) \in Nat
    BY <1>4, <1>5
  <2> HIDE DEF list
  <2>4. Len(list) # 0 => list # << >>
    BY <2>1
  <2> QED BY <2>1, <2>2, <2>3, <2>4
<1>9. ToSet(pwd_list') = ToSet(pwd_list) \cup ToSet(new)
  <2>1. CASE new = << >> /\ UNCHANGED pwd_list
    <3>1. ToSet(new) = {}
      BY <2>1 DEF ToSet
    <3> QED BY <2>1, <3>1
  <2>2. CASE pwd_list' = list
    BY <1>8, <2>2
  <2>3. CASE SortList(sorted, list)
    <3> HIDE DEF list
    <3> QED BY <1>8, <2>3, SetOfSorted
  <2> QED BY <1>1, <2>1, <2>2, <2>3
<1>11. NothingLost'
  <2> SUFFICES ASSUME NEW p \in 1 .. BlockTo, Inside(p, len), NEW t \in BlockDue(p, len)
               PROVE  Asked(t, opt) \subseteq given \cup ToSet(pwd_list')
    BY <1>1, <1>3, SameJob DEF NothingLost
  <2>1. CASE p \in 1 .. read_bytes
    BY <1>2, <1>9, <2>1 DEF NothingLost
  <2>2. CASE p \in read_bytes + 1 .. BlockTo
    BY <1>6, <1>9, <2>2
  <2>3. read_bytes \in Nat
    BY DEF RoomInv
  <2>4. p \in 1 .. read_bytes \/ p \in read_bytes + 1 .. BlockTo
    BY <2>3
  <2> QED BY <2>1, <2>2, <2>4
<1>12. AllTrue'
  BY <1>1, <1>2, <1>7, <1>9, SameJob DEF AllTrue
<1>13. GivenBefore'
  <2>1. CASE phase' = "read"
    BY <2>1 DEF GivenBefore, InList
  <2>2. CASE phase' = "check"
    <3>1. SortList(sorted, list) /\ new # << >> /\ cur_pwd' = 1
      BY <1>1, <2>2
    <3>2. ToSet(pwd_list') = ToSet(list) /\ list # << >>
      BY <1>8, <1>9, <3>1
    <3>3. pwd_list' \in Seq(OfLength(len))
      <4>1. PICK memory \in Memory : pwd_list' = SortAndUnique(list, sorted, memory)
        BY <3>1 DEF SortList
      <4> HIDE DEF list
      <4> QED BY <1>8, <4>1, ListSorted
    <3> HIDE DEF list
    <3>4. 1 \in 1 .. Len(pwd_list')
      BY <1>8, <3>2, <3>3, HasFirst
    <3>5. 1 .. cur_pwd' - 1 = {}
      BY <3>1
    <3> QED BY <3>1, <3>4, <3>5 DEF GivenBefore
  <2> QED BY <1>1, <2>1, <2>2
<1>14. len' \in Nat \ {0}
  BY <1>1, <1>2
<1> QED BY <1>1, <1>3, <1>11, <1>12, <1>13, <1>14 DEF ReadInv

-----------------------------------------------------------------------------
LEMMA ReadOfLeftOver ==
  ASSUME ReadInv, RoomInv, job \in Jobs, len \in Nat, LeftOver
  PROVE  ReadInv'
<1>1. /\ phase = "read" /\ img_eof /\ UNCHANGED <<job, read_bytes, img_eof, kept, given>>
      /\ \/ len' = len + 1 /\ phase' = "length"
         \/ /\ pwd_list # << >> /\ SortList(0, pwd_list) /\ phase' = "left" /\ cur_pwd' = 1 /\ UNCHANGED len
  BY DEF LeftOver, NextLength, GoTo, fileVars, seenVars
<1>2. len \in Nat \ {0} /\ FilePlace /\ NothingLost /\ AllTrue
  BY <1>1 DEF ReadInv, Reading
<1>3. pwd_list \in Seq(OfLength(len)) /\ 0 \in 0 .. Len(pwd_list)
  BY DEF RoomInv
<1>4. CASE len' = len + 1 /\ phase' = "length"
  <2>1. len' \in Nat \ {0}
    BY <1>2, <1>4
  <2> QED BY <1>4, <2>1 DEF ReadInv, Reading
<1>5. CASE /\ pwd_list # << >> /\ SortList(0, pwd_list) /\ phase' = "left" /\ cur_pwd' = 1 /\ UNCHANGED len
  <2>1. ToSet(pwd_list') = ToSet(pwd_list)
    BY <1>3, <1>5, SetOfSorted
  <2>2. pwd_list' \in Seq(OfLength(len))
    <3>1. PICK memory \in Memory : pwd_list' = SortAndUnique(pwd_list, 0, memory)
      BY <1>5 DEF SortList
    <3> QED BY <1>3, <3>1, ListSorted
  <2>3. FilePlace'
    BY <1>1, <1>2, <1>5, SameJob DEF FilePlace
  <2>4. NothingLost'
    BY <1>1, <1>2, <1>5, <2>1, SameJob DEF NothingLost
  <2>5. AllTrue'
    BY <1>1, <1>2, <1>5, <2>1, SameJob DEF AllTrue
  <2>6. 1 \in 1 .. Len(pwd_list')
    BY <1>3, <1>5, <2>1, <2>2, HasFirst
  <2>7. 1 .. cur_pwd' - 1 = {}
    BY <1>5
  <2>8. GivenBefore'
    BY <1>5, <2>6, <2>7 DEF GivenBefore
  <2>9. len' \in Nat \ {0}
    BY <1>2, <1>5
  <2> QED BY <2>3, <2>4, <2>5, <2>8, <2>9 DEF ReadInv
<1> QED BY <1>1, <1>4, <1>5

\* The last string of a list: with it all of them were given.
LEMMA AllOfList ==
  ASSUME NEW W, NEW a \in Seq(W), NEW S, Len(a) \in 1 .. Len(a), \A k \in 1 .. Len(a) - 1 : a[k] \in S
  PROVE  ToSet(a) \subseteq S \cup {a[Len(a)]}
<1> SUFFICES ASSUME NEW w \in ToSet(a) PROVE w \in S \cup {a[Len(a)]}
  OBVIOUS
<1>1. DOMAIN a = 1 .. Len(a) /\ Len(a) \in Nat
  OBVIOUS
<1>2. PICK k \in 1 .. Len(a) : w = a[k]
  BY <1>1 DEF ToSet
<1>3. k = Len(a) \/ k \in 1 .. Len(a) - 1
  <2> DEFINE n == Len(a)
  <2>1. n \in Nat /\ k \in 1 .. n
    BY <1>1
  <2> HIDE DEF n
  <2>2. k = n \/ k \in 1 .. n - 1
    BY <2>1
  <2> QED BY <2>2 DEF n
<1> QED BY <1>2, <1>3

LEMMA ReadOfCheck ==
  ASSUME ReadInv, RoomInv, job \in Jobs, len \in Nat, CheckString
  PROVE  ReadInv'
<1>1. /\ phase \in {"check", "left"} /\ UNCHANGED <<job, read_bytes, img_eof, kept>>
      /\ given' = given \cup {pwd_list[cur_pwd]}
      /\ \/ phase' = "end"
         \/ /\ cur_pwd < Len(pwd_list) /\ cur_pwd' = cur_pwd + 1 /\ UNCHANGED <<phase, len, pwd_list>>
         \/ /\ cur_pwd = Len(pwd_list) /\ pwd_list' = << >>
            /\ IF phase = "left" THEN phase' = "length" /\ len' = len + 1 ELSE phase' = "read" /\ UNCHANGED len
  BY DEF CheckString, dofunction, fileVars, listVars, Return, Emptied, NextLength, GoTo
<1>2. len \in Nat \ {0} /\ FilePlace /\ NothingLost /\ AllTrue /\ GivenBefore
  BY <1>1 DEF ReadInv, Reading
<1>3. /\ cur_pwd \in 1 .. Len(pwd_list) /\ pwd_list \in Seq(OfLength(len))
      /\ \A k \in 1 .. cur_pwd - 1 : pwd_list[k] \in given
  BY <1>1, <1>2 DEF GivenBefore, InList, RoomInv
<1>4. CASE phase' = "end"
  BY <1>4 DEF ReadInv, Reading
<1>5. CASE cur_pwd < Len(pwd_list) /\ cur_pwd' = cur_pwd + 1 /\ UNCHANGED <<phase, len, pwd_list>>
  <2>1. FilePlace'
    BY <1>1, <1>2, <1>5, SameJob DEF FilePlace
  <2>2. NothingLost'
    BY <1>1, <1>2, <1>5, SameJob DEF NothingLost
  <2>3. AllTrue'
    BY <1>1, <1>2, <1>5, SameJob DEF AllTrue
  <2>4. GivenBefore'
    <3>1. cur_pwd' \in 1 .. Len(pwd_list) /\ Len(pwd_list) \in Nat
      BY <1>3, <1>5
    <3>2. \A k \in 1 .. cur_pwd' - 1 : k \in 1 .. cur_pwd - 1 \/ k = cur_pwd
      BY <1>3, <1>5
    <3>3. \A k \in 1 .. cur_pwd' - 1 : pwd_list[k] \in given'
      BY <1>1, <1>3, <3>2
    <3> QED BY <1>5, <3>1, <3>3 DEF GivenBefore
  <2> QED BY <1>2, <1>5, <2>1, <2>2, <2>3, <2>4 DEF ReadInv
<1>6. CASE phase' = "length" /\ len' = len + 1
  <2>1. len' \in Nat \ {0}
    BY <1>2, <1>6
  <2> QED BY <1>6, <2>1 DEF ReadInv, Reading
<1>7. CASE cur_pwd = Len(pwd_list) /\ pwd_list' = << >> /\ phase' = "read" /\ UNCHANGED len
  <2>1. ToSet(pwd_list) \subseteq given'
    BY <1>1, <1>3, <1>7, AllOfList
  <2>2. ToSet(pwd_list') = {}
    BY <1>7 DEF ToSet
  <2>3. FilePlace'
    BY <1>1, <1>2, <1>7, SameJob DEF FilePlace
  <2>4. NothingLost'
    BY <1>1, <1>2, <1>7, <2>1, SameJob DEF NothingLost
  <2>5. AllTrue'
    BY <2>2 DEF AllTrue
  <2>6. GivenBefore'
    BY <1>7 DEF GivenBefore, InList
  <2> QED BY <1>2, <1>7, <2>3, <2>4, <2>5, <2>6 DEF ReadInv
<1> QED BY <1>1, <1>4, <1>5, <1>6, <1>7

-----------------------------------------------------------------------------
(***************************************************************************)
(* What was given: everything of the lengths that are done, and, as far as *)
(* that can be said, nothing that is not there.                            *)
(***************************************************************************)
ExactInv ==
  /\ \A l \in Lengths : Done(l) =>
       \A p \in Positions : Inside(p, l) => \A t \in BlockDue(p, l) : Asked(t, opt) \subseteq given
  /\ \A w \in given : OneBlock(Len(w)) \/ opt.skip_invalids => Genuine(w, Len(w))

LEMMA ExactKept ==
  ASSUME ExactInv, UNCHANGED job, given \subseteq given',
         \A w \in given' : w \notin given => (OneBlock(Len(w)) \/ opt.skip_invalids => Genuine(w, Len(w))),
         \A l \in Lengths : Done(l)' => Done(l) \/
           \A p \in Positions : Inside(p, l) => \A t \in BlockDue(p, l) : Asked(t, opt) \subseteq given'
  PROVE  ExactInv'
<1>1. Lengths' = Lengths
  BY DEF Lengths
<1>2. \A l \in Lengths : Done(l)' =>
        \A p \in Positions : Inside(p, l) => \A t \in BlockDue(p, l) : Asked(t, opt) \subseteq given'
  BY DEF ExactInv
<1>3. \A w \in given' : OneBlock(Len(w)) \/ opt.skip_invalids => Genuine(w, Len(w))
  BY DEF ExactInv
<1> QED BY <1>1, <1>2, <1>3, SameJob DEF ExactInv

LEMMA ExactStays ==
  ASSUME ExactInv, UNCHANGED <<job, len, given>>
  PROVE  ExactInv'
<1>1. \A l : Done(l)' <=> Done(l)
  BY DEF Done
<1> QED BY <1>1, ExactKept

\* The length that is done was the one extracted, and all of the image was read.
LEMMA LengthDone ==
  ASSUME ReadInv, job \in Jobs, len \in Nat, Reading, img_eof, given \cup ToSet(pwd_list) \subseteq given',
         len' = len + 1, NEW l \in Lengths, Done(l)'
  PROVE  Done(l) \/
           \A p \in Positions : Inside(p, l) => \A t \in BlockDue(p, l) : Asked(t, opt) \subseteq given'
<1>1. l \in Int /\ (l < len \/ l = len)
  <2>1. job.start \in Nat /\ job.end \in Nat
    BY JobAsIs
  <2> QED BY <2>1 DEF Lengths, Done
<1>2. CASE l < len
  BY <1>2 DEF Done
<1>3. CASE l = len
  <2>1. Positions = 1 .. read_bytes
    <3>1. job.image \in Seq(Byte) /\ read_bytes = Len(job.image)
      BY AJob DEF ReadInv, FilePlace
    <3> QED BY <3>1 DEF Positions
  <2> QED BY <1>3, <2>1 DEF ReadInv, NothingLost
<1> QED BY <1>1, <1>2, <1>3

LEMMA ExactOfLeftOver ==
  ASSUME ExactInv, ReadInv, RoomInv, job \in Jobs, len \in Nat, LeftOver
  PROVE  ExactInv'
<1>1. /\ phase = "read" /\ img_eof /\ UNCHANGED <<job, given>>
      /\ len' = len \/ (len' = len + 1 /\ pwd_list = << >>)
  BY DEF LeftOver, NextLength, GoTo, seenVars
<1>2. CASE len' = len
  BY <1>1, <1>2, ExactStays
<1>3. CASE len' = len + 1 /\ pwd_list = << >>
  <2>1. ToSet(pwd_list) = {}
    BY <1>3 DEF ToSet
  <2>2. Reading
    BY <1>1 DEF Reading
  <2>3. \A l \in Lengths : Done(l)' => Done(l) \/
          \A p \in Positions : Inside(p, l) => \A t \in BlockDue(p, l) : Asked(t, opt) \subseteq given'
    BY <1>1, <1>3, <2>1, <2>2, LengthDone
  <2> QED BY <1>1, <2>3, ExactKept
<1> QED BY <1>1, <1>2, <1>3

LEMMA ExactOfCheck ==
  ASSUME ExactInv, ReadInv, RoomInv, job \in Jobs, len \in Nat, CheckString
  PROVE  ExactInv'
<1> DEFINE w == pwd_list[cur_pwd]
<1>1. /\ phase \in {"check", "left"} /\ UNCHANGED job /\ given' = given \cup {w}
      /\ \/ UNCHANGED len
         \/ len' = len + 1 /\ phase = "left" /\ cur_pwd = Len(pwd_list)
  BY DEF CheckString, dofunction, NextLength, GoTo
<1>2. Reading
  BY <1>1 DEF Reading
<1>3. /\ cur_pwd \in 1 .. Len(pwd_list) /\ pwd_list \in Seq(OfLength(len))
      /\ \A k \in 1 .. cur_pwd - 1 : pwd_list[k] \in given
      /\ phase = "left" => img_eof
      /\ AllTrue
  BY <1>1, <1>2 DEF ReadInv, FilePlace, GivenBefore, InList, RoomInv
<1>4. w \in OfLength(len) /\ w \in ToSet(pwd_list)
  <2>1. DOMAIN pwd_list = 1 .. Len(pwd_list)
    BY <1>3
  <2> QED BY <1>3, <2>1 DEF ToSet
<1> HIDE DEF w
<1>5. Len(w) = len
  BY <1>4, LengthOf
<1>6. OneBlock(Len(w)) \/ opt.skip_invalids => Genuine(w, Len(w))
  BY <1>3, <1>4, <1>5 DEF AllTrue
<1>7. CASE UNCHANGED len
  <2>1. \A l : Done(l)' <=> Done(l)
    BY <1>7 DEF Done
  <2> QED BY <1>1, <1>6, <2>1, ExactKept
<1>8. CASE len' = len + 1 /\ phase = "left" /\ cur_pwd = Len(pwd_list)
  <2>1. ToSet(pwd_list) \subseteq given'
    BY <1>1, <1>3, <1>8, AllOfList DEF w
  <2>2. \A l \in Lengths : Done(l)' => Done(l) \/
          \A p \in Positions : Inside(p, l) => \A t \in BlockDue(p, l) : Asked(t, opt) \subseteq given'
    BY <1>1, <1>2, <1>3, <1>8, <2>1, LengthDone
  <2> QED BY <1>1, <1>6, <2>2, ExactKept
<1> QED BY <1>1, <1>7, <1>8

LEMMA ExactOfInit == WorkerImgInit => ExactInv /\ ReadInv
<1> SUFFICES ASSUME WorkerImgInit PROVE ExactInv /\ ReadInv
  OBVIOUS
<1>1. phase = "init" /\ job \in Jobs /\ len = 0 /\ given = {}
  BY DEF WorkerImgInit, EndInit
<1>2. ReadInv
  BY <1>1 DEF ReadInv, Reading
<1>3. \A l \in Lengths : ~Done(l)
  <2>1. job.start \in Nat /\ job.end \in Nat
    BY <1>1, JobAsIs
  <2> QED BY <1>1, <2>1 DEF Lengths, Done
<1> QED BY <1>1, <1>2, <1>3 DEF ExactInv

LEMMA ExactInduction == WorkerImgSpec => [](ExactInv /\ ReadInv)
<1>1. /\ ImgInv /\ RoomInv /\ ExactInv /\ ReadInv /\ [WorkerImgNext]_workerImgVars
      => ExactInv' /\ ReadInv'
  <2> SUFFICES ASSUME ImgInv, RoomInv, ExactInv, ReadInv, [WorkerImgNext]_workerImgVars
               PROVE  ExactInv' /\ ReadInv'
    OBVIOUS
  <2>0. job \in Jobs /\ len \in Nat
    BY DEF ImgInv, TallyInv
  <2>1. CASE Start
    <3>1. len' = job.start /\ UNCHANGED <<job, given>>
      BY <2>1 DEF Start, seenVars
    <3>2. \A l \in Lengths : ~Done(l)'
      <4>1. job.start \in Nat /\ job.end \in Nat
        BY <2>0, JobAsIs
      <4> QED BY <3>1, <4>1 DEF Lengths, Done
    <3>3. ExactInv'
      BY <3>1, <3>2, ExactKept
    <3> QED BY <2>0, <2>1, <3>3, ReadOfStart
  <2>2. CASE StartLength
    <3>1. UNCHANGED <<job, len, given>>
      BY <2>2 DEF StartLength, seenVars
    <3> QED BY <2>0, <2>2, <3>1, ExactStays, ReadOfStart
  <2>3. CASE ReadBlock
    BY <2>0, <2>3, ExactStays, ReadOfReading
  <2>4. CASE LeftOver
    BY <2>0, <2>4, ExactOfLeftOver, ReadOfLeftOver
  <2>5. CASE CheckString
    BY <2>0, <2>5, ExactOfCheck, ReadOfCheck
  <2>6. CASE Abort \/ AllLengthsDone \/ Finish \/ PassTime \/ UNCHANGED workerImgVars
    <3>1. /\ UNCHANGED <<job, len, fileVars, listVars, cur_pwd, given>>
          /\ phase' = phase \/ phase' \in {"end", "exited"}
      BY <2>6 DEF Abort, GiveUp, AllLengthsDone, Return, Finish, Exit, PassTime, ClockTicks, mainVars,
                  imgVars, seenVars, workerImgVars
    <3> QED BY <3>1, ExactStays, SameReading
  <2> QED BY <2>1, <2>2, <2>3, <2>4, <2>5, <2>6 DEF WorkerImgNext, Work
<1> QED BY <1>1, ExactOfInit, ImgInduction, RoomInduction, PTL DEF WorkerImgSpec

\* When a length is done, every string of that length inside a block was handed to
\* dofunction(), with all its variants when the job's are complete; and only strings of
\* the image and their variants were, unless bytes of one block were kept in front of
\* the next.  For every image, block size and job, whatever strings and positions the
\* passes jump over, and however often the list was sorted and checked in between.
THEOREM EveryString == WorkerImgSpec => []ImgExact
<1>1. ExactInv /\ ImgInv => ImgExact
  <2> SUFFICES ASSUME ExactInv, ImgInv, NEW l \in Lengths
               PROVE  /\ Done(l) => \A s \in DueInside(l) : Asked(s, opt) \subseteq given
                      /\ OneBlock(l) \/ opt.skip_invalids =>
                           {s \in given : Len(s) = l} \subseteq UNION {VariantsMade(s, opt) : s \in InImage(l)}
    BY DEF ImgExact, Asked
  <2>1. ASSUME Done(l), NEW s \in DueInside(l) PROVE Asked(s, opt) \subseteq given
    <3>1. PICK p \in Positions : Inside(p, l) /\ s \in BlockDue(p, l)
      BY <2>1 DEF DueInside, BlockDue
    <3> QED BY <2>1, <3>1 DEF ExactInv
  <2>2. ASSUME OneBlock(l) \/ opt.skip_invalids, NEW w \in given, Len(w) = l
        PROVE  \E s \in InImage(l) : w \in VariantsMade(s, opt)
    <3>1. Genuine(w, l)
      BY <2>2 DEF ExactInv
    <3>2. CASE opt.utf8
      <4>1. w \in InImage(l)
        BY <2>2, <3>1, <3>2 DEF InImage, Genuine
      <4>2. w \in VariantsMade(w, opt)
        BY DEF VariantsMade, VariantsDue
      <4> QED BY <4>1, <4>2
    <3>3. CASE ~opt.utf8
      <4>1. PICK p \in Positions : \E t \in Due(From(p, Len(job.image)), l, opt) : w \in VariantsMade(t, opt)
        BY <3>1, <3>3 DEF Genuine
      <4> QED BY <3>3, <4>1 DEF InImage
    <3> QED BY <3>2, <3>3
  <2> QED BY <2>1, <2>2
<1> QED BY <1>1, ExactInduction, ImgInduction, PTL
=============================================================================
