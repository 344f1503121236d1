---------------------------- MODULE ExtractProofs ----------------------------
(***************************************************************************)
(* Proofs about the functions that extract strings from a buffer, for      *)
(* every buffer and all options: that a string has one variant for each    *)
(* stage and mutation, how many strings the passes over a buffer give, and *)
(* that these are the strings which ImgMeaning says are due, with their    *)
(* variants, and no others.                                                *)
(*                                                                         *)
(* Each recursive function of the modules is first shown to exist, then    *)
(* what it gives is shown by taking the least argument for which it would  *)
(* not.                                                                    *)
(***************************************************************************)
EXTENDS ImgMeaning, TimerProofs

(***************************************************************************)
(* Strings of one length, and parts of a sequence.                         *)
(***************************************************************************)
Byte == 0 .. 255

OfLength(n) == [1 .. n -> Byte]

LEMMA Bytes == Byte \in SUBSET Int /\ Byte \in SUBSET Nat
BY DEF Byte

LEMMA BytesAreNumbers ==
  ASSUME NEW n, NEW a \in OfLength(n)
  PROVE  a \in [1 .. n -> Int]
BY Bytes DEF OfLength

LEMMA InFront ==
  ASSUME NEW W, NEW w \in W, NEW r \in Seq(W)
  PROVE  /\ <<w>> \o r \in Seq(W) /\ Len(<<w>> \o r) = Len(r) + 1
         /\ DOMAIN (<<w>> \o r) = 1 .. Len(r) + 1
         /\ (<<w>> \o r)[1] = w
         /\ \A k \in 2 .. Len(r) + 1 : (<<w>> \o r)[k] = r[k - 1] /\ k - 1 \in DOMAIN r
OBVIOUS

LEMMA Suffix ==
  ASSUME NEW W, NEW a \in Seq(W), NEW i \in 1 .. Len(a) + 1
  PROVE  /\ SubSeq(a, i, Len(a)) \in Seq(W)
         /\ Len(SubSeq(a, i, Len(a))) = Len(a) - i + 1
         /\ \A k \in 1 .. Len(a) - i + 1 : SubSeq(a, i, Len(a))[k] = a[k + i - 1]
OBVIOUS

LEMMA JoinedSequences ==
  ASSUME NEW A, NEW x \in Seq(A), NEW y \in Seq(A)
  PROVE  x \o y \in Seq(A) /\ Len(x \o y) = Len(x) + Len(y)
OBVIOUS

LEMMA Prefix ==
  ASSUME NEW W, NEW list \in Seq(W), NEW m \in 0 .. Len(list)
  PROVE  SubSeq(list, 1, m) \in Seq(W) /\ Len(SubSeq(list, 1, m)) = m
OBVIOUS

-----------------------------------------------------------------------------
(***************************************************************************)
(* Stages and mutations.                                                   *)
(***************************************************************************)
LEMMA LengthOf ==
  ASSUME NEW n \in Nat, NEW w
  PROVE  w \in OfLength(n) <=> w \in Seq(Byte) /\ Len(w) = n
BY DEF OfLength

LEMMA CaseMaps == Upper \in [Byte -> Byte] /\ Lower \in [Byte -> Byte]
BY ImgCasesAssumption, Zenon DEF ImgCasesAssumption, Byte

LEMMA MutatedLength ==
  ASSUME NEW n \in Nat, NEW w \in OfLength(n), NEW m
  PROVE  Mutated(m, w) \in OfLength(n)
<1>1. CASE m = DICT_ORIGINAL
  BY <1>1 DEF Mutated
<1>2. CASE m # DICT_ORIGINAL
  <2>1. Len(w) = n
    BY LengthOf
  <2>2. \A i \in 1 .. n : w[i] \in Byte
    BY DEF OfLength
  <2>3. \A i \in 1 .. n : (IF i \in Uppercased(m, w) THEN Upper[w[i]] ELSE Lower[w[i]]) \in Byte
    BY <2>2, CaseMaps
  <2>4. Mutated(m, w) = [i \in 1 .. n |-> IF i \in Uppercased(m, w) THEN Upper[w[i]] ELSE Lower[w[i]]]
    BY <1>2, <2>1 DEF Mutated
  <2> QED BY <2>3, <2>4 DEF OfLength
<1> QED BY <1>1, <1>2

LEMMA MutateByLength ==
  ASSUME NEW n \in Nat, NEW w \in OfLength(n), NEW mask
  PROVE  MutateBy(mask, w) \in OfLength(n)
BY MutatedLength DEF MutateBy

LEMMA StagedLength ==
  ASSUME NEW n \in Nat, NEW w \in OfLength(n), NEW s
  PROVE  Staged(s, w) \in OfLength(n)
<1>1. Len(w) = n
  BY LengthOf
<1>2. \A i \in 1 .. n : w[(n - i) + 1] \in Byte
  <2>1. \A i \in 1 .. n : (n - i) + 1 \in 1 .. n
    OBVIOUS
  <2> QED BY <2>1 DEF OfLength
<1>3. Reverse(w) \in OfLength(n)
  BY <1>1, <1>2 DEF OfLength, Reverse
<1> QED BY <1>3 DEF Staged

Bits == 0 .. 31

LEMMA BitsDown == Bits \in SUBSET Nat /\ \A x \in Bits, y \in Nat : y <= x => y \in Bits
BY DEF Bits

LEMMA BitsFinite == IsFiniteSet(Bits)
<1>1. Bits \in SUBSET Nat /\ \A s \in Bits : s <= 31
  BY DEF Bits
<1> QED BY <1>1, FS_BoundedSetOfNaturals

LEMMA ShiftMeets ==
  ASSUME NEW todo \in SUBSET Bits, todo # {}, NEW mask \in SUBSET Bits, mask # {},
         \A bit \in mask, m \in todo : bit <= m
  PROVE  /\ Next_mutation(mask, todo) \in SUBSET Bits /\ Next_mutation(mask, todo) # {}
         /\ \E t \in todo : /\ todo \ Next_mutation(mask, todo) = todo \ {t}
                            /\ \A bit \in Next_mutation(mask, todo), m \in todo : bit <= m
<1> DEFINE t == Min(todo)
           N == {n \in Bits : Shifted(mask, n) \intersect todo # {}}
           k == Min(N)
           next == Shifted(mask, k)
<1>0. todo \in SUBSET Nat /\ mask \in SUBSET Nat /\ N \in SUBSET Nat
  BY BitsDown
<1>1. t \in todo /\ \A x \in todo : t <= x
  BY <1>0, MinOf
<1>2. PICK b \in mask : \A x \in mask : x <= b
  <2>1. t \in Nat /\ mask \in SUBSET (0 .. t)
    <3>1. t \in Nat
      BY <1>0, <1>1
    <3> HIDE DEF t
    <3>2. ASSUME NEW x \in mask PROVE x \in 0 .. t
      <4>1. x <= t /\ x \in Nat
        BY <1>0, <1>1
      <4> QED BY <3>1, <4>1
    <3> QED BY <3>1, <3>2
  <2> HIDE DEF t
  <2> QED BY <2>1, MaxOf
<1>3. b \in Nat /\ t \in Nat /\ b <= t /\ t \in Bits
  BY <1>0, <1>1, <1>2
<1> HIDE DEF t
<1>4. t - b \in N
  <2>1. t - b \in Nat /\ t - b <= t
    BY <1>3
  <2>2. t - b \in Bits
    BY <1>3, <2>1, BitsDown
  <2>3. b + (t - b) = t
    BY <1>3
  <2>4. t \in Shifted(mask, t - b)
    BY <1>2, <2>3 DEF Shifted
  <2> QED BY <1>1, <2>2, <2>4
<1>5. k \in N /\ k <= t - b /\ k \in Nat
  <2> HIDE DEF N
  <2> QED BY <1>0, <1>4, MinOf
<1>6. PICK x \in Shifted(mask, k) \intersect todo : TRUE
  BY <1>5
<1>7. PICK c \in mask : x = c + k
  BY <1>6 DEF Shifted
<1> HIDE DEF k, N
<1>8. k = t - b
  <2>1. t <= x /\ c <= b /\ c \in Nat /\ x \in Nat
    BY <1>0, <1>1, <1>2, <1>6, <1>7
  <2> QED BY <1>3, <1>5, <1>7, <2>1
<1>9. \A y \in next : y \in Nat /\ y <= t
  <2> SUFFICES ASSUME NEW d \in mask PROVE d + k \in Nat /\ d + k <= t
    BY DEF Shifted
  <2>1. d \in Nat /\ d <= b
    BY <1>0, <1>2
  <2> QED BY <1>3, <1>8, <2>1
<1>10. t \in next
  <2>1. t = b + k
    BY <1>3, <1>8
  <2> QED BY <1>2, <2>1 DEF Shifted
<1>11. next = Next_mutation(mask, todo)
  BY DEF Next_mutation, Bits, k, N
<1> HIDE DEF next
<1>12. next \in SUBSET Bits
  BY <1>3, <1>9, BitsDown
<1>13. todo \ next = todo \ {t}
  <2>1. \A y \in next \intersect todo : y = t
    BY <1>0, <1>1, <1>3, <1>9
  <2> QED BY <1>10, <2>1
<1>14. \A y \in next, m \in todo : y <= m
  <2> SUFFICES ASSUME NEW y \in next, NEW m \in todo PROVE y <= m
    OBVIOUS
  <2>1. y \in Nat /\ m \in Nat /\ y <= t /\ t <= m
    BY <1>0, <1>1, <1>9
  <2> QED BY <1>3, <2>1
<1> QED BY <1>1, <1>10, <1>11, <1>12, <1>13, <1>14

-----------------------------------------------------------------------------
(***************************************************************************)
(* The mutations of one stage: one string for each.                        *)
(***************************************************************************)
Pending(mutations) ==
  {p \in (SUBSET mutations) \X (SUBSET Bits) : p[2] # {} /\ \A bit \in p[2], m \in p[1] : bit <= m}

StageStep(w, f, p) ==
  IF p[1] = {}
    THEN << >>
    ELSE <<MutateBy(Next_mutation(p[2], p[1]), w)>> \o
         f[<<p[1] \ Next_mutation(p[2], p[1]), Next_mutation(p[2], p[1])>>]

Staging(w, mutations, f) == f = [p \in Pending(mutations) |-> StageStep(w, f, p)]

Many(mutations) == [p \in Pending(mutations) |-> Cardinality(p[1])]

LEMMA StagedBy ==
  ASSUME NEW w, NEW mutations, NEW start, NEW g, Staging(w, mutations, g)
  PROVE  \E f : Staging(w, mutations, f) /\ InOneStage(w, mutations, start) = f[<<mutations, start>>]
<1>1. Staging(w, mutations, CHOOSE f : Staging(w, mutations, f))
  OBVIOUS
<1>2. InOneStage(w, mutations, start) = (CHOOSE f : Staging(w, mutations, f))[<<mutations, start>>]
  BY DEF InOneStage, Staging, Pending, StageStep, Bits
<1> QED BY <1>1, <1>2

LEMMA OnePending ==
  ASSUME NEW mutations \in SUBSET Bits, NEW p \in Pending(mutations)
  PROVE  /\ Many(mutations)[p] = Cardinality(p[1])
         /\ Many(mutations)[p] \in 0 .. Cardinality(mutations)
         /\ p[1] # {} =>
              /\ <<p[1] \ Next_mutation(p[2], p[1]), Next_mutation(p[2], p[1])>> \in Pending(mutations)
              /\ Many(mutations)[<<p[1] \ Next_mutation(p[2], p[1]), Next_mutation(p[2], p[1])>>]
                   = Many(mutations)[p] - 1
<1> DEFINE todo == p[1]
           next == Next_mutation(p[2], p[1])
<1>1. /\ todo \in SUBSET mutations /\ todo \in SUBSET Bits /\ p[2] \in SUBSET Bits /\ p[2] # {}
      /\ \A bit \in p[2], m \in todo : bit <= m
  BY DEF Pending
<1>2. Many(mutations)[p] = Cardinality(todo)
  BY DEF Many
<1>3. IsFiniteSet(mutations) /\ Cardinality(mutations) \in Nat
  <2>1. IsFiniteSet(Bits)
    BY BitsFinite
  <2> QED BY <2>1, FS_Subset, FS_CardinalityType
<1>4. IsFiniteSet(todo) /\ Cardinality(todo) \in Nat /\ Cardinality(todo) <= Cardinality(mutations)
  BY <1>1, <1>3, FS_Subset, FS_CardinalityType
<1>5. ASSUME todo # {}
      PROVE  /\ <<todo \ next, next>> \in Pending(mutations)
             /\ Many(mutations)[<<todo \ next, next>>] = Many(mutations)[p] - 1
  <2>1. /\ next \in SUBSET Bits /\ next # {}
        /\ \E t \in todo : todo \ next = todo \ {t} /\ \A bit \in next, m \in todo : bit <= m
    BY <1>1, <1>5, ShiftMeets
  <2>2. PICK t \in todo : todo \ next = todo \ {t} /\ \A bit \in next, m \in todo : bit <= m
    BY <2>1
  <2> HIDE DEF todo, next
  <2>3. <<todo \ next, next>> \in Pending(mutations)
    BY <1>1, <2>1, <2>2 DEF Pending
  <2>4. Many(mutations)[<<todo \ next, next>>] = Cardinality(todo \ next)
    BY <2>3 DEF Many
  <2>5. Cardinality(todo \ {t}) = Cardinality(todo) - 1
    BY <1>4, FS_RemoveElement
  <2> QED BY <1>2, <2>2, <2>3, <2>4, <2>5
<1>6. Cardinality(todo) \in 0 .. Cardinality(mutations)
  BY <1>3, <1>4
<1> QED BY <1>2, <1>5, <1>6

LEMMA StageExists ==
  ASSUME NEW n \in Nat, NEW w \in OfLength(n), NEW mutations \in SUBSET Bits
  PROVE  \E f : Staging(w, mutations, f)
<1> DEFINE D == Pending(mutations)
           C == Seq(OfLength(n))
           m == Many(mutations)
           k == Cardinality(mutations)
           F == [f \in [D -> C] |-> [p \in D |-> StageStep(w, f, p)]]
           rest(p) == <<p[1] \ Next_mutation(p[2], p[1]), Next_mutation(p[2], p[1])>>
<1>1. C # {} /\ k \in Nat /\ m \in [D -> 0 .. k]
  <2>1. << >> \in C
    OBVIOUS
  <2>2. \A p \in D : m[p] \in 0 .. k
    BY OnePending
  <2>3. m \in [D -> 0 .. k]
    <3>1. m = [p \in D |-> m[p]]
      BY DEF Many
    <3> HIDE DEF m, D, k
    <3> QED BY <2>2, <3>1
  <2>4. k \in Nat
    <3>1. IsFiniteSet(Bits)
      BY BitsFinite
    <3> QED BY <3>1, FS_Subset, FS_CardinalityType
  <2> QED BY <2>1, <2>3, <2>4
<1>2. ASSUME NEW f \in [D -> C], NEW p \in D PROVE StageStep(w, f, p) \in C
  <2>1. CASE p[1] = {}
    BY <2>1 DEF StageStep
  <2>2. CASE p[1] # {}
    <3>1. f[rest(p)] \in C
      BY <2>2, OnePending
    <3>2. MutateBy(Next_mutation(p[2], p[1]), w) \in OfLength(n)
      BY MutateByLength
    <3>3. <<MutateBy(Next_mutation(p[2], p[1]), w)>> \o f[rest(p)] \in C
      BY <3>1, <3>2, InFront
    <3> QED BY <2>2, <3>3 DEF StageStep
  <2> QED BY <2>1, <2>2
<1>3. F \in [[D -> C] -> [D -> C]]
  <2> SUFFICES ASSUME NEW f \in [D -> C] PROVE [p \in D |-> StageStep(w, f, p)] \in [D -> C]
    OBVIOUS
  <2> QED BY <1>2
<1>4. ASSUME NEW f \in [D -> C], NEW g \in [D -> C], NEW p \in D, Agree(D, m, f, g, p)
      PROVE  StageStep(w, f, p) = StageStep(w, g, p)
  <2>1. CASE p[1] = {}
    BY <2>1 DEF StageStep
  <2>2. CASE p[1] # {}
    <3>1. rest(p) \in D /\ m[rest(p)] = m[p] - 1 /\ m[p] \in Int
      <4>1. m[p] \in 0 .. k
        BY OnePending
      <4>2. rest(p) \in D /\ m[rest(p)] = m[p] - 1
        BY <2>2, OnePending
      <4> HIDE DEF rest, m, D, k
      <4> QED BY <1>1, <4>1, <4>2
    <3>2. m[rest(p)] < m[p]
      BY <3>1
    <3>3. f[rest(p)] = g[rest(p)]
      <4> HIDE DEF rest, m, D
      <4> QED BY <1>4, <3>1, <3>2 DEF Agree
    <3> QED BY <3>3 DEF StageStep
  <2> QED BY <2>1, <2>2
<1>5. \A f, g \in [D -> C], x \in D : Agree(D, m, f, g, x) => F[f][x] = F[g][x]
  BY <1>4
<1>6. PICK f \in [D -> C] : f = F[f]
  <2> HIDE DEF F, C, D, m, k
  <2>1. GoesDown(D, C, k, m, F)
    BY <1>1, <1>3, <1>5 DEF GoesDown
  <2> QED BY <2>1, Recursion
<1>7. f = [p \in D |-> StageStep(w, f, p)]
  BY <1>6
<1> QED BY <1>7 DEF Staging

LEMMA OneForEachMutation ==
  ASSUME NEW n \in Nat, NEW w \in OfLength(n), NEW mutations \in SUBSET Bits, NEW start \in SUBSET Bits,
         start # {}, \A bit \in start, m \in mutations : bit <= m
  PROVE  /\ InOneStage(w, mutations, start) \in Seq(OfLength(n))
         /\ Len(InOneStage(w, mutations, start)) = Cardinality(mutations)
<1> DEFINE D == Pending(mutations)
           m == Many(mutations)
           W == OfLength(n)
           rest(p) == <<p[1] \ Next_mutation(p[2], p[1]), Next_mutation(p[2], p[1])>>
<1>1. PICK f : Staging(w, mutations, f) /\ InOneStage(w, mutations, start) = f[<<mutations, start>>]
  <2>1. PICK g : Staging(w, mutations, g)
    BY StageExists
  <2> QED BY <2>1, StagedBy
<1> DEFINE Fine(p) == f[p] \in Seq(W) /\ Len(f[p]) = m[p]
           Bad == {p \in D : ~Fine(p)}
<1>2. m \in [D -> Nat]
  <2>1. \A p \in D : m[p] \in Nat
    <3>1. \A p \in D : m[p] \in 0 .. Cardinality(mutations)
      BY OnePending
    <3> HIDE DEF m, D
    <3> QED BY <3>1
  <2>2. m = [p \in D |-> m[p]]
    BY DEF Many
  <2> HIDE DEF m, D
  <2> QED BY <2>1, <2>2
<1> HIDE DEF m
<1>3. Bad = {}
  <2> SUFFICES ASSUME Bad # {} PROVE FALSE
    OBVIOUS
  <2>1. PICK p \in Bad : \A x \in Bad : m[p] <= m[x]
    <3>1. Bad \in SUBSET D
      OBVIOUS
    <3> HIDE DEF Bad, D
    <3> QED BY <1>2, <3>1, LeastOf
  <2>2. p \in D /\ ~Fine(p)
    BY <2>1
  <2>3. \A x \in D : m[x] < m[p] => Fine(x)
    <3> SUFFICES ASSUME NEW x \in D, m[x] < m[p], ~Fine(x) PROVE FALSE
      OBVIOUS
    <3>1. x \in Bad
      OBVIOUS
    <3>2. m[p] <= m[x] /\ m[p] \in Nat /\ m[x] \in Nat
      BY <1>2, <2>1, <2>2, <3>1
    <3> QED BY <3>2
  <2>4. f[p] = StageStep(w, f, p)
    BY <1>1, <2>2 DEF Staging
  <2>5. CASE p[1] = {}
    <3>1. f[p] = << >>
      BY <2>4, <2>5 DEF StageStep
    <3>2. m[p] = 0
      <4>1. m[p] = Cardinality(p[1])
        BY <2>2, OnePending DEF m
      <4> QED BY <2>5, <4>1, FS_EmptySet
    <3> QED BY <2>2, <3>1, <3>2
  <2>6. CASE p[1] # {}
    <3>1. rest(p) \in D /\ m[rest(p)] = m[p] - 1 /\ m[p] \in Nat /\ m[rest(p)] \in Nat
      <4>1. rest(p) \in D /\ m[rest(p)] = m[p] - 1
        BY <2>2, <2>6, OnePending DEF m
      <4> HIDE DEF rest, D
      <4> QED BY <1>2, <2>2, <4>1
    <3>2. Fine(rest(p))
      <4> HIDE DEF rest, Fine, D
      <4> QED BY <2>3, <3>1
    <3>3. MutateBy(Next_mutation(p[2], p[1]), w) \in W
      BY MutateByLength
    <3>4. f[p] = <<MutateBy(Next_mutation(p[2], p[1]), w)>> \o f[rest(p)]
      BY <2>4, <2>6 DEF StageStep
    <3> DEFINE v == MutateBy(Next_mutation(p[2], p[1]), w)
               r == f[rest(p)]
    <3>5. r \in Seq(W) /\ Len(r) = m[p] - 1 /\ v \in W /\ f[p] = <<v>> \o r
      BY <3>1, <3>2, <3>3, <3>4
    <3> HIDE DEF v, r, W
    <3>6. f[p] \in Seq(W) /\ Len(f[p]) = Len(r) + 1
      <4>1. r \in Seq(W) /\ v \in W
        BY <3>5
      <4>2. <<v>> \o r \in Seq(W) /\ Len(<<v>> \o r) = Len(r) + 1
        BY <4>1, InFront
      <4> QED BY <3>5, <4>2
    <3>7. Len(f[p]) = m[p]
      BY <3>1, <3>5, <3>6
    <3> QED BY <2>2, <3>6, <3>7
  <2> QED BY <2>5, <2>6
<1>4. <<mutations, start>> \in D
  BY DEF Pending
<1>5. m[<<mutations, start>>] = Cardinality(mutations)
  <2>1. m[<<mutations, start>>] = Cardinality(<<mutations, start>>[1])
    BY <1>4, OnePending DEF m
  <2> QED BY <2>1
<1>6. Fine(<<mutations, start>>)
  BY <1>3, <1>4
<1> QED BY <1>1, <1>5, <1>6

\* What a job may ask for.
GoodOpt(o) ==
  /\ o.stages # {} /\ o.stages \subseteq {0, 1}
  /\ o.mutations # {} /\ o.mutations \in SUBSET Bits /\ \A m \in o.mutations : m <= 10

Kinds(o) == Cardinality(o.stages) * Cardinality(o.mutations)

LEMMA BitsOfNumber ==
  ASSUME NEW k \in Nat, k >= 1, k <= 11
  PROVE  /\ BitsOf(k) \in SUBSET Bits /\ BitsOf(k) # {}
         /\ \A bit \in BitsOf(k) : bit <= k - 1
<1>1. \A b : b \in BitsOf(k) <=> ( \/ (b = 0 /\ k % 2 = 1)
                                  \/ (b = 1 /\ (k \div 2) % 2 = 1)
                                  \/ (b = 2 /\ (k \div 4) % 2 = 1)
                                  \/ (b = 3 /\ (k \div 8) % 2 = 1))
  <2>1. \A b : b \in BitsOf(k) <=> b \in {0, 1, 2, 3} /\ (k \div <<1, 2, 4, 8>>[b + 1]) % 2 = 1
    <3>1. 0 .. 3 = {0, 1, 2, 3}
      OBVIOUS
    <3> QED BY <3>1 DEF BitsOf
  <2>2. k \div 1 = k
    OBVIOUS
  <2>3. /\ <<1, 2, 4, 8>>[0 + 1] = 1 /\ <<1, 2, 4, 8>>[1 + 1] = 2
        /\ <<1, 2, 4, 8>>[2 + 1] = 4 /\ <<1, 2, 4, 8>>[3 + 1] = 8
    OBVIOUS
  <2> QED BY <2>1, <2>2, <2>3
<1>2. \A b \in BitsOf(k) : b \in {0, 1, 2, 3} /\ b <= k - 1
  <2> SUFFICES ASSUME NEW b \in BitsOf(k) PROVE b \in {0, 1, 2, 3} /\ b <= k - 1
    OBVIOUS
  <2>1. CASE b = 0 /\ k % 2 = 1
    BY <2>1
  <2>2. CASE b = 1 /\ (k \div 2) % 2 = 1
    BY <2>2
  <2>3. CASE b = 2 /\ (k \div 4) % 2 = 1
    BY <2>3
  <2>4. CASE b = 3 /\ (k \div 8) % 2 = 1
    BY <2>4
  <2> QED BY <1>1, <2>1, <2>2, <2>3, <2>4
<1>3. k % 2 = 1 \/ (k \div 2) % 2 = 1 \/ (k \div 4) % 2 = 1 \/ (k \div 8) % 2 = 1
  OBVIOUS
<1>4. BitsOf(k) # {}
  BY <1>1, <1>3
<1>5. {0, 1, 2, 3} \in SUBSET Bits
  BY DEF Bits
<1> QED BY <1>2, <1>4, <1>5

LEMMA FirstMask ==
  ASSUME NEW o, GoodOpt(o)
  PROVE  /\ first_mutation(o.mutations) \in SUBSET Bits /\ first_mutation(o.mutations) # {}
         /\ \A bit \in first_mutation(o.mutations), m \in o.mutations : bit <= m
<1> DEFINE t == Min(o.mutations)
<1>1. o.mutations \in SUBSET Nat
  BY BitsDown DEF GoodOpt
<1>2. t \in o.mutations /\ \A m \in o.mutations : t <= m
  BY <1>1, MinOf DEF GoodOpt
<1>3. t \in Nat /\ t <= 10
  BY <1>1, <1>2 DEF GoodOpt
<1>4. first_mutation(o.mutations) = BitsOf(t + 1)
  BY DEF first_mutation
<1> HIDE DEF t
<1>5. /\ BitsOf(t + 1) \in SUBSET Bits /\ BitsOf(t + 1) # {}
      /\ \A bit \in BitsOf(t + 1) : bit <= (t + 1) - 1
  <2>1. t + 1 \in Nat /\ t + 1 >= 1 /\ t + 1 <= 11
    BY <1>3
  <2> QED BY <2>1, BitsOfNumber
<1>6. \A bit \in BitsOf(t + 1), m \in o.mutations : bit <= m
  <2> SUFFICES ASSUME NEW bit \in BitsOf(t + 1), NEW m \in o.mutations PROVE bit <= m
    OBVIOUS
  <2>1. bit \in Nat /\ m \in Nat /\ bit <= (t + 1) - 1 /\ t <= m
    BY <1>1, <1>2, <1>5, BitsDown
  <2> QED BY <1>3, <2>1
<1> QED BY <1>4, <1>5, <1>6

LEMMA KindsCounted ==
  ASSUME NEW o, GoodOpt(o)
  PROVE  /\ Cardinality(o.mutations) \in Nat \ {0} /\ Kinds(o) \in Nat \ {0}
         /\ o.stages \in {{0}, {1}} => Kinds(o) = Cardinality(o.mutations)
         /\ o.stages = {0, 1} => Kinds(o) = 2 * Cardinality(o.mutations)
         /\ o.stages \in {{0}, {1}, {0, 1}}
<1> DEFINE c == Cardinality(o.mutations)
<1>1. c \in Nat \ {0}
  <2>1. IsFiniteSet(o.mutations)
    BY BitsFinite, FS_Subset DEF GoodOpt
  <2> QED BY <2>1, FS_CardinalityType, FS_EmptySet DEF GoodOpt
<1>2. o.stages \in {{0}, {1}, {0, 1}}
  BY DEF GoodOpt
<1>3. Cardinality({0}) = 1 /\ Cardinality({1}) = 1
  BY FS_Singleton
<1>4. Cardinality({0, 1}) = 2
  <2>1. IsFiniteSet({0}) /\ Cardinality({0}) = 1
    BY FS_Singleton
  <2>2. Cardinality({0} \cup {1}) = 2
    BY <2>1, FS_AddElement
  <2>3. {0} \cup {1} = {0, 1}
    OBVIOUS
  <2> QED BY <2>2, <2>3
<1>5. o.stages \in {{0}, {1}} => Kinds(o) = c
  <2>1. o.stages \in {{0}, {1}} => Cardinality(o.stages) = 1
    BY <1>3
  <2> HIDE DEF c
  <2> QED BY <1>1, <2>1 DEF Kinds, c
<1>6. o.stages = {0, 1} => Kinds(o) = 2 * c
  BY <1>1, <1>4 DEF Kinds
<1> HIDE DEF c
<1>7. Kinds(o) \in Nat \ {0}
  BY <1>1, <1>2, <1>5, <1>6
<1> QED BY <1>1, <1>2, <1>5, <1>6, <1>7 DEF c

LEMMA VariantsCount ==
  ASSUME NEW n \in Nat, NEW w \in OfLength(n), NEW o, GoodOpt(o)
  PROVE  Variants(w, o) \in Seq(OfLength(n)) /\ Len(Variants(w, o)) = Kinds(o)
<1> DEFINE W == OfLength(n)
           c == Cardinality(o.mutations)
           Stage(s, start) == InOneStage(Staged(s, w), o.mutations, start)
           first == first_mutation(o.mutations)
<1>1. o.mutations \in SUBSET Bits /\ c \in Nat
  BY KindsCounted DEF GoodOpt
<1>2. {0} \in SUBSET Bits /\ {0} # {} /\ \A bit \in {0}, m \in o.mutations : bit <= m
  <2>1. \A m \in o.mutations : m \in Nat
    BY <1>1, BitsDown
  <2>2. 0 \in Bits
    BY DEF Bits
  <2> QED BY <2>1, <2>2
<1>3. first \in SUBSET Bits /\ first # {} /\ \A bit \in first, m \in o.mutations : bit <= m
  BY FirstMask
<1>4. \A s : Staged(s, w) \in W
  BY StagedLength
<1> HIDE DEF first, W
<1>5. \A s : Stage(s, {0}) \in Seq(W) /\ Len(Stage(s, {0})) = c
  BY <1>1, <1>2, <1>4, OneForEachMutation, SMTT(30) DEF W
<1>6. \A s : Stage(s, first) \in Seq(W) /\ Len(Stage(s, first)) = c
  BY <1>1, <1>3, <1>4, OneForEachMutation DEF W
<1>7. o.stages = {0} => Variants(w, o) = Stage(0, {0})
  BY DEF Variants
<1>8. o.stages = {1} => Variants(w, o) = Stage(1, {0})
  BY DEF Variants
<1>9. o.stages = {0, 1} => Variants(w, o) = Stage(0, {0}) \o Stage(1, first)
  BY DEF Variants, first
<1> HIDE DEF Stage, c
<1>10. CASE o.stages \in {{0}, {1}}
  <2>1. Kinds(o) = c
    BY <1>10, KindsCounted DEF c
  <2> QED BY <1>5, <1>7, <1>8, <1>10, <2>1 DEF W
<1>11. CASE o.stages = {0, 1}
  <2>1. Kinds(o) = 2 * c
    BY <1>11, KindsCounted DEF c
  <2> DEFINE a == Stage(0, {0})
             b == Stage(1, first)
  <2>2. a \in Seq(W) /\ b \in Seq(W) /\ Len(a) = c /\ Len(b) = c
    BY <1>5, <1>6
  <2> HIDE DEF a, b
  <2>3. a \o b \in Seq(W) /\ Len(a \o b) = 2 * c
    BY <1>1, <2>2
  <2> QED BY <1>9, <1>11, <2>1, <2>3 DEF a, b, W
<1> QED BY <1>10, <1>11, KindsCounted

\* A string adds itself and its variants, or nothing.
LEMMA StringAdded ==
  ASSUME NEW n \in Nat, NEW list \in Seq(OfLength(n)), NEW w \in OfLength(n), NEW o, GoodOpt(o)
  PROVE  /\ AddString(list, w, o) \in Seq(OfLength(n))
         /\ Len(AddString(list, w, o)) <= Len(list) + (Kinds(o) + 1)
<1> DEFINE W == OfLength(n)
           v == Variants(w, o)
           k == Kinds(o)
<1>1. v \in Seq(W) /\ Len(v) = k /\ k \in Nat
  BY VariantsCount, KindsCounted
<1>2. AddString(list, w, o) \in {list, list \o <<w>> \o v}
  BY DEF AddString
<1> HIDE DEF W, v, k
<1>3. w \in W /\ list \in Seq(W)
  BY DEF W
<1>4. list \o <<w>> \o v \in Seq(W) /\ Len(list \o <<w>> \o v) = Len(list) + (k + 1)
  <2>1. list \o <<w>> \in Seq(W) /\ Len(list \o <<w>>) = Len(list) + 1
    BY <1>3
  <2> DEFINE a == list \o <<w>>
  <2>2. a \in Seq(W) /\ Len(a) = Len(list) + 1
    BY <2>1
  <2> HIDE DEF a
  <2>3. a \o v \in Seq(W) /\ Len(a \o v) = Len(a) + Len(v)
    BY <1>1, <2>2
  <2>4. Len(a) + Len(v) = Len(list) + (k + 1)
    BY <1>1, <1>3, <2>2
  <2> QED BY <2>3, <2>4 DEF a
<1>5. Len(list) \in Nat
  BY <1>3
<1>6. CASE AddString(list, w, o) = list
  BY <1>1, <1>3, <1>5, <1>6 DEF W, k
<1>7. CASE AddString(list, w, o) = list \o <<w>> \o v
  <2>1. Len(AddString(list, w, o)) = Len(list) + (k + 1)
    BY <1>4, <1>7
  <2> QED BY <1>1, <1>4, <1>5, <1>7, <2>1 DEF W, k
<1> QED BY <1>2, <1>6, <1>7

-----------------------------------------------------------------------------
(***************************************************************************)
(* Extraction at every byte, or at every other one.                        *)
(***************************************************************************)
LEMMA ARun ==
  ASSUME NEW buf, NEW i, NEW n \in Nat, NEW step, NEW o
  PROVE  /\ Run(buf, i, n, step, o) \in 0 .. n
         /\ \A h \in 0 .. Run(buf, i, n, step, o) - 1 : i + h * step <= Len(buf)
<1> DEFINE In(h) == i + h * step <= Len(buf) /\ buf[i + h * step] \in o.valid
           S == {k \in 0 .. n : \A h \in 0 .. k - 1 : In(h)}
<1>1. 0 \in S
  <2> HIDE DEF In
  <2> QED OBVIOUS
<1>2. Run(buf, i, n, step, o) = Max(S)
  BY DEF Run
<1>3. Max(S) \in S
  <2>1. S \in SUBSET (0 .. n) /\ S # {}
    BY <1>1
  <2> HIDE DEF S
  <2> QED BY <2>1, MaxOf
<1>4. Max(S) \in 0 .. n /\ \A h \in 0 .. Max(S) - 1 : In(h)
  <2> HIDE DEF In
  <2> DEFINE t == Max(S)
  <2>1. t \in S
    BY <1>3
  <2> HIDE DEF t
  <2>2. t \in 0 .. n /\ \A h \in 0 .. t - 1 : In(h)
    BY <2>1
  <2> QED BY <2>2 DEF t
<1> HIDE DEF S
<1> QED BY <1>2, <1>4

LEMMA FullRun ==
  ASSUME NEW buf \in Seq(Byte), NEW i \in Nat \ {0}, NEW n \in Nat, NEW step \in {1, 2}, NEW o,
         Run(buf, i, n, step, o) = n
  PROVE  ByteSeq(buf, i, n, step) \in OfLength(n)
<1>1. \A h \in 0 .. n - 1 : i + h * step <= Len(buf)
  BY ARun
<1>2. ASSUME NEW k \in 1 .. n PROVE buf[i + (k - 1) * step] \in Byte
  <2>1. i + (k - 1) * step <= Len(buf)
    BY <1>1
  <2>2. i + (k - 1) * step \in Nat /\ i + (k - 1) * step >= 1
    <3>1. CASE step = 1
      BY <3>1
    <3>2. CASE step = 2
      BY <3>2
    <3> QED BY <3>1, <3>2
  <2> DEFINE p == i + (k - 1) * step
  <2>3. p \in 1 .. Len(buf)
    BY <2>1, <2>2
  <2> HIDE DEF p
  <2>4. buf[p] \in Byte
    BY <2>3
  <2> QED BY <2>4 DEF p
<1> QED BY <1>2 DEF ByteSeq, OfLength

LEMMA Jumped ==
  ASSUME NEW i \in Nat, NEW n \in Nat, NEW run \in 0 .. n, NEW step \in {1, 2}
  PROVE  Jump(i, run, n, step) \in Nat /\ Jump(i, run, n, step) >= i + step
<1>1. CASE step = 1
  BY <1>1 DEF Jump
<1>2. CASE step = 2
  BY <1>2 DEF Jump
<1> QED BY <1>1, <1>2

LEMMA Skipped ==
  ASSUME NEW buf, NEW last \in Nat, NEW i \in Nat \ {0}, i <= last, NEW step \in {1, 2}, NEW o
  PROVE  /\ SkipInvalid(buf, i, last, step, o) \in Nat
         /\ SkipInvalid(buf, i, last, step, o) >= i
         /\ SkipInvalid(buf, i, last, step, o) <= last + step
<1> DEFINE n == (last - i) \div step + 1
           Stop(k) == i + k * step > last \/ buf[i + k * step] \in o.valid
           S == {k \in 0 .. n : Stop(k)}
           t == Min(S)
<1>1. n \in Nat /\ i + n * step > last /\ i + n * step <= last + step
  <2>1. CASE step = 1
    BY <2>1
  <2>2. CASE step = 2
    BY <2>2
  <2> QED BY <2>1, <2>2
<1>2. SkipInvalid(buf, i, last, step, o) = i + step * t
  BY DEF SkipInvalid
<1> HIDE DEF n
<1>3. n \in S
  BY <1>1
<1>4. t \in 0 .. n
  <2>1. S \in SUBSET (0 .. n) /\ S \in SUBSET Nat /\ S # {}
    BY <1>3
  <2> HIDE DEF S
  <2> QED BY <2>1, MinOf
<1> HIDE DEF t
<1>5. t \in Nat /\ t <= n
  BY <1>1, <1>4
<1>6. CASE step = 1
  BY <1>1, <1>2, <1>5, <1>6
<1>7. CASE step = 2
  BY <1>1, <1>2, <1>5, <1>7
<1> QED BY <1>6, <1>7

LEMMA BytesFrom ==
  ASSUME NEW buf \in Seq(Byte), NEW i \in Nat \ {0}, NEW step \in {1, 2}
  PROVE  ByteSeq(buf, i, (Len(buf) - i) \div step + 1, step) \in Seq(Byte)
<1> DEFINE L == Len(buf)
           n == (L - i) \div step + 1
<1>1. L \in Nat /\ n \in Int
  <2>1. CASE step = 1
    BY <2>1
  <2>2. CASE step = 2
    BY <2>2
  <2> QED BY <2>1, <2>2
<1>2. ASSUME NEW k \in 1 .. n PROVE buf[i + (k - 1) * step] \in Byte
  <2> DEFINE p == i + (k - 1) * step
  <2>1. p \in 1 .. L
    <3>1. CASE step = 1
      BY <3>1
    <3>2. CASE step = 2
      BY <3>2
    <3> QED BY <3>1, <3>2
  <2> HIDE DEF p
  <2>2. buf[p] \in Byte
    BY <2>1
  <2> QED BY <2>2 DEF p
<1>3. ByteSeq(buf, i, n, step) = [k \in 1 .. n |-> buf[i + (k - 1) * step]]
  BY DEF ByteSeq
<1> HIDE DEF n, L
<1>4. CASE n \in Nat
  <2>1. [k \in 1 .. n |-> buf[i + (k - 1) * step]] \in [1 .. n -> Byte]
    BY <1>2
  <2>2. ByteSeq(buf, i, n, step) \in [1 .. n -> Byte]
    BY <1>3, <2>1
  <2>3. ByteSeq(buf, i, n, step) \in Seq(Byte)
    BY <1>4, <2>2
  <2> QED BY <2>3 DEF n, L
<1>5. CASE n \notin Nat
  <2>1. 1 .. n = 1 .. 0
    BY <1>1, <1>5
  <2>2. ByteSeq(buf, i, n, step) \in [1 .. 0 -> Byte]
    BY <1>3, <2>1
  <2>3. ByteSeq(buf, i, n, step) \in Seq(Byte)
    BY <2>2
  <2> QED BY <2>3 DEF n, L
<1> QED BY <1>4, <1>5

-----------------------------------------------------------------------------
Picking(valid, s, g) ==
  g = [S \in SUBSET (DOMAIN s) |->
         IF S = {} THEN << >>
         ELSE IF s[Max(S)] \in valid THEN Append(g[S \ {Max(S)}], s[Max(S)]) ELSE g[S \ {Max(S)}]]

LEMMA PickingExists ==
  ASSUME NEW s \in Seq(Byte), NEW valid
  PROVE  \E g : Picking(valid, s, g)
<1> DEFINE n == Len(s)
           C == Seq(Byte)
           One(r, b) == IF b \in valid THEN Append(r, b) ELSE r
           step == [p \in C \X (1 .. n) |-> One(p[1], s[p[2]])]
<1>1. n \in Nat /\ DOMAIN s = 1 .. n /\ << >> \in C
  OBVIOUS
<1>2. ASSUME NEW r \in C, NEW i \in 1 .. n PROVE One(r, s[i]) \in C
  <2>1. s[i] \in Byte
    OBVIOUS
  <2> QED BY <2>1
<1>3. step \in [C \X (1 .. n) -> C] /\ \A r \in C, i \in 1 .. n : step[<<r, i>>] = One(r, s[i])
  <2> HIDE DEF C, n, One
  <2> QED BY <1>2
<1>4. PICK g \in [SUBSET (1 .. n) -> C] : Folding(n, << >>, step, g)
  <2> HIDE DEF C, n, step
  <2> QED BY <1>1, <1>3, FoldExists
<1>5. \A S \in SUBSET (1 .. n) : S # {} =>
        step[<<g[S \ {Max(S)}], Max(S)>>] = One(g[S \ {Max(S)}], s[Max(S)])
  <2> SUFFICES ASSUME NEW S \in SUBSET (1 .. n), S # {}
               PROVE  step[<<g[S \ {Max(S)}], Max(S)>>] = One(g[S \ {Max(S)}], s[Max(S)])
    OBVIOUS
  <2>1. g[S \ {Max(S)}] \in C /\ Max(S) \in 1 .. n
    BY <1>1, WithoutTop
  <2> HIDE DEF C, n, step, One
  <2> QED BY <1>3, <2>1
<1>6. g = [S \in SUBSET (DOMAIN s) |-> IF S = {} THEN << >> ELSE One(g[S \ {Max(S)}], s[Max(S)])]
  <2> HIDE DEF C, n, step, One
  <2> QED BY <1>1, <1>4, <1>5 DEF Folding
<1> QED BY <1>6 DEF Picking

LEMMA ValidBytes ==
  ASSUME NEW buf \in Seq(Byte), NEW i \in Nat \ {0}, NEW step \in {1, 2}, NEW o
  PROVE  ValidFrom(buf, i, step, o) \in Seq(Byte)
<1> DEFINE s == ByteSeq(buf, i, (Len(buf) - i) \div step + 1, step)
           n == Len(s)
           D == SUBSET (1 .. n)
           m == Tops(n)
<1>1. s \in Seq(Byte)
  BY BytesFrom
<1>2. ValidFrom(buf, i, step, o) = (CHOOSE h : Picking(o.valid, s, h))[DOMAIN s]
  <2>1. ValidFrom(buf, i, step, o) = FoldLeft(LAMBDA r, b : IF b \in o.valid THEN Append(r, b) ELSE r, << >>, s)
    BY DEF ValidFrom, OnlyValid
  <2> HIDE DEF s
  <2> QED BY <2>1 DEF FoldLeft, MapThenFoldSet, Picking
<1> HIDE DEF s
<1>3. Picking(o.valid, s, CHOOSE h : Picking(o.valid, s, h))
  BY <1>1, PickingExists
<1>4. PICK g : Picking(o.valid, s, g) /\ ValidFrom(buf, i, step, o) = g[DOMAIN s]
  BY <1>2, <1>3
<1>5. n \in Nat /\ DOMAIN s = 1 .. n /\ \A k \in 1 .. n : s[k] \in Byte
  BY <1>1
<1>6. m \in [D -> Nat]
  BY <1>5, TopsType
<1> DEFINE Bad == {S \in D : g[S] \notin Seq(Byte)}
<1>7. Bad = {}
  <2> SUFFICES ASSUME Bad # {} PROVE FALSE
    OBVIOUS
  <2>1. PICK S \in Bad : \A x \in Bad : m[S] <= m[x]
    <3>1. Bad \in SUBSET D
      OBVIOUS
    <3> HIDE DEF Bad, D, m
    <3> QED BY <1>6, <3>1, LeastOf
  <2>2. S \in D /\ g[S] \notin Seq(Byte)
    BY <2>1
  <2>3. g[S] = IF S = {} THEN << >>
               ELSE IF s[Max(S)] \in o.valid THEN Append(g[S \ {Max(S)}], s[Max(S)]) ELSE g[S \ {Max(S)}]
    BY <1>4, <1>5, <2>2 DEF Picking
  <2>4. CASE S = {}
    BY <2>2, <2>3, <2>4
  <2>5. CASE S # {}
    <3>1. Max(S) \in 1 .. n /\ S \ {Max(S)} \in D /\ m[S \ {Max(S)}] < m[S]
      BY <1>5, <2>2, <2>5, WithoutTop
    <3>2. S \ {Max(S)} \notin Bad
      <4>1. m[S \ {Max(S)}] \in Nat /\ m[S] \in Nat
        BY <1>6, <2>2, <3>1
      <4>2. ~(m[S] <= m[S \ {Max(S)}])
        <5> HIDE DEF m
        <5> QED BY <3>1, <4>1
      <4> QED BY <2>1, <4>2
    <3>3. g[S \ {Max(S)}] \in Seq(Byte)
      BY <3>1, <3>2
    <3>4. s[Max(S)] \in Byte
      BY <1>5, <3>1
    <3> QED BY <2>2, <2>3, <2>5, <3>3, <3>4
  <2> QED BY <2>4, <2>5
<1>8. g[1 .. n] \in Seq(Byte)
  BY <1>7
<1> QED BY <1>4, <1>5, <1>8

-----------------------------------------------------------------------------
(***************************************************************************)
(* A walk through a buffer: from a position and a list to the next         *)
(* position and a longer list, up to the last position.                    *)
(***************************************************************************)
Steps(n) == (Nat \ {0}) \X Seq(OfLength(n))

Walking(n, last, move, f) ==
  f = [s \in Steps(n) |-> IF s[1] > last THEN s[2] ELSE f[move[s]]]

\* A move goes on by step and adds at most k strings.
GoesOn(n, last, step, k, move) ==
  \A s \in Steps(n) : s[1] <= last =>
    /\ move[s] \in Steps(n) /\ move[s][1] >= s[1] + step
    /\ Len(move[s][2]) <= Len(s[2]) + k

Ahead(n, last) == [s \in Steps(n) |-> IF s[1] > last THEN 0 ELSE last + 1 - s[1]]

LEMMA AStep ==
  ASSUME NEW n, NEW s \in Steps(n)
  PROVE  s[1] \in Nat /\ s[1] >= 1 /\ s[2] \in Seq(OfLength(n)) /\ Len(s[2]) \in Nat
BY DEF Steps

LEMMA AheadType ==
  ASSUME NEW n, NEW last \in Nat
  PROVE  Ahead(n, last) \in [Steps(n) -> 0 .. last] /\ Ahead(n, last) \in [Steps(n) -> Nat]
<1>1. \A s \in Steps(n) : (IF s[1] > last THEN 0 ELSE last + 1 - s[1]) \in 0 .. last
  BY AStep
<1>2. \A x \in 0 .. last : x \in Nat
  OBVIOUS
<1> QED BY <1>1, <1>2 DEF Ahead

LEMMA MovesDown ==
  ASSUME NEW n, NEW last \in Nat, NEW step \in {1, 2}, NEW k, NEW move,
         GoesOn(n, last, step, k, move), NEW s \in Steps(n), s[1] <= last
  PROVE  move[s] \in Steps(n) /\ Ahead(n, last)[move[s]] < Ahead(n, last)[s]
<1>1. move[s] \in Steps(n) /\ move[s][1] >= s[1] + step
  BY DEF GoesOn
<1>2. s[1] \in Nat /\ move[s][1] \in Nat
  BY <1>1, AStep
<1>3. /\ Ahead(n, last)[s] = IF s[1] > last THEN 0 ELSE last + 1 - s[1]
      /\ Ahead(n, last)[move[s]] = IF move[s][1] > last THEN 0 ELSE last + 1 - move[s][1]
  BY <1>1 DEF Ahead
<1> QED BY <1>1, <1>2, <1>3

LEMMA WalkExists ==
  ASSUME NEW n \in Nat, NEW last \in Nat, NEW step \in {1, 2}, NEW k, NEW move,
         GoesOn(n, last, step, k, move)
  PROVE  \E f : Walking(n, last, move, f)
<1> DEFINE D == Steps(n)
           C == Seq(OfLength(n))
           m == Ahead(n, last)
           Body(f, s) == IF s[1] > last THEN s[2] ELSE f[move[s]]
           F == [f \in [D -> C] |-> [s \in D |-> Body(f, s)]]
<1>1. ASSUME NEW f \in [D -> C], NEW s \in D PROVE Body(f, s) \in C
  <2>1. s[1] \in Nat /\ s[2] \in C
    BY AStep
  <2>2. s[1] <= last => move[s] \in D
    BY DEF GoesOn
  <2> QED BY <2>1, <2>2
<1>2. F \in [[D -> C] -> [D -> C]]
  <2> HIDE DEF Body
  <2> QED BY <1>1
<1>3. ASSUME NEW f \in [D -> C], NEW g \in [D -> C], NEW s \in D, Agree(D, m, f, g, s)
      PROVE  Body(f, s) = Body(g, s)
  <2>1. s[1] \in Nat
    BY AStep
  <2>2. CASE s[1] > last
    BY <2>2
  <2>3. CASE s[1] <= last
    <3>1. move[s] \in D /\ m[move[s]] < m[s]
      BY <2>3, MovesDown
    <3>2. f[move[s]] = g[move[s]]
      <4> HIDE DEF D, m, C
      <4> QED BY <1>3, <3>1 DEF Agree
    <3> QED BY <3>2
  <2> QED BY <2>1, <2>2, <2>3
<1>4. \A f, g \in [D -> C], s \in D : Agree(D, m, f, g, s) => F[f][s] = F[g][s]
  <2> HIDE DEF Body
  <2> QED BY <1>3
<1>5. PICK f \in [D -> C] : f = F[f]
  <2>1. m \in [D -> 0 .. last]
    BY AheadType
  <2>2. << >> \in C
    OBVIOUS
  <2> HIDE DEF F, D, m, C
  <2>3. GoesDown(D, C, last, m, F)
    BY <1>2, <1>4, <2>1, <2>2 DEF GoesDown
  <2> QED BY <2>3, Recursion
<1>6. f = [s \in D |-> Body(f, s)]
  <2> HIDE DEF Body
  <2> QED BY <1>5
<1> QED BY <1>6 DEF Walking

\* What a walk from position i can still add, in units of one string for each step.
Reach(last, step, i) == IF i > last THEN 0 ELSE last + step - i

LEMMA LessReach ==
  ASSUME NEW last \in Nat, NEW step \in {1, 2}, NEW i \in Nat, i <= last, NEW j \in Nat, j >= i + step
  PROVE  /\ Reach(last, step, i) \in Nat /\ Reach(last, step, j) \in Nat
         /\ Reach(last, step, j) + step <= Reach(last, step, i)
BY DEF Reach

LEMMA Times ==
  ASSUME NEW k \in Nat, NEW a \in Nat, NEW b \in Nat, NEW step \in Nat, a + step <= b
  PROVE  k * a \in Nat /\ k * b \in Nat /\ step * k \in Nat /\ k * a + step * k <= k * b
<1> DEFINE c == b - a - step
<1>1. c \in Nat /\ b = a + step + c
  OBVIOUS
<1> HIDE DEF c
<1>2. k * c \in Nat /\ k * a \in Nat /\ step * k \in Nat
  BY <1>1
<1>3. k * b = k * a + step * k + k * c
  BY <1>1
<1> QED BY <1>2, <1>3

LEMMA WalkCount ==
  ASSUME NEW n \in Nat, NEW last \in Nat, NEW step \in {1, 2}, NEW k \in Nat, NEW move,
         GoesOn(n, last, step, k, move), NEW f, Walking(n, last, move, f), NEW s \in Steps(n)
  PROVE  /\ f[s] \in Seq(OfLength(n))
         /\ step * Len(f[s]) <= step * Len(s[2]) + k * Reach(last, step, s[1])
<1> DEFINE D == Steps(n)
           C == Seq(OfLength(n))
           m == Ahead(n, last)
           Fine(t) == /\ f[t] \in C
                      /\ step * Len(f[t]) <= step * Len(t[2]) + k * Reach(last, step, t[1])
           Bad == {t \in D : ~Fine(t)}
<1>1. m \in [D -> Nat]
  BY AheadType
<1>2. Bad = {}
  <2> SUFFICES ASSUME Bad # {} PROVE FALSE
    OBVIOUS
  <2>1. PICK t \in Bad : \A x \in Bad : m[t] <= m[x]
    <3>1. Bad \in SUBSET D
      OBVIOUS
    <3> HIDE DEF Bad, D, m
    <3> QED BY <1>1, <3>1, LeastOf
  <2>2. t \in D /\ ~Fine(t)
    BY <2>1
  <2>3. t[1] \in Nat /\ t[2] \in C /\ Len(t[2]) \in Nat
    BY <2>2, AStep
  <2>4. f[t] = IF t[1] > last THEN t[2] ELSE f[move[t]]
    BY <2>2 DEF Walking
  <2>5. CASE t[1] > last
    <3>1. Reach(last, step, t[1]) = 0 /\ f[t] = t[2]
      BY <2>4, <2>5 DEF Reach
    <3>2. k * 0 = 0
      OBVIOUS
    <3>3. step * Len(t[2]) <= step * Len(t[2]) + 0
      BY <2>3
    <3> QED BY <2>2, <2>3, <3>1, <3>2, <3>3
  <2>6. CASE t[1] <= last
    <3> DEFINE u == move[t]
    <3>1. u \in D /\ m[u] < m[t] /\ u[1] >= t[1] + step /\ Len(u[2]) <= Len(t[2]) + k
      <4>1. u \in D /\ m[u] < m[t]
        BY <2>2, <2>6, MovesDown
      <4>2. u[1] >= t[1] + step /\ Len(u[2]) <= Len(t[2]) + k
        BY <2>2, <2>6 DEF GoesOn
      <4> QED BY <4>1, <4>2
    <3>2. u[1] \in Nat /\ Len(u[2]) \in Nat
      BY <3>1, AStep
    <3>3. Fine(u)
      <4>1. m[u] \in Nat /\ m[t] \in Nat
        <5> HIDE DEF m, D, u
        <5> QED BY <1>1, <2>2, <3>1
      <4>2. u \notin Bad
        <5> HIDE DEF m, D, u, Bad
        <5> QED BY <2>1, <3>1, <4>1
      <4> HIDE DEF u, Fine
      <4> QED BY <3>1, <4>2
    <3>4. f[t] = f[u]
      BY <2>3, <2>4, <2>6
    <3> DEFINE a == Reach(last, step, u[1])
               b == Reach(last, step, t[1])
               x == Len(u[2])
               y == Len(t[2])
               z == Len(f[u])
    <3>5. k * a \in Nat /\ k * b \in Nat /\ step * k \in Nat /\ k * a + step * k <= k * b
      <4>1. a \in Nat /\ b \in Nat /\ a + step <= b
        BY <2>3, <2>6, <3>1, <3>2, LessReach
      <4>2. step \in Nat
        OBVIOUS
      <4> HIDE DEF a, b
      <4> QED BY <4>1, <4>2, Times
    <3>6. f[u] \in C /\ z \in Nat /\ step * z <= step * x + k * a
      <4>1. f[u] \in C /\ step * z <= step * x + k * a
        BY <3>3
      <4>2. z \in Nat
        BY <4>1
      <4> QED BY <4>1, <4>2
    <3>7. x \in Nat /\ y \in Nat /\ x <= y + k
      BY <2>3, <3>1, <3>2
    <3> HIDE DEF u, a, b, x, y, z, Fine
    <3>8. step * z <= step * y + k * b
      <4>1. step * x <= step * y + step * k
        <5>1. CASE step = 1
          BY <3>7, <5>1
        <5>2. CASE step = 2
          BY <3>7, <5>2
        <5> QED BY <5>1, <5>2
      <4> DEFINE p == k * a
                 q == k * b
                 r == step * k
                 sz == step * z
                 sx == step * x
                 sy == step * y
      <4>2. sz \in Nat /\ sx \in Nat /\ sy \in Nat /\ p \in Nat /\ q \in Nat /\ r \in Nat
        BY <3>5, <3>6, <3>7, SMTT(30)
      <4>3. p + r <= q /\ sz <= sx + p /\ sx <= sy + r
        BY <3>5, <3>6, <4>1
      <4> HIDE DEF p, q, r, sz, sx, sy
      <4>4. sz <= sy + q
        BY <4>2, <4>3
      <4> QED BY <4>4 DEF sz, sy, q
    <3>9. Fine(t)
      BY <3>4, <3>6, <3>8 DEF Fine, b, y, z
    <3> QED BY <2>2, <3>9
  <2> QED BY <2>3, <2>5, <2>6
<1>3. Fine(s)
  <2> HIDE DEF Fine
  <2> QED BY <1>2
<1> QED BY <1>3

-----------------------------------------------------------------------------
BreakMove(buf, n, step, o, s) ==
  <<Jump(s[1], Run(buf, s[1], n, step, o), n, step),
    IF Run(buf, s[1], n, step, o) = n THEN AddString(s[2], ByteSeq(buf, s[1], n, step), o) ELSE s[2]>>

SkipMove(buf, n, step, o, s) ==
  LET at == SkipInvalid(buf, s[1], LastPosition(Len(buf), n), step, o)
  IN  <<at + step,
        IF Len(ValidFrom(buf, at, step, o)) >= n
          THEN AddString(s[2], SubSeq(ValidFrom(buf, at, step, o), 1, n), o) ELSE s[2]>>

Breaks(buf, n, step, o, f) ==
  f = [s \in Steps(n) |->
         IF s[1] > LastPosition(Len(buf), n) THEN s[2] ELSE f[BreakMove(buf, n, step, o, s)]]

Skips(buf, n, step, o, f) ==
  f = [s \in Steps(n) |->
         IF s[1] > LastPosition(Len(buf), n) THEN s[2] ELSE f[SkipMove(buf, n, step, o, s)]]

LEMMA ExtractBy ==
  ASSUME NEW buf, NEW n, NEW step, NEW o, NEW f, NEW g,
         Breaks(buf, n, step, o, f), Skips(buf, n, step, o, g)
  PROVE  \E x, y : /\ Breaks(buf, n, step, o, x) /\ Skips(buf, n, step, o, y)
                   /\ pwdgen_img_extract(buf, n, step, o) =
                        IF Len(buf) <= n THEN << >>
                        ELSE IF o.skip_invalids THEN y[<<1, << >> >>] ELSE x[<<1, << >> >>]
<1> DEFINE x == CHOOSE h : Breaks(buf, n, step, o, h)
           y == CHOOSE h : Skips(buf, n, step, o, h)
<1>1. Breaks(buf, n, step, o, x) /\ Skips(buf, n, step, o, y)
  OBVIOUS
<1>2. pwdgen_img_extract(buf, n, step, o) =
        IF Len(buf) <= n THEN << >>
        ELSE IF o.skip_invalids THEN y[<<1, << >> >>] ELSE x[<<1, << >> >>]
  BY DEF pwdgen_img_extract, Breaks, Skips, BreakMove, SkipMove, Steps, OfLength, Byte
<1> QED BY <1>1, <1>2

BreakMoves(buf, n, step, o) == [s \in Steps(n) |-> BreakMove(buf, n, step, o, s)]
SkipMoves(buf, n, step, o) == [s \in Steps(n) |-> SkipMove(buf, n, step, o, s)]

LEMMA AfterAString ==
  ASSUME NEW n \in Nat, NEW o, GoodOpt(o), NEW i \in Nat \ {0}, NEW list \in Seq(OfLength(n)),
         NEW j \in Nat, NEW step \in {1, 2}, j >= i + step, NEW w, NEW full \in BOOLEAN,
         full => w \in OfLength(n)
  PROVE  /\ <<j, IF full THEN AddString(list, w, o) ELSE list>> \in Steps(n)
         /\ Len(IF full THEN AddString(list, w, o) ELSE list) <= Len(list) + (Kinds(o) + 1)
<1>1. j \in Nat \ {0}
  OBVIOUS
<1>2. Kinds(o) \in Nat
  BY KindsCounted
<1>3. CASE full
  <2>1. /\ AddString(list, w, o) \in Seq(OfLength(n))
        /\ Len(AddString(list, w, o)) <= Len(list) + (Kinds(o) + 1)
    BY <1>3, StringAdded
  <2> QED BY <1>1, <1>3, <2>1 DEF Steps
<1>4. CASE ~full
  <2>1. Len(list) <= Len(list) + (Kinds(o) + 1)
    BY <1>2
  <2> QED BY <1>1, <1>4, <2>1 DEF Steps
<1> QED BY <1>3, <1>4

LEMMA BreakingGoesOn ==
  ASSUME NEW n \in Nat, NEW buf \in Seq(Byte), Len(buf) > n, NEW step \in {1, 2}, NEW o, GoodOpt(o)
  PROVE  GoesOn(n, Len(buf) - n, step, Kinds(o) + 1, BreakMoves(buf, n, step, o))
<1> SUFFICES ASSUME NEW s \in Steps(n), s[1] <= Len(buf) - n
             PROVE  /\ BreakMoves(buf, n, step, o)[s] \in Steps(n)
                    /\ BreakMoves(buf, n, step, o)[s][1] >= s[1] + step
                    /\ Len(BreakMoves(buf, n, step, o)[s][2]) <= Len(s[2]) + (Kinds(o) + 1)
  BY DEF GoesOn
<1> DEFINE i == s[1]
           list == s[2]
           run == Run(buf, i, n, step, o)
           j == Jump(i, run, n, step)
           w == ByteSeq(buf, i, n, step)
           full == run = n
<1>1. i \in Nat \ {0} /\ list \in Seq(OfLength(n))
  BY DEF Steps
<1>2. j \in Nat /\ j >= i + step
  BY <1>1, ARun, Jumped
<1>3. full \in BOOLEAN /\ (full => w \in OfLength(n))
  BY <1>1, FullRun
<1>4. BreakMoves(buf, n, step, o)[s] = <<j, IF full THEN AddString(list, w, o) ELSE list>>
  BY DEF BreakMoves, BreakMove
<1> HIDE DEF i, list, run, j, w, full
<1>5. /\ <<j, IF full THEN AddString(list, w, o) ELSE list>> \in Steps(n)
      /\ Len(IF full THEN AddString(list, w, o) ELSE list) <= Len(list) + (Kinds(o) + 1)
  BY <1>1, <1>2, <1>3, AfterAString
<1> QED BY <1>2, <1>4, <1>5 DEF i, list

LEMMA SkippingGoesOn ==
  ASSUME NEW n \in Nat, NEW buf \in Seq(Byte), Len(buf) > n, NEW step \in {1, 2}, NEW o, GoodOpt(o)
  PROVE  GoesOn(n, Len(buf) - n, step, Kinds(o) + 1, SkipMoves(buf, n, step, o))
<1> SUFFICES ASSUME NEW s \in Steps(n), s[1] <= Len(buf) - n
             PROVE  /\ SkipMoves(buf, n, step, o)[s] \in Steps(n)
                    /\ SkipMoves(buf, n, step, o)[s][1] >= s[1] + step
                    /\ Len(SkipMoves(buf, n, step, o)[s][2]) <= Len(s[2]) + (Kinds(o) + 1)
  BY DEF GoesOn
<1> DEFINE i == s[1]
           list == s[2]
           at == SkipInvalid(buf, i, Len(buf) - n, step, o)
           j == at + step
           bytes == ValidFrom(buf, at, step, o)
           w == SubSeq(bytes, 1, n)
           full == Len(bytes) >= n
<1>1. i \in Nat \ {0} /\ list \in Seq(OfLength(n)) /\ i <= Len(buf) - n /\ Len(buf) - n \in Nat
  BY DEF Steps
<1>2. at \in Nat /\ at >= i
  <2> HIDE DEF i
  <2> QED BY <1>1, Skipped
<1>3. SkipMoves(buf, n, step, o)[s] = <<j, IF full THEN AddString(list, w, o) ELSE list>>
  BY DEF SkipMoves, SkipMove, LastPosition
<1> HIDE DEF i, list, at
<1>4. bytes \in Seq(Byte)
  BY <1>1, <1>2, ValidBytes
<1> HIDE DEF bytes
<1>5. full \in BOOLEAN /\ (full => w \in OfLength(n))
  <2>1. ASSUME full PROVE w \in Seq(Byte) /\ Len(w) = n
    BY <1>4, <2>1
  <2>2. full => w \in OfLength(n)
    <3> HIDE DEF full, w
    <3> QED BY <2>1, LengthOf
  <2>3. full \in BOOLEAN
    OBVIOUS
  <2> QED BY <2>2, <2>3
<1>6. j \in Nat /\ j >= i + step
  BY <1>1, <1>2
<1> HIDE DEF j, w, full
<1>7. /\ <<j, IF full THEN AddString(list, w, o) ELSE list>> \in Steps(n)
      /\ Len(IF full THEN AddString(list, w, o) ELSE list) <= Len(list) + (Kinds(o) + 1)
  BY <1>1, <1>5, <1>6, AfterAString
<1> QED BY <1>3, <1>6, <1>7 DEF i, list

\* A pass over a buffer gives strings of the length asked for, one with its variants
\* at most for each step from the first position to the last one.
LEMMA APass ==
  ASSUME NEW n \in Nat, NEW buf \in Seq(Byte), Len(buf) > n, NEW step \in {1, 2}, NEW o, GoodOpt(o)
  PROVE  /\ pwdgen_img_extract(buf, n, step, o) \in Seq(OfLength(n))
         /\ step * Len(pwdgen_img_extract(buf, n, step, o))
              <= (Kinds(o) + 1) * ((Len(buf) - n) + step - 1)
<1> DEFINE last == Len(buf) - n
           k == Kinds(o) + 1
           move == BreakMoves(buf, n, step, o)
           skip == SkipMoves(buf, n, step, o)
           s == <<1, << >> >>
<1>1. last \in Nat /\ last >= 1 /\ k \in Nat /\ LastPosition(Len(buf), n) = last
  BY KindsCounted DEF LastPosition
<1>2. GoesOn(n, last, step, k, move) /\ GoesOn(n, last, step, k, skip)
  BY BreakingGoesOn, SkippingGoesOn
<1>3. \A f : Walking(n, last, move, f) <=> Breaks(buf, n, step, o, f)
  <2>1. \A t \in Steps(n) : move[t] = BreakMove(buf, n, step, o, t)
    BY DEF BreakMoves
  <2> HIDE DEF last, move
  <2> QED BY <1>1, <2>1 DEF Walking, Breaks
<1>4. \A f : Walking(n, last, skip, f) <=> Skips(buf, n, step, o, f)
  <2>1. \A t \in Steps(n) : skip[t] = SkipMove(buf, n, step, o, t)
    BY DEF SkipMoves
  <2> HIDE DEF last, skip
  <2> QED BY <1>1, <2>1 DEF Walking, Skips
<1>5. s \in Steps(n)
  <2>1. << >> \in Seq(OfLength(n)) /\ 1 \in Nat \ {0}
    OBVIOUS
  <2> QED BY <2>1 DEF Steps
<1> HIDE DEF last, k, move, skip
<1>6. PICK f : Breaks(buf, n, step, o, f)
  BY <1>1, <1>2, <1>3, WalkExists
<1>7. PICK g : Skips(buf, n, step, o, g)
  BY <1>1, <1>2, <1>4, WalkExists
<1>8. PICK x, y : /\ Breaks(buf, n, step, o, x) /\ Skips(buf, n, step, o, y)
                  /\ pwdgen_img_extract(buf, n, step, o) =
                       IF Len(buf) <= n THEN << >>
                       ELSE IF o.skip_invalids THEN y[<<1, << >> >>] ELSE x[<<1, << >> >>]
  BY <1>6, <1>7, ExtractBy, SMTT(30)
<1>9. \A h : Walking(n, last, move, h) \/ Walking(n, last, skip, h) =>
        /\ h[s] \in Seq(OfLength(n))
        /\ step * Len(h[s]) <= step * Len(s[2]) + k * Reach(last, step, s[1])
  BY <1>1, <1>2, <1>5, WalkCount, ZenonT(60)
<1>10. step * Len(s[2]) = 0 /\ Reach(last, step, s[1]) = last + step - 1
  BY <1>1 DEF Reach
<1>11. k * (last + step - 1) \in Nat
  <2> DEFINE c == last + step - 1
  <2>1. c \in Nat
    BY <1>1
  <2> HIDE DEF c
  <2>2. k * c \in Nat
    BY <1>1, <2>1
  <2> QED BY <2>2 DEF c
<1>12. \A h : Walking(n, last, move, h) \/ Walking(n, last, skip, h) =>
        /\ h[s] \in Seq(OfLength(n))
        /\ step * Len(h[s]) <= k * (last + step - 1)
  <2> DEFINE c == k * (last + step - 1)
  <2>1. c \in Nat
    BY <1>11
  <2>2. \A h : Walking(n, last, move, h) \/ Walking(n, last, skip, h) =>
          h[s] \in Seq(OfLength(n)) /\ step * Len(h[s]) <= 0 + c
    BY <1>9, <1>10
  <2>3. 0 + c = c
    BY <2>1
  <2> QED BY <2>2, <2>3
<1>13. pwdgen_img_extract(buf, n, step, o) \in {x[s], y[s]}
  <2>1. ~(Len(buf) <= n)
    OBVIOUS
  <2> QED BY <1>8, <2>1
<1>14. Walking(n, last, move, x) /\ Walking(n, last, skip, y)
  BY <1>3, <1>4, <1>8
<1> QED BY <1>12, <1>13, <1>14 DEF last, k

-----------------------------------------------------------------------------
(***************************************************************************)
(* Extraction of UTF-8.                                                    *)
(***************************************************************************)
LEMMA FollowUps ==
  ASSUME NEW b \in Byte, StartsCharacter(b)
  PROVE  Need(b) \in 0 .. 5 /\ Need(b) \in Nat
<1>1. b \in Int /\ b > 31 /\ b < 254 /\ ~(b \in 128 .. 191)
  BY Bytes DEF StartsCharacter, IsFollowUp
<1>2. CASE b < 128
  <2>1. Need(b) = 0
    BY <1>1, <1>2 DEF Need
  <2> QED BY <2>1
<1>3. CASE ~(b < 128)
  <2>1. b \in 192 .. 223 \/ b \in 224 .. 239 \/ b \in 240 .. 247 \/ b \in 248 .. 251 \/ b \in 252 .. 253
    BY <1>1, <1>3
  <2>2. Need(b) \in {1, 2, 3, 4, 5}
    BY <1>1, <1>3, <2>1 DEF Need
  <2> QED BY <2>2
<1> QED BY <1>2, <1>3

Taken(n) == {s \in Seq(Byte) : Len(s) <= n}

CharPlaces(buf, n) == (1 .. Len(buf) + 1) \X Taken(n)

CharStep(buf, n, f, at) ==
  LET bad == BrokenFollowUp(buf, at[1])
  IN  IF Len(at[2]) = n THEN at[2]
      ELSE IF at[1] > Len(buf) THEN << >>
      ELSE IF ~StartsCharacter(buf[at[1]]) THEN f[<<at[1] + 1, at[2]>>]
      ELSE IF Need(buf[at[1]]) > 0 /\ (at[1] + Need(buf[at[1]]) > Len(buf) \/ Len(at[2]) + Need(buf[at[1]]) >= n)
             THEN << >>
      ELSE IF bad = {} THEN f[<<at[1] + 1, at[2] \o SubSeq(buf, at[1], at[1] + Need(buf[at[1]]))>>]
      ELSE f[<<at[1] + Min(bad), at[2]>>]

Scanning(buf, n, f) == f = [at \in CharPlaces(buf, n) |-> CharStep(buf, n, f, at)]

LEMMA ScanBy ==
  ASSUME NEW buf, NEW n, NEW i, NEW g, Scanning(buf, n, g)
  PROVE  \E f : Scanning(buf, n, f) /\ Utf8String(buf, i, n) = f[<<i, << >> >>]
<1>1. Scanning(buf, n, CHOOSE f : Scanning(buf, n, f))
  OBVIOUS
<1>2. Utf8String(buf, i, n) = (CHOOSE f : Scanning(buf, n, f))[<<i, << >> >>]
  BY DEF Utf8String, Scanning, CharPlaces, Taken, CharStep, Byte
<1> QED BY <1>1, <1>2

Behind(buf, n) == [at \in CharPlaces(buf, n) |-> (Len(buf) + 1) - at[1]]

\* Where a scan goes on: at a later place, with as many bytes as fit.
Later(buf, n, at, next) ==
  next \in CharPlaces(buf, n) /\ Behind(buf, n)[next] < Behind(buf, n)[at]

LEMMA ALater ==
  ASSUME NEW n \in Nat, NEW buf \in Seq(Byte), NEW at \in CharPlaces(buf, n),
         NEW p \in Nat, p > at[1], p <= Len(buf) + 1, NEW s \in Seq(Byte), Len(s) <= n
  PROVE  Later(buf, n, at, <<p, s>>)
<1>1. at[1] \in 1 .. Len(buf) + 1
  BY DEF CharPlaces
<1>2. p \in 1 .. Len(buf) + 1
  BY <1>1
<1>3. <<p, s>> \in CharPlaces(buf, n)
  BY <1>2 DEF CharPlaces, Taken
<1>4. Behind(buf, n)[<<p, s>>] = (Len(buf) + 1) - p /\ Behind(buf, n)[at] = (Len(buf) + 1) - at[1]
  BY <1>3 DEF Behind
<1> QED BY <1>1, <1>2, <1>3, <1>4 DEF Later

LEMMA BehindType ==
  ASSUME NEW n \in Nat, NEW buf \in Seq(Byte)
  PROVE  Behind(buf, n) \in [CharPlaces(buf, n) -> 0 .. Len(buf)] /\ Behind(buf, n) \in [CharPlaces(buf, n) -> Nat]
<1>1. \A at \in CharPlaces(buf, n) : (Len(buf) + 1) - at[1] \in 0 .. Len(buf) /\ (Len(buf) + 1) - at[1] \in Nat
  BY DEF CharPlaces
<1> QED BY <1>1 DEF Behind

\* A scan ends with a string, with none, or goes on later.
LEMMA CharCases ==
  ASSUME NEW n \in Nat, NEW buf \in Seq(Byte), NEW at \in CharPlaces(buf, n)
  PROVE  \/ Len(at[2]) = n /\ at[2] \in OfLength(n) /\ \A f : CharStep(buf, n, f, at) = at[2]
         \/ \A f : CharStep(buf, n, f, at) = << >>
         \/ \E next : Later(buf, n, at, next) /\ \A f : CharStep(buf, n, f, at) = f[next]
<1> DEFINE L == Len(buf)
           pos == at[1]
           s == at[2]
           b == buf[pos]
           need == Need(b)
           bad == BrokenFollowUp(buf, pos)
<1>1. pos \in Nat /\ pos >= 1 /\ pos <= L + 1 /\ L \in Nat /\ s \in Seq(Byte) /\ Len(s) <= n /\ Len(s) \in Nat
  BY DEF CharPlaces, Taken
<1>2. CASE Len(s) = n
  BY <1>1, <1>2, LengthOf DEF CharStep
<1>3. CASE Len(s) # n /\ pos > L
  BY <1>3 DEF CharStep
<1>4. CASE Len(s) # n /\ ~(pos > L) /\ ~StartsCharacter(b)
  <2>1. Later(buf, n, at, <<pos + 1, s>>)
    <3> DEFINE p == pos + 1
    <3>1. p \in Nat /\ p > pos /\ p <= L + 1
      BY <1>1, <1>4
    <3> HIDE DEF p
    <3>2. Later(buf, n, at, <<p, s>>)
      BY <1>1, <3>1, ALater
    <3> QED BY <3>2 DEF p
  <2>2. \A f : CharStep(buf, n, f, at) = f[<<pos + 1, s>>]
    BY <1>4 DEF CharStep
  <2> QED BY <2>1, <2>2
<1>5. CASE Len(s) # n /\ ~(pos > L) /\ StartsCharacter(b)
  <2>0. b \in Byte
    <3>1. pos \in 1 .. L
      BY <1>1, <1>5
    <3> QED BY <3>1
  <2>1. need \in Nat
    <3> HIDE DEF b
    <3> QED BY <1>5, <2>0, FollowUps
  <2>2. CASE need > 0 /\ (pos + need > L \/ Len(s) + need >= n)
    BY <1>5, <2>2 DEF CharStep
  <2>3. CASE ~(need > 0 /\ (pos + need > L \/ Len(s) + need >= n)) /\ bad = {}
    <3> DEFINE c == SubSeq(buf, pos, pos + need)
               p == pos + 1
    <3>1. pos + need <= L /\ Len(s) + need < n
      <4> HIDE DEF need, L, pos, s
      <4> QED BY <1>1, <1>5, <2>1, <2>3
    <3>2. c \in Seq(Byte) /\ Len(c) = need + 1
      <4> HIDE DEF need
      <4> DEFINE e == pos + need
      <4>1. e \in Nat /\ e <= L /\ e >= pos /\ e - pos + 1 = need + 1
        BY <1>1, <2>1, <3>1, SMTT(30)
      <4> HIDE DEF e, pos
      <4>2. SubSeq(buf, pos, e) \in Seq(Byte) /\ Len(SubSeq(buf, pos, e)) = e - pos + 1
        BY <1>1, <4>1
      <4> QED BY <4>1, <4>2 DEF e
    <3> HIDE DEF c
    <3>3. s \o c \in Seq(Byte) /\ Len(s \o c) <= n
      <4> HIDE DEF need, s
      <4>1. s \o c \in Seq(Byte) /\ Len(s \o c) = Len(s) + Len(c)
        BY <1>1, <3>2, SMTT(30)
      <4> QED BY <1>1, <2>1, <3>1, <3>2, <4>1
    <3>4. p \in Nat /\ p > pos /\ p <= L + 1
      BY <1>1, <1>5
    <3> DEFINE t == s \o c
    <3>5. t \in Seq(Byte) /\ Len(t) <= n
      BY <3>3
    <3> HIDE DEF p, t
    <3>6. Later(buf, n, at, <<p, t>>)
      BY <3>4, <3>5, ALater
    <3>7. \A f : CharStep(buf, n, f, at) = f[<<p, t>>]
      BY <1>5, <2>3 DEF CharStep, p, t, c
    <3> QED BY <3>6, <3>7
  <2>4. CASE ~(need > 0 /\ (pos + need > L \/ Len(s) + need >= n)) /\ bad # {}
    <3>1. bad \in SUBSET (1 .. need)
      BY DEF BrokenFollowUp
    <3> DEFINE t == Min(bad)
               p == pos + t
    <3>2. t \in 1 .. need
      <4> HIDE DEF need, bad
      <4>1. bad \in SUBSET Nat
        BY <3>1
      <4> QED BY <2>4, <3>1, <4>1, MinOf
    <3>3. pos + need <= L
      <4>1. need > 0
        <5> HIDE DEF t
        <5> QED BY <2>1, <3>2
      <4> QED BY <1>1, <2>1, <2>4, <4>1
    <3>4. p \in Nat /\ p > pos /\ p <= L + 1
      <4> HIDE DEF t, need
      <4> QED BY <1>1, <2>1, <3>2, <3>3, SMTT(30)
    <3>5. \A f : CharStep(buf, n, f, at) = f[<<p, s>>]
      BY <1>5, <2>4 DEF CharStep
    <3> HIDE DEF p
    <3>6. Later(buf, n, at, <<p, s>>)
      BY <1>1, <3>4, ALater
    <3> QED BY <3>5, <3>6
  <2> QED BY <2>2, <2>3, <2>4
<1> QED BY <1>2, <1>3, <1>4, <1>5

LEMMA ScanExists ==
  ASSUME NEW n \in Nat, NEW buf \in Seq(Byte)
  PROVE  \E f : Scanning(buf, n, f)
<1> DEFINE D == CharPlaces(buf, n)
           C == OfLength(n) \cup {<< >>}
           m == Behind(buf, n)
           F == [f \in [D -> C] |-> [at \in D |-> CharStep(buf, n, f, at)]]
<1>1. ASSUME NEW f \in [D -> C], NEW at \in D PROVE CharStep(buf, n, f, at) \in C
  <2>1. CASE \E next : Later(buf, n, at, next) /\ \A g : CharStep(buf, n, g, at) = g[next]
    <3>1. PICK next : Later(buf, n, at, next) /\ \A g : CharStep(buf, n, g, at) = g[next]
      BY <2>1
    <3>2. next \in D
      BY <3>1 DEF Later
    <3> HIDE DEF D, C
    <3> QED BY <3>1, <3>2
  <2> QED BY <2>1, CharCases
<1>2. F \in [[D -> C] -> [D -> C]]
  <2> HIDE DEF D, C
  <2> QED BY <1>1
<1>3. ASSUME NEW f \in [D -> C], NEW g \in [D -> C], NEW at \in D, Agree(D, m, f, g, at)
      PROVE  CharStep(buf, n, f, at) = CharStep(buf, n, g, at)
  <2>1. CASE \E next : Later(buf, n, at, next) /\ \A h : CharStep(buf, n, h, at) = h[next]
    <3>1. PICK next : Later(buf, n, at, next) /\ \A h : CharStep(buf, n, h, at) = h[next]
      BY <2>1
    <3>2. f[next] = g[next]
      BY <1>3, <3>1 DEF Later, Agree
    <3> QED BY <3>1, <3>2
  <2>2. CASE \A h : CharStep(buf, n, h, at) = << >>
    BY <2>2
  <2>3. CASE \A h : CharStep(buf, n, h, at) = at[2]
    BY <2>3
  <2> QED BY <2>1, <2>2, <2>3, CharCases
<1>4. \A f, g \in [D -> C], at \in D : Agree(D, m, f, g, at) => F[f][at] = F[g][at]
  <2> HIDE DEF D, C, m
  <2> QED BY <1>3
<1>5. PICK f \in [D -> C] : f = F[f]
  <2>1. m \in [D -> 0 .. Len(buf)] /\ Len(buf) \in Nat
    BY BehindType
  <2>2. << >> \in C
    OBVIOUS
  <2> HIDE DEF F, D, m, C
  <2>3. GoesDown(D, C, Len(buf), m, F)
    BY <1>2, <1>4, <2>1, <2>2 DEF GoesDown
  <2> QED BY <2>3, Recursion
<1> QED BY <1>5 DEF Scanning

\* A string of UTF-8 has the length asked for.
LEMMA Scanned ==
  ASSUME NEW n \in Nat, NEW buf \in Seq(Byte), NEW i \in 1 .. Len(buf)
  PROVE  Utf8String(buf, i, n) \in OfLength(n) \cup {<< >>}
<1> DEFINE D == CharPlaces(buf, n)
           C == OfLength(n) \cup {<< >>}
           m == Behind(buf, n)
<1>1. PICK f : Scanning(buf, n, f) /\ Utf8String(buf, i, n) = f[<<i, << >> >>]
  <2>1. PICK g : Scanning(buf, n, g)
    BY ScanExists
  <2> QED BY <2>1, ScanBy
<1> DEFINE Bad == {at \in D : f[at] \notin C}
<1>2. m \in [D -> Nat]
  BY BehindType
<1>3. Bad = {}
  <2> SUFFICES ASSUME Bad # {} PROVE FALSE
    OBVIOUS
  <2>1. PICK at \in Bad : \A x \in Bad : m[at] <= m[x]
    <3>1. Bad \in SUBSET D
      OBVIOUS
    <3> HIDE DEF Bad, D, m
    <3> QED BY <1>2, <3>1, LeastOf
  <2>2. at \in D /\ f[at] \notin C
    BY <2>1
  <2>3. f[at] = CharStep(buf, n, f, at)
    BY <1>1, <2>2 DEF Scanning
  <2>4. CASE \E next : Later(buf, n, at, next) /\ \A h : CharStep(buf, n, h, at) = h[next]
    <3>1. PICK next : Later(buf, n, at, next) /\ \A h : CharStep(buf, n, h, at) = h[next]
      BY <2>4
    <3>2. next \in D /\ m[next] < m[at]
      BY <3>1 DEF Later
    <3>3. m[next] \in Nat /\ m[at] \in Nat
      <4> HIDE DEF m, D
      <4> QED BY <1>2, <2>2, <3>2
    <3>4. next \notin Bad
      <4> HIDE DEF m, D, Bad
      <4> QED BY <2>1, <3>2, <3>3
    <3>5. f[next] \in C
      BY <3>2, <3>4
    <3> QED BY <2>2, <2>3, <3>1, <3>5
  <2> QED BY <2>2, <2>3, <2>4, CharCases
<1>4. <<i, << >> >> \in D
  <2>1. i \in 1 .. Len(buf) + 1
    OBVIOUS
  <2>2. << >> \in Taken(n)
    <3>1. << >> \in Seq(Byte) /\ Len(<< >>) <= n
      OBVIOUS
    <3> QED BY <3>1 DEF Taken
  <2> QED BY <2>1, <2>2 DEF CharPlaces
<1> QED BY <1>1, <1>3, <1>4

-----------------------------------------------------------------------------
AtStep(buf, n, o, f, i) ==
  IF i = 0 THEN << >>
  ELSE IF StartsString(buf[i]) /\ Utf8String(buf, i, n) # << >>
         THEN AddString(f[i - 1], Utf8String(buf, i, n), o)
  ELSE f[i - 1]

Gathering(buf, n, o, f) == f = [i \in 0 .. Len(buf) |-> AtStep(buf, n, o, f, i)]

LEMMA GatherBy ==
  ASSUME NEW buf, NEW n, NEW o, NEW g, Gathering(buf, n, o, g)
  PROVE  \E f : /\ Gathering(buf, n, o, f)
                /\ pwdgen_img_extract_utf8(buf, n, o) =
                     IF Len(buf) <= n THEN << >> ELSE f[LastPosition(Len(buf), n)]
<1>1. Gathering(buf, n, o, CHOOSE f : Gathering(buf, n, o, f))
  OBVIOUS
<1>2. pwdgen_img_extract_utf8(buf, n, o) =
        IF Len(buf) <= n THEN << >>
        ELSE (CHOOSE f : Gathering(buf, n, o, f))[LastPosition(Len(buf), n)]
  BY DEF pwdgen_img_extract_utf8, Gathering, AtStep
<1> QED BY <1>1, <1>2

LEMMA OneMoreAt ==
  ASSUME NEW n \in Nat, NEW buf \in Seq(Byte), NEW o, GoodOpt(o),
         NEW f, NEW i \in 1 .. Len(buf), f[i - 1] \in Seq(OfLength(n))
  PROVE  /\ AtStep(buf, n, o, f, i) \in Seq(OfLength(n))
         /\ Len(AtStep(buf, n, o, f, i)) <= Len(f[i - 1]) + (Kinds(o) + 1)
<1> DEFINE w == Utf8String(buf, i, n)
           list == f[i - 1]
<1>1. w # << >> => w \in OfLength(n)
  BY Scanned
<1>2. AtStep(buf, n, o, f, i) =
        IF StartsString(buf[i]) /\ w # << >> THEN AddString(list, w, o) ELSE list
  <2>1. i # 0
    OBVIOUS
  <2> QED BY <2>1 DEF AtStep
<1>3. Kinds(o) \in Nat
  BY KindsCounted
<1> HIDE DEF w
<1>4. CASE StartsString(buf[i]) /\ w # << >>
  BY <1>1, <1>2, <1>4, StringAdded
<1>5. CASE ~(StartsString(buf[i]) /\ w # << >>)
  <2>1. AtStep(buf, n, o, f, i) = list /\ list \in Seq(OfLength(n))
    BY <1>2, <1>5
  <2>2. Len(list) <= Len(list) + (Kinds(o) + 1)
    <3> HIDE DEF list
    <3> QED BY <1>3, <2>1
  <2> QED BY <2>1, <2>2
<1> QED BY <1>4, <1>5

LEMMA GatherExists ==
  ASSUME NEW n \in Nat, NEW buf \in Seq(Byte), NEW o, GoodOpt(o)
  PROVE  \E f : Gathering(buf, n, o, f)
<1> DEFINE L == Len(buf)
           D == 0 .. L
           C == Seq(OfLength(n))
           m == [i \in D |-> i]
           F == [f \in [D -> C] |-> [i \in D |-> AtStep(buf, n, o, f, i)]]
<1>0. L \in Nat /\ m \in [D -> 0 .. L] /\ << >> \in C
  OBVIOUS
<1>1. ASSUME NEW f \in [D -> C], NEW i \in D PROVE AtStep(buf, n, o, f, i) \in C
  <2>1. CASE i = 0
    BY <1>0, <2>1 DEF AtStep
  <2>2. CASE i # 0
    <3>1. i \in 1 .. L /\ i - 1 \in D
      BY <2>2
    <3>2. f[i - 1] \in C
      <4> HIDE DEF D, C
      <4> QED BY <3>1
    <3> HIDE DEF D
    <3> QED BY <3>1, <3>2, OneMoreAt
  <2> QED BY <2>1, <2>2
<1>2. F \in [[D -> C] -> [D -> C]]
  <2> HIDE DEF D, C
  <2> QED BY <1>1
<1>3. ASSUME NEW f \in [D -> C], NEW g \in [D -> C], NEW i \in D, Agree(D, m, f, g, i)
      PROVE  AtStep(buf, n, o, f, i) = AtStep(buf, n, o, g, i)
  <2>1. CASE i = 0
    BY <2>1 DEF AtStep
  <2>2. CASE i # 0
    <3>1. i - 1 \in D /\ m[i - 1] < m[i]
      BY <2>2
    <3>2. f[i - 1] = g[i - 1]
      <4> HIDE DEF D, m, C
      <4> QED BY <1>3, <3>1 DEF Agree
    <3> QED BY <3>2 DEF AtStep
  <2> QED BY <2>1, <2>2
<1>4. \A f, g \in [D -> C], i \in D : Agree(D, m, f, g, i) => F[f][i] = F[g][i]
  <2> HIDE DEF D, C, m
  <2> QED BY <1>3
<1>5. PICK f \in [D -> C] : f = F[f]
  <2> HIDE DEF F, D, m, C, L
  <2>1. GoesDown(D, C, L, m, F)
    <3>1. C # {}
      BY <1>0
    <3>2. m \in [D -> 0 .. L] /\ L \in Nat
      BY <1>0 DEF D
    <3> QED BY <3>1, <3>2, <1>2, <1>4 DEF GoesDown
  <2> QED BY <2>1, Recursion
<1> QED BY <1>5 DEF Gathering

LEMMA AUtf8Pass ==
  ASSUME NEW n \in Nat, NEW buf \in Seq(Byte), Len(buf) > n, NEW o, GoodOpt(o)
  PROVE  /\ pwdgen_img_extract_utf8(buf, n, o) \in Seq(OfLength(n))
         /\ Len(pwdgen_img_extract_utf8(buf, n, o)) <= (Kinds(o) + 1) * (Len(buf) - n)
<1> DEFINE L == Len(buf)
           C == Seq(OfLength(n))
           k == Kinds(o) + 1
           last == L - n
<1>1. L \in Nat /\ k \in Nat /\ last \in 0 .. L
  BY KindsCounted
<1>2. PICK f : /\ Gathering(buf, n, o, f)
               /\ pwdgen_img_extract_utf8(buf, n, o) = f[last]
  <2>1. PICK g : Gathering(buf, n, o, g)
    BY GatherExists
  <2>2. PICK f : /\ Gathering(buf, n, o, f)
                 /\ pwdgen_img_extract_utf8(buf, n, o) =
                      IF Len(buf) <= n THEN << >> ELSE f[LastPosition(Len(buf), n)]
    BY <2>1, GatherBy
  <2>3. ~(Len(buf) <= n)
    OBVIOUS
  <2> QED BY <2>2, <2>3 DEF LastPosition
<1> DEFINE Fine(i) == f[i] \in C /\ Len(f[i]) <= k * i
           Bad == {i \in 0 .. L : ~Fine(i)}
<1>3. Bad = {}
  <2> SUFFICES ASSUME Bad # {} PROVE FALSE
    OBVIOUS
  <2>1. PICK i \in Bad : \A x \in Bad : i <= x
    <3>1. Bad \in SUBSET Nat
      BY <1>1
    <3> HIDE DEF Bad
    <3> QED BY <3>1, LeastNumber
  <2>2. i \in 0 .. L /\ ~Fine(i)
    BY <2>1
  <2>3. f[i] = AtStep(buf, n, o, f, i)
    BY <1>2, <2>2 DEF Gathering
  <2>4. CASE i = 0
    <3>1. f[i] = << >> /\ k * i = 0
      BY <1>1, <2>3, <2>4 DEF AtStep
    <3> QED BY <2>2, <3>1
  <2>5. CASE i # 0
    <3>1. i \in 1 .. L /\ i - 1 \in 0 .. L /\ i \in Nat
      BY <2>2, <2>5
    <3>2. Fine(i - 1)
      <4>1. ~(i <= i - 1)
        BY <3>1
      <4>2. i - 1 \notin Bad
        <5> HIDE DEF Bad
        <5> QED BY <2>1, <4>1
      <4> HIDE DEF Fine
      <4> QED BY <3>1, <4>2
    <3>3. f[i] \in C /\ Len(f[i]) <= Len(f[i - 1]) + k
      BY <2>3, <3>1, <3>2, OneMoreAt
    <3>4. k * (i - 1) + k = k * i /\ k * (i - 1) \in Nat /\ k * i \in Nat
      <4> HIDE DEF k
      <4>1. i - 1 \in Nat /\ i = (i - 1) + 1
        BY <3>1
      <4> DEFINE j == i - 1
      <4>2. j \in Nat /\ i = j + 1
        BY <4>1
      <4> HIDE DEF j
      <4>3. k * j \in Nat /\ k * i = k * j + k
        BY <1>1, <4>2
      <4>4. k * i \in Nat
        BY <1>1, <4>3
      <4> QED BY <4>3, <4>4 DEF j
    <3>5. Len(f[i - 1]) \in Nat /\ Len(f[i]) \in Nat /\ Len(f[i - 1]) <= k * (i - 1)
      BY <3>2, <3>3
    <3>6. Fine(i)
      <4> DEFINE a == Len(f[i - 1])
                 b == Len(f[i])
                 c == k * (i - 1)
                 d == k * i
      <4>1. /\ a \in Nat /\ b \in Nat /\ c \in Nat /\ d \in Nat /\ k \in Nat
            /\ b <= a + k /\ a <= c /\ c + k = d
        BY <1>1, <3>3, <3>4, <3>5
      <4> HIDE DEF a, b, c, d, k
      <4>2. b <= d
        BY <4>1
      <4> QED BY <3>3, <4>2 DEF b, d
    <3> QED BY <2>2, <3>6
  <2> QED BY <2>4, <2>5
<1>4. Fine(last)
  <2> HIDE DEF Fine, last
  <2> QED BY <1>1, <1>3
<1> QED BY <1>2, <1>4

LEMMA NoRoom ==
  ASSUME NEW n, NEW buf, Len(buf) <= n, NEW step, NEW o
  PROVE  pwdgen_img_extract(buf, n, step, o) = << >> /\ pwdgen_img_extract_utf8(buf, n, o) = << >>
BY DEF pwdgen_img_extract, pwdgen_img_extract_utf8

\* What a pass gives, in units of one string with its variants.
LEMMA PassBound ==
  ASSUME NEW n \in Nat, NEW buf \in Seq(Byte), NEW step \in {1, 2}, NEW o, GoodOpt(o),
         NEW last \in Nat, Len(buf) - n <= last
  PROVE  /\ pwdgen_img_extract(buf, n, step, o) \in Seq(OfLength(n))
         /\ Len(pwdgen_img_extract(buf, n, step, o)) \in Nat
         /\ (Kinds(o) + 1) * last \in Nat
         /\ step * Len(pwdgen_img_extract(buf, n, step, o))
              <= (Kinds(o) + 1) * last + (step - 1) * (Kinds(o) + 1)
<1> DEFINE k == Kinds(o) + 1
           e == pwdgen_img_extract(buf, n, step, o)
           L == Len(buf)
<1>1. k \in Nat /\ L \in Nat /\ k * last \in Nat
  <2>1. k \in Nat
    BY KindsCounted
  <2> HIDE DEF k
  <2> QED BY <2>1
<1>2. CASE L <= n
  <2>1. e = << >>
    BY <1>2, NoRoom
  <2>2. e \in Seq(OfLength(n)) /\ Len(e) = 0
    <3> HIDE DEF e
    <3> QED BY <2>1
  <2>3. step * Len(e) = 0
    BY <2>2
  <2>4. (step - 1) * k \in Nat
    <3> HIDE DEF k
    <3>1. CASE step = 1
      BY <1>1, <3>1
    <3>2. CASE step = 2
      BY <1>1, <3>2
    <3> QED BY <3>1, <3>2
  <2> HIDE DEF e, k
  <2> QED BY <1>1, <2>2, <2>3, <2>4, SMTT(30) DEF e, k
<1>3. CASE ~(L <= n)
  <2> DEFINE here == L - n
  <2>1. e \in Seq(OfLength(n)) /\ step * Len(e) <= k * (here + step - 1)
    <3>1. L > n
      BY <1>1, <1>3
    <3> QED BY <3>1, APass
  <2>2. here \in Nat /\ here <= last
    BY <1>1, <1>3
  <2>3. Len(e) \in Nat
    <3> HIDE DEF e
    <3> QED BY <2>1
  <2> HIDE DEF here, e, k, L
  <2>4. k * (here + step - 1) = k * here + (step - 1) * k
    <3>1. CASE step = 1
      BY <1>1, <2>2, <3>1
    <3>2. CASE step = 2
      BY <1>1, <2>2, <3>2
    <3> QED BY <3>1, <3>2
  <2>5. k * here <= k * last /\ k * here \in Nat
    <3>1. here + 0 <= last /\ 0 \in Nat
      BY <2>2
    <3>2. /\ k * here \in Nat /\ k * last \in Nat /\ 0 * k \in Nat
          /\ k * here + 0 * k <= k * last
      BY <1>1, <2>2, <3>1, Times
    <3>3. 0 * k = 0
      BY <1>1
    <3> QED BY <3>2, <3>3
  <2>6. (step - 1) * k \in Nat
    <3>1. CASE step = 1
      BY <1>1, <3>1
    <3>2. CASE step = 2
      BY <1>1, <3>2
    <3> QED BY <3>1, <3>2
  <2>7. step * Len(e) <= k * last + (step - 1) * k
    <3> DEFINE a == step * Len(e)
               b == k * (here + step - 1)
               c == k * here
               d == (step - 1) * k
               f == k * last
    <3>1. /\ a \in Nat /\ c \in Nat /\ d \in Nat /\ f \in Nat /\ b = c + d /\ a <= b /\ c <= f
      BY <1>1, <2>1, <2>3, <2>4, <2>5, <2>6
    <3> HIDE DEF a, b, c, d, f
    <3>2. a <= f + d
      BY <3>1
    <3> QED BY <3>2 DEF a, d, f
  <2> QED BY <1>1, <2>1, <2>3, <2>7 DEF e, k
<1> QED BY <1>2, <1>3

\* The strings of a block, whatever passes are asked for.
Passes(o) == IF o.even_odd THEN 2 ELSE 1

LEMMA AllPasses ==
  ASSUME NEW n \in Nat, NEW buf \in Seq(Byte), NEW o, GoodOpt(o), NEW last \in Nat, Len(buf) - n <= last
  PROVE  /\ Extracted(buf, n, o) \in Seq(OfLength(n))
         /\ Len(Extracted(buf, n, o)) < (last + 1) * Passes(o) * (Kinds(o) + 1)
<1> DEFINE k == Kinds(o) + 1
           y == k * last
           C == Seq(OfLength(n))
<1>1. k \in Nat /\ k >= 1 /\ y \in Nat
  <2>1. k \in Nat /\ k >= 1
    BY KindsCounted
  <2> HIDE DEF k
  <2> QED BY <2>1
<1>2. (last + 1) * Passes(o) * k = IF o.even_odd THEN 2 * y + 2 * k ELSE y + k
  <2> HIDE DEF k
  <2>1. (last + 1) * 2 * k = 2 * y + 2 * k
    BY <1>1
  <2>2. (last + 1) * 1 * k = y + k
    BY <1>1
  <2> HIDE DEF y
  <2> QED BY <2>1, <2>2 DEF Passes
<1>3. CASE o.utf8
  <2> DEFINE e == pwdgen_img_extract_utf8(buf, n, o)
  <2>1. Extracted(buf, n, o) = e
    BY <1>3 DEF Extracted
  <2>2. e \in C /\ Len(e) <= y
    <3>1. CASE Len(buf) <= n
      <4>1. e = << >>
        BY <3>1, NoRoom
      <4> HIDE DEF e, y
      <4> QED BY <1>1, <4>1
    <3>2. CASE ~(Len(buf) <= n)
      <4> DEFINE here == Len(buf) - n
      <4>1. Len(buf) > n
        BY <3>2
      <4>2. e \in C /\ Len(e) <= k * here
        BY <4>1, AUtf8Pass
      <4>3. here \in Nat /\ here + 0 <= last
        BY <4>1
      <4> HIDE DEF here, e, k
      <4>4. k * here \in Nat /\ k * here + 0 * k <= k * last
        BY <1>1, <4>3, Times
      <4>5. k * here <= y
        BY <1>1, <4>4
      <4>6. Len(e) \in Nat
        BY <4>2
      <4> HIDE DEF y
      <4> QED BY <1>1, <4>2, <4>4, <4>5, <4>6
    <3> QED BY <3>1, <3>2
  <2>3. Len(e) \in Nat
    <3> HIDE DEF e
    <3> QED BY <2>2
  <2> HIDE DEF e, y, k
  <2>4. Len(e) < IF o.even_odd THEN 2 * y + 2 * k ELSE y + k
    BY <1>1, <2>2, <2>3
  <2> QED BY <1>2, <2>1, <2>2, <2>4 DEF k
<1>4. CASE ~o.utf8
  <2> DEFINE a == pwdgen_img_extract(buf, n, 1, o)
             b == IF o.even_odd THEN pwdgen_img_extract(buf, n, 2, o) ELSE << >>
             c == IF o.even_odd /\ Len(buf) > 1 THEN pwdgen_img_extract(Tail(buf), n, 2, o) ELSE << >>
  <2>1. Extracted(buf, n, o) = a \o b \o c
    BY <1>4 DEF Extracted
  <2>2. a \in C /\ Len(a) \in Nat /\ Len(a) <= y
    <3>1. a \in C /\ Len(a) \in Nat /\ 1 * Len(a) <= y + (1 - 1) * k
      BY PassBound
    <3> HIDE DEF a, k, y
    <3> QED BY <1>1, <3>1
  <2>3. /\ b \in C /\ Len(b) \in Nat
        /\ o.even_odd => 2 * Len(b) <= y + k
        /\ ~o.even_odd => Len(b) = 0
    <3>1. CASE o.even_odd
      <4>1. b = pwdgen_img_extract(buf, n, 2, o)
        BY <3>1
      <4>2. b \in C /\ Len(b) \in Nat /\ 2 * Len(b) <= y + (2 - 1) * k
        BY <4>1, PassBound
      <4> HIDE DEF b, k, y
      <4> QED BY <1>1, <3>1, <4>2
    <3>2. CASE ~o.even_odd
      <4>1. b = << >>
        BY <3>2
      <4> HIDE DEF b, k, y
      <4> QED BY <3>2, <4>1
    <3> QED BY <3>1, <3>2
  <2>4. /\ c \in C /\ Len(c) \in Nat
        /\ o.even_odd => 2 * Len(c) <= y + k
        /\ ~o.even_odd => Len(c) = 0
    <3>1. CASE o.even_odd /\ Len(buf) > 1
      <4> DEFINE t == Tail(buf)
      <4>0. t \in Seq(Byte) /\ Len(t) = Len(buf) - 1
        BY <3>1
      <4>1. c = pwdgen_img_extract(t, n, 2, o)
        BY <3>1
      <4>2. Len(t) - n <= last
        BY <4>0
      <4> HIDE DEF t, c
      <4>3. c \in C /\ Len(c) \in Nat /\ 2 * Len(c) <= y + (2 - 1) * k
        BY <4>0, <4>1, <4>2, PassBound
      <4> HIDE DEF k, y
      <4> QED BY <1>1, <3>1, <4>3
    <3>2. CASE ~(o.even_odd /\ Len(buf) > 1)
      <4>1. c = << >>
        BY <3>2
      <4> HIDE DEF c, k, y
      <4>2. c \in C /\ Len(c) = 0
        BY <4>1
      <4> QED BY <1>1, <4>2
    <3> QED BY <3>1, <3>2
  <2> HIDE DEF a, b, c, y, k, C
  <2>5. a \o b \o c \in C /\ Len(a \o b \o c) = Len(a) + Len(b) + Len(c)
    <3> DEFINE ab == a \o b
    <3>1. ab \in C /\ Len(ab) = Len(a) + Len(b)
      BY <2>2, <2>3 DEF C
    <3> HIDE DEF ab
    <3>2. ab \o c \in C /\ Len(ab \o c) = Len(ab) + Len(c)
      BY <2>4, <3>1, JoinedSequences DEF C
    <3> QED BY <3>1, <3>2 DEF ab
  <2>6. Len(a) + Len(b) + Len(c) < IF o.even_odd THEN 2 * y + 2 * k ELSE y + k
    <3>1. CASE o.even_odd
      <4>1. 2 * (Len(a) + Len(b) + Len(c)) <= 2 * y + (y + k) + (y + k)
        BY <1>1, <2>2, <2>3, <2>4, <3>1
      <4>2. Len(a) + Len(b) + Len(c) < 2 * y + 2 * k
        BY <1>1, <2>2, <2>3, <2>4, <4>1
      <4> QED BY <3>1, <4>2
    <3>2. CASE ~o.even_odd
      <4>1. Len(a) + Len(b) + Len(c) < y + k
        BY <1>1, <2>2, <2>3, <2>4, <3>2
      <4> QED BY <3>2, <4>1
    <3> QED BY <3>1, <3>2
  <2> QED BY <1>2, <2>1, <2>5, <2>6 DEF C, k
<1> QED BY <1>3, <1>4

-----------------------------------------------------------------------------
(***************************************************************************)
(* What is in a list, in its front, and in what is left of it.             *)
(***************************************************************************)
\* What holds for an argument when it holds for all lesser ones, holds for all.
LEMMA AllOf ==
  ASSUME NEW D, NEW m \in [D -> Nat], NEW P,
         \A x \in D : (\A y \in D : m[y] < m[x] => y \in P) => x \in P
  PROVE  \A x \in D : x \in P
<1> DEFINE Bad == {x \in D : x \notin P}
<1> SUFFICES ASSUME Bad # {} PROVE FALSE
  OBVIOUS
<1>1. PICK x \in Bad : \A y \in Bad : m[x] <= m[y]
  <2>1. Bad \in SUBSET D
    OBVIOUS
  <2> HIDE DEF Bad
  <2> QED BY <2>1, LeastOf
<1>2. ASSUME NEW y \in D, m[y] < m[x] PROVE y \in P
  <2>1. m[y] \in Nat /\ m[x] \in Nat
    BY <1>1
  <2>2. y \notin Bad
    BY <1>1, <1>2, <2>1
  <2> QED BY <2>2
<1> QED BY <1>1, <1>2

LEMMA SetOfJoined ==
  ASSUME NEW W, NEW a \in Seq(W), NEW b \in Seq(W)
  PROVE  ToSet(a \o b) = ToSet(a) \cup ToSet(b)
<1> DEFINE s == a \o b
<1>1. /\ DOMAIN a = 1 .. Len(a) /\ DOMAIN b = 1 .. Len(b) /\ DOMAIN s = 1 .. Len(a) + Len(b)
      /\ Len(a) \in Nat /\ Len(b) \in Nat
      /\ \A k \in 1 .. Len(a) : s[k] = a[k]
      /\ \A k \in 1 .. Len(b) : s[Len(a) + k] = b[k]
  OBVIOUS
<1> HIDE DEF s
<1>2. ASSUME NEW k \in DOMAIN s PROVE s[k] \in ToSet(a) \cup ToSet(b)
  <2>1. CASE k \in 1 .. Len(a)
    BY <1>1, <2>1 DEF ToSet
  <2>2. CASE k \notin 1 .. Len(a)
    <3>1. k - Len(a) \in 1 .. Len(b) /\ k = Len(a) + (k - Len(a))
      BY <1>1, <2>2
    <3> QED BY <1>1, <3>1 DEF ToSet
  <2> QED BY <2>1, <2>2
<1>3. ASSUME NEW k \in DOMAIN a PROVE a[k] \in ToSet(s)
  BY <1>1 DEF ToSet
<1>4. ASSUME NEW k \in DOMAIN b PROVE b[k] \in ToSet(s)
  <2>1. Len(a) + k \in DOMAIN s
    BY <1>1
  <2> QED BY <1>1, <2>1 DEF ToSet
<1> QED BY <1>2, <1>3, <1>4 DEF ToSet, s

LEMMA SetInFront ==
  ASSUME NEW W, NEW w \in W, NEW r \in Seq(W)
  PROVE  ToSet(<<w>> \o r) = {w} \cup ToSet(r)
<1> DEFINE a == <<w>>
<1>1. a \in Seq(W) /\ ToSet(a) = {w}
  BY DEF ToSet
<1> HIDE DEF a
<1>2. ToSet(a \o r) = ToSet(a) \cup ToSet(r)
  BY <1>1, SetOfJoined
<1> QED BY <1>1, <1>2 DEF a

\* The strings from position i on.
Onward(s, i) == {s[k] : k \in i .. Len(s)}

LEMMA SetOfSuffix ==
  ASSUME NEW W, NEW a \in Seq(W), NEW i \in 1 .. Len(a) + 1
  PROVE  ToSet(SubSeq(a, i, Len(a))) = Onward(a, i)
<1> DEFINE s == SubSeq(a, i, Len(a))
<1>1. /\ DOMAIN s = 1 .. Len(a) - i + 1 /\ Len(a) \in Nat
      /\ \A k \in 1 .. Len(a) - i + 1 : s[k] = a[k + i - 1]
  OBVIOUS
<1> HIDE DEF s
<1>2. ASSUME NEW k \in DOMAIN s PROVE s[k] \in Onward(a, i)
  <2>1. k + i - 1 \in i .. Len(a)
    BY <1>1
  <2> QED BY <1>1, <2>1 DEF Onward
<1>3. ASSUME NEW k \in i .. Len(a) PROVE a[k] \in ToSet(s)
  <2>1. k - i + 1 \in 1 .. Len(a) - i + 1 /\ (k - i + 1) + i - 1 = k
    BY <1>1
  <2>2. s[k - i + 1] = a[k]
    BY <1>1, <2>1
  <2> QED BY <1>1, <2>1, <2>2 DEF ToSet
<1> QED BY <1>2, <1>3 DEF ToSet, Onward, s

LEMMA OneOnward ==
  ASSUME NEW W, NEW a \in Seq(W), NEW i \in 1 .. Len(a) + 1
  PROVE  /\ i <= Len(a) => Onward(a, i) = {a[i]} \cup Onward(a, i + 1)
         /\ i = Len(a) + 1 => Onward(a, i) = {}
         /\ Onward(a, 1) = ToSet(a)
<1>1. Len(a) \in Nat /\ DOMAIN a = 1 .. Len(a)
  OBVIOUS
<1>2. i <= Len(a) => i .. Len(a) = {i} \cup (i + 1 .. Len(a))
  BY <1>1
<1>3. i = Len(a) + 1 => i .. Len(a) = {}
  BY <1>1
<1> QED BY <1>1, <1>2, <1>3 DEF Onward, ToSet

-----------------------------------------------------------------------------
(***************************************************************************)
(* Which variants a string has.                                            *)
(***************************************************************************)
OneBit(mask) == \E b : mask = {b}

\* What the next mutation is: the least of those to do, and no other of them.
Shifts(todo, mask, next, t) ==
  /\ todo \ next = todo \ {t}
  /\ \A m \in todo : t <= m
  /\ OneBit(mask) => OneBit(next)
  /\ \A w : MutateBy(next, w) = Mutated(t, w) \/ (~OneBit(next) /\ MutateBy(next, w) = w)

LEMMA ShiftedTo ==
  ASSUME NEW todo \in SUBSET Bits, todo # {}, NEW mask \in SUBSET Bits, mask # {},
         \A bit \in mask, m \in todo : bit <= m
  PROVE  \E t \in todo : Shifts(todo, mask, Next_mutation(mask, todo), t)
<1> DEFINE next == Next_mutation(mask, todo)
           k == Min({n \in 0 .. 31 : Shifted(mask, n) \intersect todo # {}})
<1>1. PICK t \in todo : todo \ next = todo \ {t} /\ \A bit \in next, m \in todo : bit <= m
  BY ShiftMeets
<1>2. t \in next /\ next \in SUBSET Bits
  BY <1>1, ShiftMeets
<1>3. next = {b + k : b \in mask}
  BY DEF Next_mutation, Shifted
<1> HIDE DEF next, k
<1>4. OneBit(mask) => OneBit(next)
  BY <1>3 DEF OneBit
<1>5. OneBit(next) => next = {t}
  BY <1>2 DEF OneBit
<1>6. OneBit(next) <=> Cardinality(next) = 1
  <2>1. IsFiniteSet(next)
    BY <1>2, BitsFinite, FS_Subset
  <2> QED BY <2>1, FS_Singleton DEF OneBit
<1>7. Min({t}) = t
  <2>1. {t} \in SUBSET Nat /\ {t} # {}
    BY BitsDown
  <2>2. Min({t}) \in {t}
    BY <2>1, MinOf
  <2> QED BY <2>2
<1>8. \A w : MutateBy(next, w) = Mutated(t, w) \/ (~OneBit(next) /\ MutateBy(next, w) = w)
  <2> TAKE w
  <2>1. CASE OneBit(next)
    <3>1. Cardinality(next) = 1 /\ Min(next) = t
      BY <1>5, <1>6, <1>7, <2>1
    <3>2. MutateBy(next, w) = Mutated(Min(next), w)
      BY <3>1 DEF MutateBy
    <3> QED BY <3>1, <3>2
  <2>2. CASE ~OneBit(next)
    BY <1>6, <2>2 DEF MutateBy
  <2> QED BY <2>1, <2>2
<1>9. Shifts(todo, mask, next, t)
  BY <1>1, <1>2, <1>4, <1>8 DEF Shifts
<1> QED BY <1>9 DEF next

Mutants(w, mutations) == {Mutated(m, w) : m \in mutations}

\* What one stage gives for the mutations still to do.
StageGives(w, todo, start, s) ==
  /\ ToSet(s) \subseteq Mutants(w, todo) \cup {w}
  /\ todo # {} => s # << >>
  /\ OneBit(start) =>
       /\ ToSet(s) = Mutants(w, todo)
       /\ \A x \in todo : (\A y \in todo : y <= x) => Last(s) = Mutated(x, w)

LEMMA LastInFront ==
  ASSUME NEW W, NEW v \in W, NEW r \in Seq(W)
  PROVE  /\ <<v>> \o r # << >>
         /\ r # << >> => Last(<<v>> \o r) = Last(r)
         /\ r = << >> => Last(<<v>> \o r) = v
<1> DEFINE s == <<v>> \o r
<1>1. s \in Seq(W) /\ Len(s) = Len(r) + 1 /\ s[1] = v /\ \A k \in 2 .. Len(r) + 1 : s[k] = r[k - 1]
  BY InFront
<1>2. Len(r) \in Nat /\ (r # << >> => Len(r) >= 1) /\ (r = << >> => Len(r) = 0)
  OBVIOUS
<1> HIDE DEF s
<1>3. r # << >> => s[Len(s)] = r[Len(r)]
  <2> SUFFICES ASSUME r # << >> PROVE s[Len(s)] = r[Len(r)]
    OBVIOUS
  <2>1. Len(r) + 1 \in 2 .. Len(r) + 1 /\ (Len(r) + 1) - 1 = Len(r)
    BY <1>2
  <2> QED BY <1>1, <2>1
<1>4. r = << >> => s[Len(s)] = v
  BY <1>1, <1>2
<1>5. s # << >>
  BY <1>1, <1>2
<1> QED BY <1>3, <1>4, <1>5 DEF Last, s

LEMMA StageContent ==
  ASSUME NEW n \in Nat, NEW w \in OfLength(n), NEW mutations \in SUBSET Bits, NEW start \in SUBSET Bits,
         start # {}, \A bit \in start, m \in mutations : bit <= m
  PROVE  StageGives(w, mutations, start, InOneStage(w, mutations, start))
<1> DEFINE D == Pending(mutations)
           m == Many(mutations)
           W == OfLength(n)
           rest(p) == <<p[1] \ Next_mutation(p[2], p[1]), Next_mutation(p[2], p[1])>>
<1>1. PICK f : Staging(w, mutations, f) /\ InOneStage(w, mutations, start) = f[<<mutations, start>>]
  <2>1. PICK g : Staging(w, mutations, g)
    BY StageExists
  <2> QED BY <2>1, StagedBy
<1> DEFINE P == {p \in D : f[p] \in Seq(W) /\ StageGives(w, p[1], p[2], f[p])}
<1>2. m \in [D -> Nat]
  <2>1. \A p \in D : m[p] \in Nat
    <3>1. \A p \in D : m[p] \in 0 .. Cardinality(mutations)
      BY OnePending
    <3> HIDE DEF m, D
    <3> QED BY <3>1
  <2>2. m = [p \in D |-> m[p]]
    BY DEF Many
  <2> HIDE DEF m, D
  <2> QED BY <2>1, <2>2
<1>3. ASSUME NEW p \in D, \A x \in D : m[x] < m[p] => x \in P
      PROVE  p \in P
  <2> DEFINE todo == p[1]
             mask == p[2]
             next == Next_mutation(mask, todo)
             v == MutateBy(next, w)
             r == f[<<todo \ next, next>>]
  <2>1. f[p] = IF todo = {} THEN << >> ELSE <<v>> \o r
    BY <1>1, <1>3 DEF Staging, StageStep
  <2>2. CASE todo = {}
    <3>1. f[p] = << >> /\ << >> \in Seq(W) /\ ToSet(<< >>) = {}
      BY <2>1, <2>2 DEF ToSet
    <3>2. StageGives(w, todo, mask, << >>)
      BY <2>2, <3>1 DEF StageGives, Mutants
    <3> QED BY <1>3, <3>1, <3>2
  <2>3. CASE todo # {}
    <3>1. /\ <<todo \ next, next>> \in D
          /\ m[<<todo \ next, next>>] < m[p]
      <4>1. <<todo \ next, next>> \in D /\ m[<<todo \ next, next>>] = m[p] - 1
        BY <1>3, <2>3, OnePending
      <4>2. m[p] \in Nat
        BY <1>2, <1>3
      <4> HIDE DEF m, next, todo, D
      <4> QED BY <4>1, <4>2
    <3>2. <<todo \ next, next>> \in P
      <4> HIDE DEF P, D, m, todo, next
      <4> QED BY <1>3, <3>1
    <3>3. r \in Seq(W) /\ StageGives(w, todo \ next, next, r)
      BY <3>2
    <3>4. v \in W
      BY MutateByLength
    <3>5. /\ todo \in SUBSET Bits /\ mask \in SUBSET Bits /\ mask # {}
          /\ \A bit \in mask, x \in todo : bit <= x
      BY <1>3 DEF Pending
    <3>13. \E t \in todo : Shifts(todo, mask, next, t)
      <4> HIDE DEF todo, mask
      <4> QED BY <2>3, <3>5, ShiftedTo
    <3>6. PICK t \in todo : /\ todo \ next = todo \ {t}
                            /\ \A x \in todo : t <= x
                            /\ OneBit(mask) => OneBit(next)
                            /\ v = Mutated(t, w) \/ (~OneBit(next) /\ v = w)
      <4> HIDE DEF next, todo, mask
      <4> QED BY <3>13 DEF Shifts
    <3> HIDE DEF v, r, next, todo, mask, W
    <3>7. f[p] \in Seq(W) /\ ToSet(f[p]) = {v} \cup ToSet(r) /\ f[p] # << >>
      BY <2>1, <2>3, <3>3, <3>4, InFront, SetInFront, LastInFront
    <3>8. Mutants(w, todo) = {Mutated(t, w)} \cup Mutants(w, todo \ {t})
      BY <3>6 DEF Mutants
    <3>9. ToSet(f[p]) \subseteq Mutants(w, todo) \cup {w}
      BY <3>3, <3>6, <3>7, <3>8 DEF StageGives
    <3>10. OneBit(mask) => ToSet(f[p]) = Mutants(w, todo)
      BY <3>3, <3>6, <3>7, <3>8 DEF StageGives
    <3>11. ASSUME OneBit(mask), NEW x \in todo, \A y \in todo : y <= x
           PROVE  Last(f[p]) = Mutated(x, w)
      <4>1. f[p] = <<v>> \o r /\ v = Mutated(t, w) /\ OneBit(next)
        BY <2>1, <2>3, <3>6, <3>11
      <4>2. CASE x = t
        <5>1. todo \ next = {}
          <6>1. \A y \in todo : y = t
            <7> TAKE y \in todo
            <7>1. y <= t /\ t <= y /\ y \in Nat /\ t \in Nat
              BY <3>5, <3>6, <3>11, <4>2, BitsDown
            <7> QED BY <7>1
          <6> QED BY <3>6, <6>1
        <5>2. ToSet(r) = {}
          BY <3>3, <4>1, <5>1 DEF StageGives, Mutants
        <5>3. r = << >>
          <6>1. r # << >> => 1 \in DOMAIN r
            BY <3>3
          <6> QED BY <5>2, <6>1 DEF ToSet
        <5>4. Last(<<v>> \o r) = v
          BY <3>3, <3>4, <5>3, LastInFront
        <5> QED BY <4>1, <4>2, <5>4
      <4>3. CASE x # t
        <5>1. x \in todo \ next /\ \A y \in todo \ next : y <= x
          BY <3>6, <3>11, <4>3
        <5>2. r # << >> /\ Last(r) = Mutated(x, w)
          BY <3>3, <4>1, <5>1 DEF StageGives
        <5> QED BY <3>3, <3>4, <4>1, <5>2, LastInFront
      <4> QED BY <4>2, <4>3
    <3>12. StageGives(w, todo, mask, f[p])
      BY <3>7, <3>9, <3>10, <3>11 DEF StageGives
    <3> HIDE DEF D
    <3> QED BY <1>3, <3>7, <3>12 DEF todo, mask
  <2> QED BY <2>2, <2>3
<1>4. <<mutations, start>> \in D
  BY DEF Pending
<1>5. <<mutations, start>> \in P
  <2> HIDE DEF P, D, m
  <2> QED BY <1>2, <1>3, <1>4, AllOf
<1> QED BY <1>1, <1>5

\* The greatest mutation is made last.
Greatest(o, x) == x \in o.mutations /\ \A y \in o.mutations : y <= x

LEMMA HasGreatest ==
  ASSUME NEW o, GoodOpt(o)
  PROVE  \E x : Greatest(o, x)
<1>1. o.mutations \in SUBSET (0 .. 31) /\ o.mutations # {}
  BY DEF GoodOpt, Bits
<1> QED BY <1>1, MaxOf DEF Greatest

\* The strings that one stage gives, and the last of them.
LEMMA StageOf ==
  ASSUME NEW n \in Nat, NEW w \in OfLength(n), NEW o, GoodOpt(o)
  PROVE  /\ StageGives(w, o.mutations, {0}, InOneStage(w, o.mutations, {0}))
         /\ StageGives(w, o.mutations, first_mutation(o.mutations),
                       InOneStage(w, o.mutations, first_mutation(o.mutations)))
         /\ InOneStage(w, o.mutations, {0}) \in Seq(OfLength(n))
         /\ InOneStage(w, o.mutations, first_mutation(o.mutations)) \in Seq(OfLength(n))
<1>1. o.mutations \in SUBSET Bits
  BY DEF GoodOpt
<1>2. {0} \in SUBSET Bits /\ {0} # {} /\ \A bit \in {0}, m \in o.mutations : bit <= m
  <2>1. \A m \in o.mutations : m \in Nat
    BY <1>1, BitsDown
  <2>2. 0 \in Bits
    BY DEF Bits
  <2> QED BY <2>1, <2>2
<1> DEFINE first == first_mutation(o.mutations)
<1>3. first \in SUBSET Bits /\ first # {} /\ \A bit \in first, m \in o.mutations : bit <= m
  BY FirstMask
<1> HIDE DEF first
<1>4. /\ StageGives(w, o.mutations, {0}, InOneStage(w, o.mutations, {0}))
      /\ InOneStage(w, o.mutations, {0}) \in Seq(OfLength(n))
  BY <1>1, <1>2, StageContent, OneForEachMutation
<1>5. /\ StageGives(w, o.mutations, first, InOneStage(w, o.mutations, first))
      /\ InOneStage(w, o.mutations, first) \in Seq(OfLength(n))
  BY <1>1, <1>3, StageContent, OneForEachMutation
<1> QED BY <1>4, <1>5 DEF first

\* A string has variants of its stages only; in the first stage each mutation is made,
\* the greatest last, and where nothing is changed each stage gives its string.
LEMMA VariantsContent ==
  ASSUME NEW n \in Nat, NEW w \in OfLength(n), NEW o, GoodOpt(o)
  PROVE  /\ Variants(w, o) \in Seq(OfLength(n)) /\ Variants(w, o) # << >>
         /\ ToSet(Variants(w, o)) \subseteq VariantsMade(w, o)
         /\ o.stages = {0} =>
              /\ ToSet(Variants(w, o)) = Mutants(w, o.mutations)
              /\ \A x : Greatest(o, x) => Last(Variants(w, o)) = Mutated(x, w)
         /\ o.mutations = {DICT_ORIGINAL} =>
              ToSet(Variants(w, o)) = {Staged(st, w) : st \in o.stages}
<1> DEFINE W == OfLength(n)
           Stage(s, start) == InOneStage(Staged(s, w), o.mutations, start)
           first == first_mutation(o.mutations)
           v == Variants(w, o)
<1>1. \A s : Staged(s, w) \in W
  BY StagedLength
<1>2. \A s, start : start \in {{0}, first} =>
        /\ Stage(s, start) \in Seq(W)
        /\ StageGives(Staged(s, w), o.mutations, start, Stage(s, start))
  BY <1>1, StageOf
<1>3. v \in Seq(W) /\ v # << >>
  <2>1. v \in Seq(W) /\ Len(v) = Kinds(o) /\ Kinds(o) \in Nat \ {0}
    BY VariantsCount, KindsCounted
  <2> QED BY <2>1
<1>4. /\ o.stages = {0} => v = Stage(0, {0})
      /\ o.stages = {1} => v = Stage(1, {0})
      /\ o.stages = {0, 1} => v = Stage(0, {0}) \o Stage(1, first)
  <2>1. o.stages = {0} => v = Stage(0, {0})
    BY DEF Variants
  <2>2. o.stages = {1} => v = Stage(1, {0})
    BY DEF Variants
  <2>3. o.stages = {0, 1} => v = Stage(0, {0}) \o Stage(1, first)
    BY DEF Variants
  <2> QED BY <2>1, <2>2, <2>3
<1>5. OneBit({0}) /\ Staged(0, w) = w
  BY DEF OneBit, Staged, DICT_REVERSE
<1>6. o.mutations # {} /\ o.stages \in {{0}, {1}, {0, 1}}
  BY KindsCounted DEF GoodOpt
<1> HIDE DEF Stage, first, v
<1>7. ASSUME NEW st \in {0, 1}, NEW start \in {{0}, first}
      PROVE  /\ ToSet(Stage(st, start)) \subseteq Mutants(Staged(st, w), o.mutations) \cup {Staged(st, w)}
             /\ o.mutations = {DICT_ORIGINAL} => ToSet(Stage(st, start)) = {Staged(st, w)}
  <2>1. Stage(st, start) \in Seq(W) /\ StageGives(Staged(st, w), o.mutations, start, Stage(st, start))
    BY <1>2
  <2>2. o.mutations = {DICT_ORIGINAL} => Mutants(Staged(st, w), o.mutations) = {Staged(st, w)}
    BY DEF Mutants, Mutated
  <2>3. Stage(st, start) # << >>
    BY <1>6, <2>1 DEF StageGives
  <2>4. ToSet(Stage(st, start)) # {}
    <3>1. 1 \in DOMAIN Stage(st, start)
      BY <2>1, <2>3
    <3> QED BY <3>1 DEF ToSet
  <2> QED BY <2>1, <2>2, <2>4 DEF StageGives
<1>8. /\ o.stages = {0} => ToSet(v) = ToSet(Stage(0, {0}))
      /\ o.stages = {1} => ToSet(v) = ToSet(Stage(1, {0}))
      /\ o.stages = {0, 1} => ToSet(v) = ToSet(Stage(0, {0})) \cup ToSet(Stage(1, first))
  <2> DEFINE a == Stage(0, {0})
             b == Stage(1, first)
  <2>1. a \in Seq(W) /\ b \in Seq(W)
    BY <1>2
  <2> HIDE DEF a, b, W
  <2>2. ToSet(a \o b) = ToSet(a) \cup ToSet(b)
    BY <2>1, SetOfJoined
  <2> QED BY <1>4, <2>2 DEF a, b
<1>9. \A st \in o.stages : Mutants(Staged(st, w), o.mutations) \cup {Staged(st, w)} \subseteq VariantsMade(w, o)
  BY DEF VariantsMade, VariantsDue, Mutants
<1>10. ToSet(v) \subseteq VariantsMade(w, o)
  BY <1>6, <1>7, <1>8, <1>9
<1>11. ASSUME o.stages = {0}
       PROVE  /\ ToSet(v) = Mutants(w, o.mutations)
              /\ \A x : Greatest(o, x) => Last(v) = Mutated(x, w)
  <2>1. v = Stage(0, {0}) /\ StageGives(w, o.mutations, {0}, v)
    BY <1>2, <1>4, <1>5, <1>11
  <2> QED BY <1>5, <2>1 DEF StageGives, Greatest
<1>12. o.mutations = {DICT_ORIGINAL} => ToSet(v) = {Staged(st, w) : st \in o.stages}
  BY <1>6, <1>7, <1>8
<1> QED BY <1>3, <1>10, <1>11, <1>12 DEF v

\* The variants that are promised.
Asked(s, o) == IF VariantsComplete(o) THEN VariantsDue(s, o) ELSE {s}

\* A string that the case mappings are known of.
Fit(w, o) == ToSet(w) \subseteq o.valid \/ o.mutations = {DICT_ORIGINAL}

\* The last string is the last variant of one that has all its variants in the list.
Closed(list, n, o) ==
  list = << >> \/ \E w \in OfLength(n) :
    /\ Fit(w, o)
    /\ {w} \cup ToSet(Variants(w, o)) \subseteq ToSet(list)
    /\ Last(list) = Last(Variants(w, o))

LEMMA LastIsIn ==
  ASSUME NEW W, NEW s \in Seq(W), s # << >>
  PROVE  Last(s) \in ToSet(s) /\ Last(s) \in W
<1>1. Len(s) \in DOMAIN s
  OBVIOUS
<1> QED BY <1>1 DEF Last, ToSet

LEMMA ReversedTwice ==
  ASSUME NEW n \in Nat, NEW w \in OfLength(n)
  PROVE  Reverse(Reverse(w)) = w
<1> DEFINE r == Reverse(w)
<1>1. Len(w) = n /\ w = [i \in 1 .. n |-> w[i]]
  BY LengthOf DEF OfLength
<1>2. r = [i \in 1 .. n |-> w[(n - i) + 1]]
  BY <1>1 DEF Reverse
<1>3. r \in OfLength(n)
  BY StagedLength DEF Staged
<1>4. Len(r) = n
  BY <1>3, LengthOf
<1> HIDE DEF r
<1>5. Reverse(r) = [i \in 1 .. n |-> r[(n - i) + 1]]
  BY <1>4 DEF Reverse
<1>6. \A i \in 1 .. n : r[(n - i) + 1] = w[i]
  <2> TAKE i \in 1 .. n
  <2>1. (n - i) + 1 \in 1 .. n /\ (n - ((n - i) + 1)) + 1 = i
    OBVIOUS
  <2> QED BY <1>2, <2>1
<1>7. Reverse(r) = [i \in 1 .. n |-> w[i]]
  BY <1>5, <1>6
<1> QED BY <1>1, <1>7 DEF r

\* Where the case mappings agree, it does not matter how a string was written before.
LEMMA MutatedTwice ==
  ASSUME NEW n \in Nat, NEW w \in OfLength(n), NEW o, ToSet(w) \subseteq o.valid, CasesAgree(o),
         NEW x, x # DICT_ORIGINAL, NEW m \in 0 .. 10
  PROVE  m # DICT_ORIGINAL => Mutated(m, Mutated(x, w)) = Mutated(m, w)
<1> SUFFICES ASSUME m # DICT_ORIGINAL PROVE Mutated(m, Mutated(x, w)) = Mutated(m, w)
  OBVIOUS
<1> DEFINE v == Mutated(x, w)
           Case(u, U, i) == IF i \in U THEN Upper[u[i]] ELSE Lower[u[i]]
<1>1. Len(w) = n /\ DOMAIN w = 1 .. n
  BY LengthOf DEF OfLength
<1>2. v = [i \in 1 .. n |-> Case(w, Uppercased(x, w), i)]
  BY <1>1 DEF Mutated
<1>3. Len(v) = n
  BY MutatedLength, LengthOf
<1> HIDE DEF v
<1>4. \A i \in 1 .. n : w[i] \in o.valid
  BY <1>1 DEF ToSet
<1>5. \A i \in 1 .. n : Lower[v[i]] = Lower[w[i]] /\ Upper[v[i]] = Upper[w[i]]
  BY <1>2, <1>4 DEF CasesAgree
<1>6. Uppercased(m, v) = Uppercased(m, w)
  <2>1. \A i \in 1 .. n : Lower[v[i]] \in Vowels <=> Lower[w[i]] \in Vowels
    BY <1>5
  <2>2. m \in {0, 1, 2, 3, 4, 5, 6, 7, 8, 9}
    BY DEF DICT_ORIGINAL
  <2>3. {i \in 1 .. n : Lower[v[i]] \in Vowels} = {i \in 1 .. n : Lower[w[i]] \in Vowels}
    BY <2>1
  <2>4. {i \in 1 .. n : ~(Lower[v[i]] \in Vowels)} = {i \in 1 .. n : ~(Lower[w[i]] \in Vowels)}
    BY <2>1
  <2> QED BY <1>1, <1>3, <2>2, <2>3, <2>4 DEF Uppercased
<1> DEFINE U == Uppercased(m, w)
<1>7. Mutated(m, v) = [i \in 1 .. n |-> Case(v, U, i)] /\ Mutated(m, w) = [i \in 1 .. n |-> Case(w, U, i)]
  BY <1>1, <1>3, <1>6 DEF Mutated
<1> HIDE DEF U
<1>8. \A i \in 1 .. n : Case(v, U, i) = Case(w, U, i)
  BY <1>5
<1> HIDE DEF Case
<1>9. Mutated(m, v) = Mutated(m, w)
  BY <1>7, <1>8
<1> QED BY <1>9 DEF v

LEMMA StagedTwice ==
  ASSUME NEW n \in Nat, NEW w \in OfLength(n), NEW stages, stages \in {{0}, {1}, {0, 1}}
  PROVE  \A s, t \in stages : \/ Staged(t, Staged(s, w)) = w
                              \/ \E u \in stages : Staged(t, Staged(s, w)) = Staged(u, w)
<1>1. \A u : Staged(0, u) = u /\ Staged(1, u) = Reverse(u)
  BY DEF Staged, DICT_REVERSE
<1>2. Reverse(Reverse(w)) = w
  BY ReversedTwice
<1>3. CASE stages = {0}
  BY <1>1, <1>3
<1>4. CASE stages = {1}
  BY <1>1, <1>2, <1>4
<1>5. CASE stages = {0, 1}
  BY <1>1, <1>2, <1>5
<1> QED BY <1>3, <1>4, <1>5

\* The variants promised for the last variant of a string are variants of that string.
LEMMA NothingMissed ==
  ASSUME NEW n \in Nat, NEW w \in OfLength(n), NEW o, GoodOpt(o), Fit(w, o)
  PROVE  Asked(Last(Variants(w, o)), o) \subseteq {w} \cup ToSet(Variants(w, o))
<1> DEFINE v == Last(Variants(w, o))
           V == ToSet(Variants(w, o))
<1>1. v \in V /\ v \in OfLength(n)
  BY VariantsContent, LastIsIn
<1>2. \A u : Staged(0, u) = u
  BY DEF Staged, DICT_REVERSE
<1>3. CASE ~VariantsComplete(o)
  BY <1>1, <1>3 DEF Asked
<1>4. CASE o.mutations = {DICT_ORIGINAL}
  <2>1. V = {Staged(st, w) : st \in o.stages} /\ o.stages \in {{0}, {1}, {0, 1}}
    BY <1>4, VariantsContent, KindsCounted
  <2> HIDE DEF v, V
  <2>2. {Staged(st, v) : st \in o.stages} \subseteq {w} \cup V
    <3>1. \A s, t \in o.stages : \/ Staged(t, Staged(s, w)) = w
                                  \/ \E u \in o.stages : Staged(t, Staged(s, w)) = Staged(u, w)
      BY <2>1, StagedTwice
    <3>2. PICK s \in o.stages : v = Staged(s, w)
      BY <1>1, <2>1
    <3> QED BY <2>1, <3>1, <3>2
  <2>3. \A m \in o.mutations : \A u : Mutated(m, u) = u
    BY <1>4 DEF Mutated
  <2>4. VariantsDue(v, o) \subseteq {v} \cup {Staged(st, v) : st \in o.stages}
    BY <2>3 DEF VariantsDue
  <2>5. Asked(v, o) \subseteq {w} \cup V
    BY <1>1, <2>2, <2>4 DEF Asked
  <2> QED BY <2>5 DEF v, V
<1>5. CASE VariantsComplete(o) /\ o.mutations # {DICT_ORIGINAL}
  <2>1. o.stages = {0} /\ (DICT_ORIGINAL \in o.mutations \/ CasesAgree(o)) /\ ToSet(w) \subseteq o.valid
    BY <1>5 DEF VariantsComplete, Fit
  <2>2. PICK x : Greatest(o, x)
    BY HasGreatest
  <2>3. V = Mutants(w, o.mutations) /\ v = Mutated(x, w)
    BY <2>1, <2>2, VariantsContent
  <2> HIDE DEF v, V
  <2>4. VariantsDue(v, o) = {v} \cup Mutants(v, o.mutations)
    BY <1>2, <2>1 DEF VariantsDue, Mutants
  <2>5. x \in o.mutations /\ \A m \in o.mutations : m \in 0 .. 10 /\ m <= x
    <3>1. \A m \in o.mutations : m \in Nat /\ m <= 10
      BY BitsDown DEF GoodOpt
    <3> QED BY <2>2, <3>1 DEF Greatest
  <2>6. CASE x = DICT_ORIGINAL
    <3>1. v = w
      BY <2>3, <2>6 DEF Mutated
    <3> QED BY <1>5, <2>3, <2>4, <3>1 DEF Asked, v, V
  <2>7. CASE x # DICT_ORIGINAL
    <3>1. DICT_ORIGINAL \notin o.mutations
      <4>1. DICT_ORIGINAL \in o.mutations => 10 <= x /\ x \in 0 .. 10
        BY <2>5 DEF DICT_ORIGINAL
      <4> QED BY <2>7, <4>1 DEF DICT_ORIGINAL
    <3>2. \A m \in o.mutations : Mutated(m, v) = Mutated(m, w)
      BY <2>1, <2>3, <2>5, <2>7, <3>1, MutatedTwice
    <3>3. Mutants(v, o.mutations) = V
      BY <2>3, <3>2 DEF Mutants
    <3> QED BY <1>1, <1>5, <2>4, <3>3 DEF Asked, v, V
  <2> QED BY <2>6, <2>7
<1> QED BY <1>3, <1>4, <1>5

\* A string is put into a list with all variants it is promised, which are there
\* already when it is the last one; and nothing else is put into it.
LEMMA StringKept ==
  ASSUME NEW n \in Nat, NEW list \in Seq(OfLength(n)), NEW w \in OfLength(n), NEW o, GoodOpt(o),
         Fit(w, o), Closed(list, n, o)
  PROVE  /\ Closed(AddString(list, w, o), n, o)
         /\ ToSet(list) \cup Asked(w, o) \subseteq ToSet(AddString(list, w, o))
         /\ ToSet(AddString(list, w, o)) \subseteq ToSet(list) \cup VariantsMade(w, o)
<1> DEFINE W == OfLength(n)
           v == Variants(w, o)
<1>1. CASE list # << >> /\ Last(list) = w
  <2>1. AddString(list, w, o) = list
    BY <1>1 DEF AddString
  <2>2. PICK u \in OfLength(n) : /\ Fit(u, o)
                                 /\ {u} \cup ToSet(Variants(u, o)) \subseteq ToSet(list)
                                 /\ Last(list) = Last(Variants(u, o))
    BY <1>1 DEF Closed
  <2>3. Asked(w, o) \subseteq {u} \cup ToSet(Variants(u, o))
    BY <1>1, <2>2, NothingMissed
  <2> QED BY <2>1, <2>2, <2>3
<1>2. CASE ~(list # << >> /\ Last(list) = w)
  <2> DEFINE r == list \o <<w>> \o v
             b == <<w>>
  <2>1. AddString(list, w, o) = r
    BY <1>2 DEF AddString
  <2>2. v \in Seq(W) /\ v # << >> /\ ToSet(v) \subseteq VariantsMade(w, o)
    BY VariantsContent
  <2>3. b \in Seq(W) /\ ToSet(b) = {w}
    BY DEF ToSet
  <2> HIDE DEF b, v, W
  <2>4. list \o b \in Seq(W) /\ ToSet(list \o b) = ToSet(list) \cup {w}
    BY <2>3, SetOfJoined DEF W
  <2> DEFINE a == list \o b
  <2>5. a \in Seq(W) /\ r = a \o v
    BY <2>4 DEF b
  <2> HIDE DEF a
  <2>6. ToSet(r) = ToSet(a) \cup ToSet(v)
    <3>1. ToSet(a \o v) = ToSet(a) \cup ToSet(v)
      BY <2>2, <2>5, SetOfJoined
    <3> HIDE DEF r
    <3> QED BY <2>5, <3>1
  <2>7. Last(r) = Last(v) /\ r # << >>
    <3> HIDE DEF r
    <3>1. /\ Len(r) = Len(a) + Len(v) /\ Len(v) \in Nat /\ Len(a) \in Nat /\ Len(v) >= 1
          /\ \A k \in 1 .. Len(v) : r[Len(a) + k] = v[k]
      BY <2>2, <2>5
    <3>2. r[Len(a) + Len(v)] = v[Len(v)]
      BY <3>1
    <3>3. r # << >>
      BY <3>1
    <3> QED BY <3>1, <3>2, <3>3 DEF Last
  <2> HIDE DEF r
  <2>8. ToSet(r) = ToSet(list) \cup {w} \cup ToSet(v)
    BY <2>4, <2>6 DEF a
  <2>9. Closed(r, n, o)
    BY <2>7, <2>8 DEF Closed, v
  <2>10. Asked(w, o) \subseteq {w} \cup ToSet(v)
    <3>1. CASE o.mutations = {DICT_ORIGINAL}
      <4>1. ToSet(v) = {Staged(st, w) : st \in o.stages}
        BY <3>1, VariantsContent DEF v
      <4>2. \A m \in o.mutations : \A u : Mutated(m, u) = u
        BY <3>1 DEF Mutated
      <4>3. VariantsDue(w, o) \subseteq {w} \cup {Staged(st, w) : st \in o.stages}
        BY <4>2 DEF VariantsDue
      <4> QED BY <4>1, <4>3 DEF Asked
    <3>2. CASE o.stages = {0}
      <4>1. ToSet(v) = Mutants(w, o.mutations)
        BY <3>2, VariantsContent DEF v
      <4>2. Staged(0, w) = w
        BY DEF Staged, DICT_REVERSE
      <4> QED BY <3>2, <4>1, <4>2 DEF Asked, VariantsDue, Mutants
    <3>3. CASE ~VariantsComplete(o)
      BY <3>3 DEF Asked
    <3> QED BY <3>1, <3>2, <3>3 DEF VariantsComplete
  <2>11. w \in VariantsMade(w, o)
    BY DEF VariantsMade, VariantsDue
  <2> QED BY <2>1, <2>2, <2>8, <2>9, <2>10, <2>11
<1> QED BY <1>1, <1>2

-----------------------------------------------------------------------------
(***************************************************************************)
(* What a walk through a buffer finds.  due[i] are the strings that are    *)
(* due at position i, all the strings that may be made of them.            *)
(***************************************************************************)
Finds(n, last, step, o, due, all, s, i, list) ==
  /\ Closed(list, n, o)
  /\ ToSet(s[2]) \subseteq ToSet(list)
  /\ ToSet(list) \subseteq ToSet(s[2]) \cup all
  /\ \A p \in s[1] .. last : p < i /\ (p - s[1]) % step = 0 =>
       \A t \in due[p] : Asked(t, o) \subseteq ToSet(list)

\* A move misses no position that it passes.
Misses(n, last, step, o, due, all, move) ==
  \A s \in Steps(n) : s[1] <= last /\ Closed(s[2], n, o) =>
    (move[s][1] - s[1]) % step = 0 /\ Finds(n, last, step, o, due, all, s, move[s][1], move[s][2])

LEMMA WalkFinds ==
  ASSUME NEW n \in Nat, NEW last \in Nat, NEW step \in {1, 2}, NEW k, NEW move,
         GoesOn(n, last, step, k, move), NEW f, Walking(n, last, move, f),
         NEW o, NEW due, NEW all, Misses(n, last, step, o, due, all, move)
  PROVE  \A s \in Steps(n) : Closed(s[2], n, o) =>
           Finds(n, last, step, o, due, all, s, last + 1, f[s])
<1> DEFINE m == Ahead(n, last)
           D == Steps(n)
           P == {s \in D : Closed(s[2], n, o) => Finds(n, last, step, o, due, all, s, last + 1, f[s])}
<1>1. m \in [D -> Nat]
  BY AheadType
<1>2. ASSUME NEW s \in D, \A x \in D : m[x] < m[s] => x \in P
      PROVE  s \in P
  <2> SUFFICES ASSUME Closed(s[2], n, o)
               PROVE  Finds(n, last, step, o, due, all, s, last + 1, f[s])
    OBVIOUS
  <2>1. s[1] \in Nat /\ f[s] = IF s[1] > last THEN s[2] ELSE f[move[s]]
    BY AStep DEF Walking
  <2>2. CASE s[1] > last
    <3>1. f[s] = s[2] /\ s[1] .. last = {}
      BY <2>1, <2>2
    <3> QED BY <3>1 DEF Finds
  <2>3. CASE s[1] <= last
    <3> DEFINE r == move[s]
               list == f[s]
    <3>1. r \in D /\ m[r] < m[s]
      BY <2>3, MovesDown
    <3>2. r \in P
      <4> HIDE DEF P, D, m
      <4> QED BY <1>2, <3>1
    <3>3. (r[1] - s[1]) % step = 0 /\ Finds(n, last, step, o, due, all, s, r[1], r[2])
      BY <2>3 DEF Misses
    <3>4. list = f[r] /\ r[1] \in Nat /\ r[1] >= s[1]
      <4>1. r[1] >= s[1] + step
        BY <2>3 DEF GoesOn
      <4>2. r[1] \in Nat
        BY <3>1, AStep
      <4> QED BY <2>1, <2>3, <4>1, <4>2
    <3>5. Finds(n, last, step, o, due, all, r, last + 1, list)
      BY <3>2, <3>3, <3>4 DEF Finds
    <3> HIDE DEF r, list
    <3>6. ASSUME NEW p \in s[1] .. last, (p - s[1]) % step = 0, NEW t \in due[p]
          PROVE  Asked(t, o) \subseteq ToSet(list)
      <4>1. CASE p < r[1]
        <5>1. Asked(t, o) \subseteq ToSet(r[2])
          BY <3>3, <3>6, <4>1 DEF Finds
        <5> QED BY <3>5, <5>1 DEF Finds
      <4>2. CASE p >= r[1]
        <5>1. p \in r[1] .. last /\ p < last + 1
          BY <2>1, <3>4, <3>6, <4>2
        <5>2. (p - r[1]) % step = 0
          <6>1. CASE step = 1
            BY <2>1, <3>3, <3>4, <3>6, <6>1
          <6>2. CASE step = 2
            BY <2>1, <3>3, <3>4, <3>6, <6>2
          <6> QED BY <6>1, <6>2
        <5> QED BY <3>5, <3>6, <5>1, <5>2 DEF Finds
      <4> QED BY <2>1, <3>4, <3>6, <4>1, <4>2
    <3>7. /\ Closed(list, n, o) /\ ToSet(s[2]) \subseteq ToSet(list)
          /\ ToSet(list) \subseteq ToSet(s[2]) \cup all
      BY <3>3, <3>5 DEF Finds
    <3> QED BY <3>6, <3>7 DEF Finds, list
  <2> QED BY <2>1, <2>2, <2>3
<1> HIDE DEF P, D, m
<1>3. \A s \in D : s \in P
  BY <1>1, <1>2, AllOf
<1> QED BY <1>3 DEF P, D

\* A string that is put into the list of a walk.
LEMMA OneFound ==
  ASSUME NEW n \in Nat, NEW o, GoodOpt(o), NEW list \in Seq(OfLength(n)), Closed(list, n, o),
         NEW all, NEW full \in BOOLEAN, NEW w,
         full => w \in OfLength(n) /\ Fit(w, o) /\ VariantsMade(w, o) \subseteq all
  PROVE  LET next == IF full THEN AddString(list, w, o) ELSE list
         IN  /\ Closed(next, n, o) /\ ToSet(list) \subseteq ToSet(next)
             /\ ToSet(next) \subseteq ToSet(list) \cup all
             /\ full => Asked(w, o) \subseteq ToSet(next)
<1>1. CASE full
  BY <1>1, StringKept
<1>2. CASE ~full
  BY <1>2
<1> QED BY <1>1, <1>2

-----------------------------------------------------------------------------
(***************************************************************************)
(* When invalid bytes end a string.                                        *)
(***************************************************************************)
\* The bytes of a buffer from position i on, each step-th one.
Places(buf, i, step) == (Len(buf) - i) \div step + 1

LEMMA EachByte ==
  ASSUME NEW buf \in Seq(Byte), NEW i \in 1 .. Len(buf), NEW step \in {1, 2}
  PROVE  /\ EveryNth(SubSeq(buf, i, Len(buf)), step) = ByteSeq(buf, i, Places(buf, i, step), step)
         /\ Places(buf, i, step) \in Nat
         /\ \A k \in 1 .. Places(buf, i, step) : i + (k - 1) * step \in i .. Len(buf)
         /\ \A k \in Nat \ {0} : i + (k - 1) * step <= Len(buf) => k \in 1 .. Places(buf, i, step)
<1> DEFINE L == Len(buf)
           rest == SubSeq(buf, i, L)
           c == Places(buf, i, step)
<1>1. i \in Nat /\ L \in Nat /\ i >= 1 /\ i <= L
  OBVIOUS
<1>2. Len(rest) = L - i + 1 /\ \A k \in 1 .. L - i + 1 : rest[k] = buf[k + i - 1]
  <2>1. i \in 1 .. Len(buf) + 1
    BY <1>1
  <2> QED BY <2>1, Suffix
<1>3. c = (L - i) \div step + 1
  BY DEF Places
<1> HIDE DEF L, rest, c
<1>4. (Len(rest) + step - 1) \div step = c
  <2>1. CASE step = 1
    BY <1>1, <1>2, <1>3, <2>1
  <2>2. CASE step = 2
    BY <1>1, <1>2, <1>3, <2>2
  <2> QED BY <2>1, <2>2
<1>5. c \in Nat /\ \A k \in 1 .. c : i + (k - 1) * step \in i .. L
  <2>1. CASE step = 1
    BY <1>1, <1>3, <2>1
  <2>2. CASE step = 2
    BY <1>1, <1>3, <2>2
  <2> QED BY <2>1, <2>2
<1>6. \A k \in Nat \ {0} : i + (k - 1) * step <= L => k \in 1 .. c
  <2>1. CASE step = 1
    BY <1>1, <1>3, <2>1
  <2>2. CASE step = 2
    BY <1>1, <1>3, <2>2
  <2> QED BY <2>1, <2>2
<1>7. \A k \in 1 .. c : rest[(k - 1) * step + 1] = buf[i + (k - 1) * step]
  <2> TAKE k \in 1 .. c
  <2> DEFINE q == i + (k - 1) * step
  <2>1. q \in i .. L
    BY <1>5
  <2>2. (k - 1) * step + 1 = q - i + 1
    <3>1. CASE step = 1
      BY <1>1, <3>1
    <3>2. CASE step = 2
      BY <1>1, <3>2
    <3> QED BY <3>1, <3>2
  <2> HIDE DEF q
  <2>3. q - i + 1 \in 1 .. L - i + 1 /\ (q - i + 1) + i - 1 = q
    BY <1>1, <2>1
  <2>4. rest[q - i + 1] = buf[q]
    BY <1>2, <2>3
  <2> QED BY <2>2, <2>4 DEF q
<1>8. EveryNth(rest, step) = [k \in 1 .. c |-> rest[(k - 1) * step + 1]]
  BY <1>4 DEF EveryNth
<1>9. EveryNth(rest, step) = ByteSeq(buf, i, c, step)
  BY <1>7, <1>8 DEF ByteSeq
<1> QED BY <1>5, <1>6, <1>9 DEF L, rest, c

InRow(buf, i, n, step, o) ==
  \A h \in 0 .. n - 1 : i + h * step <= Len(buf) /\ buf[i + h * step] \in o.valid

LEMMA RunStops ==
  ASSUME NEW buf, NEW i, NEW n \in Nat, NEW step, NEW o
  PROVE  /\ Run(buf, i, n, step, o) \in 0 .. n
         /\ Run(buf, i, n, step, o) = n => InRow(buf, i, n, step, o)
         /\ InRow(buf, i, n, step, o) => Run(buf, i, n, step, o) = n
         /\ Run(buf, i, n, step, o) # n =>
              ~(/\ i + Run(buf, i, n, step, o) * step <= Len(buf)
                /\ buf[i + Run(buf, i, n, step, o) * step] \in o.valid)
<1> DEFINE In(h) == i + h * step <= Len(buf) /\ buf[i + h * step] \in o.valid
           S == {k \in 0 .. n : \A h \in 0 .. k - 1 : In(h)}
           r == Run(buf, i, n, step, o)
<1>1. r = Max(S)
  BY DEF Run
<1>2. InRow(buf, i, n, step, o) <=> \A h \in 0 .. n - 1 : In(h)
  BY DEF InRow
<1> HIDE DEF In, r
<1>3. 0 \in S
  OBVIOUS
<1>4. r \in S /\ \A x \in S : x <= r
  <2>1. S \in SUBSET (0 .. n) /\ S # {}
    BY <1>3
  <2> HIDE DEF S
  <2> QED BY <1>1, <2>1, MaxOf
<1>5. r \in 0 .. n /\ \A h \in 0 .. r - 1 : In(h)
  BY <1>4
<1>6. (\A h \in 0 .. n - 1 : In(h)) => r = n
  <2> SUFFICES ASSUME \A h \in 0 .. n - 1 : In(h) PROVE r = n
    OBVIOUS
  <2>1. n \in S
    OBVIOUS
  <2> QED BY <1>4, <1>5, <2>1
<1>7. r # n => ~In(r)
  <2> SUFFICES ASSUME r # n, In(r) PROVE FALSE
    OBVIOUS
  <2>1. r + 1 \in 0 .. n /\ \A h \in 0 .. (r + 1) - 1 : In(h)
    <3>1. r + 1 \in 0 .. n
      BY <1>5
    <3>2. \A h \in 0 .. (r + 1) - 1 : h \in 0 .. r - 1 \/ h = r
      BY <1>5
    <3> QED BY <1>5, <3>1, <3>2
  <2>2. r + 1 <= r
    BY <1>4, <2>1
  <2> QED BY <1>5, <2>2
<1> QED BY <1>2, <1>5, <1>6, <1>7 DEF In, r

\* The string at a position is due when it is a row of valid bytes.
LEMMA RowDue ==
  ASSUME NEW n \in Nat \ {0}, NEW buf \in Seq(Byte), NEW i \in 1 .. Len(buf), NEW step \in {1, 2},
         NEW o, ~o.skip_invalids
  PROVE  StringsOf(SubSeq(buf, i, Len(buf)), n, step, o) =
           IF InRow(buf, i, n, step, o) THEN {ByteSeq(buf, i, n, step)} ELSE {}
<1> DEFINE c == Places(buf, i, step)
           each == ByteSeq(buf, i, c, step)
           taken == SubSeq(each, 1, n)
           w == ByteSeq(buf, i, n, step)
<1>1. /\ c \in Nat /\ \A k \in 1 .. c : i + (k - 1) * step \in i .. Len(buf)
      /\ \A k \in Nat \ {0} : i + (k - 1) * step <= Len(buf) => k \in 1 .. c
  BY EachByte
<1>2. StringsOf(SubSeq(buf, i, Len(buf)), n, step, o) =
        IF Len(each) >= n /\ ToSet(taken) \subseteq o.valid THEN {taken} ELSE {}
  BY EachByte DEF StringsOf
<1>3. i \in Nat /\ Len(buf) \in Nat
  OBVIOUS
<1> HIDE DEF c
<1>4. each \in [1 .. c -> Byte] /\ each = [k \in 1 .. c |-> buf[i + (k - 1) * step]]
  <2>1. each = [k \in 1 .. c |-> buf[i + (k - 1) * step]]
    BY DEF ByteSeq
  <2>2. ASSUME NEW k \in 1 .. c PROVE buf[i + (k - 1) * step] \in Byte
    <3> DEFINE q == i + (k - 1) * step
    <3>1. q \in 1 .. Len(buf)
      <4>1. q \in i .. Len(buf)
        BY <1>1
      <4> HIDE DEF q
      <4> QED BY <1>3, <4>1
    <3> HIDE DEF q
    <3>2. buf[q] \in Byte
      BY <3>1
    <3> QED BY <3>2 DEF q
  <2> HIDE DEF each
  <2> QED BY <2>1, <2>2
<1>5. each \in Seq(Byte) /\ Len(each) = c
  <2> HIDE DEF each
  <2> QED BY <1>1, <1>4
<1>6. n <= c => taken = w /\ ToSet(w) = {buf[i + (k - 1) * step] : k \in 1 .. n}
  <2> SUFFICES ASSUME n <= c PROVE taken = w /\ ToSet(w) = {buf[i + (k - 1) * step] : k \in 1 .. n}
    OBVIOUS
  <2>1. w = [k \in 1 .. n |-> buf[i + (k - 1) * step]]
    BY DEF ByteSeq
  <2> HIDE DEF each, w
  <2>2. taken = [k \in 1 .. n |-> each[k]]
    BY <1>1, <1>5
  <2>3. \A k \in 1 .. n : each[k] = buf[i + (k - 1) * step]
    BY <1>1, <1>4
  <2> HIDE DEF taken
  <2>4. ToSet(w) = {w[k] : k \in 1 .. n}
    BY <2>1 DEF ToSet
  <2> QED BY <2>1, <2>2, <2>3, <2>4
<1>7. InRow(buf, i, n, step, o) <=> \A k \in 1 .. n : i + (k - 1) * step <= Len(buf) /\ buf[i + (k - 1) * step] \in o.valid
  <2>1. \A h \in 0 .. n - 1 : h + 1 \in 1 .. n /\ (h + 1) - 1 = h
    OBVIOUS
  <2>2. \A k \in 1 .. n : k - 1 \in 0 .. n - 1
    OBVIOUS
  <2> QED BY <2>1, <2>2 DEF InRow
<1>8. n <= c <=> \A k \in 1 .. n : i + (k - 1) * step <= Len(buf)
  <2>1. ASSUME n <= c, NEW k \in 1 .. n PROVE i + (k - 1) * step <= Len(buf)
    <3>1. k \in 1 .. c
      BY <1>1, <2>1
    <3>2. i + (k - 1) * step \in i .. Len(buf)
      BY <1>1, <3>1
    <3> DEFINE q == i + (k - 1) * step
    <3>3. q \in i .. Len(buf)
      BY <3>2
    <3> HIDE DEF q
    <3>4. q <= Len(buf)
      BY <1>3, <3>3
    <3> QED BY <3>4 DEF q
  <2>2. ASSUME \A k \in 1 .. n : i + (k - 1) * step <= Len(buf) PROVE n <= c
    <3>1. n \in 1 .. n /\ n \in Nat \ {0}
      OBVIOUS
    <3>2. n \in 1 .. c
      BY <1>1, <2>2, <3>1
    <3> QED BY <1>1, <3>2
  <2> QED BY <2>1, <2>2
<1> HIDE DEF each, taken, w
<1>9. Len(each) >= n <=> n <= c
  BY <1>1, <1>5
<1>10. n <= c => (ToSet(taken) \subseteq o.valid <=> \A k \in 1 .. n : buf[i + (k - 1) * step] \in o.valid)
  <2> SUFFICES ASSUME n <= c
               PROVE  ToSet(taken) \subseteq o.valid <=> \A k \in 1 .. n : buf[i + (k - 1) * step] \in o.valid
    OBVIOUS
  <2> DEFINE V == {buf[i + (k - 1) * step] : k \in 1 .. n}
  <2>1. ToSet(taken) = V
    BY <1>6
  <2>2. V \subseteq o.valid <=> \A k \in 1 .. n : buf[i + (k - 1) * step] \in o.valid
    OBVIOUS
  <2> HIDE DEF V
  <2> QED BY <2>1, <2>2
<1>11. InRow(buf, i, n, step, o) <=> Len(each) >= n /\ ToSet(taken) \subseteq o.valid
  BY <1>7, <1>8, <1>9, <1>10
<1>12. InRow(buf, i, n, step, o) => taken = w
  BY <1>6, <1>9, <1>11
<1> QED BY <1>2, <1>11, <1>12 DEF w

\* The strings that are due at each position of a buffer.
DueAt(buf, n, step, o) ==
  [i \in 1 .. Len(buf) |-> StringsOf(SubSeq(buf, i, Len(buf)), n, step, o)]

AllDue(buf, n, step, o) == UNION {VariantsMade(t, o) : t \in UNION {DueAt(buf, n, step, o)[i] : i \in 1 .. Len(buf)}}

LEMMA MadeOfDue ==
  ASSUME NEW buf, NEW n, NEW step, NEW o, NEW i \in 1 .. Len(buf), NEW t \in DueAt(buf, n, step, o)[i]
  PROVE  VariantsMade(t, o) \subseteq AllDue(buf, n, step, o)
BY DEF AllDue

\* Steps of two from i to p.
LEMMA EvenSteps ==
  ASSUME NEW i \in Nat, NEW p \in Nat, i <= p, (p - i) % 2 = 0
  PROVE  \E d \in Nat : p = i + 2 * d
<1> DEFINE d == (p - i) \div 2
<1>1. d \in Nat /\ p = i + 2 * d
  OBVIOUS
<1> QED BY <1>1

\* One step more than fit between i and last leads behind last.
LEMMA BehindLast ==
  ASSUME NEW i \in Nat, NEW last \in Nat, i <= last, NEW step \in {1, 2}
  PROVE  /\ (last - i) \div step + 1 \in Nat
         /\ i + ((last - i) \div step + 1) * step > last
<1>1. CASE step = 1
  BY <1>1
<1>2. CASE step = 2
  BY <1>2
<1> QED BY <1>1, <1>2

LEMMA BreakingMisses ==
  ASSUME NEW n \in Nat \ {0}, NEW buf \in Seq(Byte), Len(buf) > n, NEW step \in {1, 2}, NEW o, GoodOpt(o),
         ~o.skip_invalids
  PROVE  Misses(n, Len(buf) - n, step, o, DueAt(buf, n, step, o), AllDue(buf, n, step, o), BreakMoves(buf, n, step, o))
<1> DEFINE last == Len(buf) - n
           due == DueAt(buf, n, step, o)
           all == AllDue(buf, n, step, o)
<1> SUFFICES ASSUME NEW s \in Steps(n), s[1] <= last, Closed(s[2], n, o)
             PROVE  LET r == BreakMoves(buf, n, step, o)[s]
                    IN  (r[1] - s[1]) % step = 0 /\ Finds(n, last, step, o, due, all, s, r[1], r[2])
  BY DEF Misses
<1> DEFINE i == s[1]
           list == s[2]
           run == Run(buf, i, n, step, o)
           j == Jump(i, run, n, step)
           w == ByteSeq(buf, i, n, step)
           full == run = n
           next == IF full THEN AddString(list, w, o) ELSE list
<1>1. i \in Nat \ {0} /\ list \in Seq(OfLength(n)) /\ last \in Nat /\ Len(buf) \in Nat /\ n \in Nat
  BY DEF Steps
<1>2. BreakMoves(buf, n, step, o)[s] = <<j, next>>
  BY DEF BreakMoves, BreakMove
<1>3. /\ run \in 0 .. n
      /\ full => InRow(buf, i, n, step, o)
      /\ InRow(buf, i, n, step, o) => full
      /\ ~full => ~(i + run * step <= Len(buf) /\ buf[i + run * step] \in o.valid)
  BY <1>1, RunStops
<1>4. full => w \in OfLength(n)
  BY <1>1, FullRun
<1>5. \A p \in 1 .. Len(buf) : due[p] = IF InRow(buf, p, n, step, o) THEN {ByteSeq(buf, p, n, step)} ELSE {}
  BY RowDue DEF DueAt
<1>6. i \in 1 .. Len(buf)
  BY <1>1
<1>7. full => Fit(w, o)
  <2> SUFFICES ASSUME full PROVE ToSet(w) \subseteq o.valid
    BY DEF Fit
  <2>1. \A h \in 0 .. n - 1 : buf[i + h * step] \in o.valid
    BY <1>3 DEF InRow
  <2>2. \A k \in 1 .. n : buf[i + (k - 1) * step] \in o.valid
    <3> TAKE k \in 1 .. n
    <3>1. k - 1 \in 0 .. n - 1
      OBVIOUS
    <3> HIDE DEF i
    <3> QED BY <2>1, <3>1
  <2>3. DOMAIN w = 1 .. n /\ \A k \in 1 .. n : w[k] = buf[i + (k - 1) * step]
    BY DEF ByteSeq
  <2> HIDE DEF w
  <2>4. \A k \in DOMAIN w : w[k] \in o.valid
    BY <2>2, <2>3
  <2> QED BY <2>4 DEF ToSet
<1>8. full => w \in due[i] /\ VariantsMade(w, o) \subseteq all
  <2> SUFFICES ASSUME full PROVE w \in due[i] /\ VariantsMade(w, o) \subseteq all
    OBVIOUS
  <2>1. due[i] = {w}
    <3> HIDE DEF i
    <3> QED BY <1>3, <1>5, <1>6
  <2> HIDE DEF w, i
  <2>2. w \in due[i]
    BY <2>1
  <2> QED BY <1>6, <2>2, MadeOfDue DEF due, all
<1> HIDE DEF last, due, all, run, w, list, i
<1>9. /\ Closed(next, n, o) /\ ToSet(list) \subseteq ToSet(next)
      /\ ToSet(next) \subseteq ToSet(list) \cup all
      /\ full => Asked(w, o) \subseteq ToSet(next)
  <2>1. full \in BOOLEAN /\ Closed(list, n, o)
    BY DEF list
  <2> HIDE DEF full
  <2> QED BY <1>1, <1>4, <1>7, <1>8, <2>1, OneFound
<1>10. (j - i) % step = 0 /\ (full => j = i + step)
       /\ (~full => j = i + (run + 1) * step)
  <2>1. (full => j = i + step) /\ (~full => j = i + (run + 1) * step)
    BY DEF Jump
  <2>2. CASE step = 1
    BY <1>1, <1>3, <2>1, <2>2
  <2>3. CASE step = 2
    BY <1>1, <1>3, <2>1, <2>3
  <2> QED BY <2>1, <2>2, <2>3
<1> HIDE DEF next
<1>11. ASSUME NEW p \in i .. last, p < j, (p - i) % step = 0, NEW t \in due[p]
       PROVE  Asked(t, o) \subseteq ToSet(next)
  <2>1. p \in 1 .. Len(buf) /\ p \in Nat
    BY <1>1, <1>11 DEF last
  <2>2. t = ByteSeq(buf, p, n, step) /\ InRow(buf, p, n, step, o)
    <3>1. due[p] = IF InRow(buf, p, n, step, o) THEN {ByteSeq(buf, p, n, step)} ELSE {}
      BY <1>5, <2>1
    <3>2. t \in due[p]
      BY <1>11
    <3> QED BY <3>1, <3>2
  <2>3. CASE full
    <3>1. p = i
      <4>1. CASE step = 1
        BY <1>1, <1>10, <1>11, <2>3, <4>1
      <4>2. CASE step = 2
        BY <1>1, <1>10, <1>11, <2>3, <4>2
      <4> QED BY <4>1, <4>2
    <3> QED BY <1>9, <2>2, <2>3, <3>1 DEF w
  <2>4. CASE ~full
    <3>1. \E h \in 0 .. n - 1 : p + h * step = i + run * step
      <4>1. run < n
        BY <1>1, <1>3, <2>4
      <4>2. CASE step = 1
        <5>1. (i + run) - p \in 0 .. n - 1 /\ p + ((i + run) - p) * 1 = i + run * 1
          BY <1>1, <1>3, <1>10, <1>11, <2>1, <2>4, <4>1, <4>2
        <5> QED BY <4>2, <5>1
      <4>3. CASE step = 2
        <5>1. PICK d \in Nat : p = i + 2 * d
          <6>1. i \in Nat /\ i <= p /\ (p - i) % 2 = 0
            BY <1>1, <1>11, <4>3
          <6> HIDE DEF i
          <6> QED BY <2>1, <6>1, EvenSteps
        <5>2. run - d \in 0 .. n - 1 /\ p + (run - d) * 2 = i + run * 2
          BY <1>1, <1>3, <1>10, <1>11, <2>4, <4>1, <4>3, <5>1
        <5> QED BY <4>3, <5>2
      <4> QED BY <4>2, <4>3
    <3>2. PICK h \in 0 .. n - 1 : p + h * step = i + run * step
      BY <3>1
    <3>3. p + h * step <= Len(buf) /\ buf[p + h * step] \in o.valid
      BY <2>2 DEF InRow
    <3> QED BY <1>3, <2>4, <3>2, <3>3
  <2> QED BY <2>3, <2>4
<1>12. Finds(n, last, step, o, due, all, s, j, next)
  BY <1>9, <1>11 DEF Finds, i, list
<1> QED BY <1>2, <1>10, <1>12 DEF i, next

-----------------------------------------------------------------------------
(***************************************************************************)
(* The valid bytes of a sequence.                                          *)
(***************************************************************************)
LEMMA Upward ==
  ASSUME NEW n \in Nat, NEW P, 0 \in P, \A k \in 1 .. n : k - 1 \in P => k \in P
  PROVE  \A k \in 0 .. n : k \in P
<1> DEFINE m == [k \in 0 .. n |-> k]
<1>1. m \in [0 .. n -> Nat]
  OBVIOUS
<1>2. ASSUME NEW x \in 0 .. n, \A y \in 0 .. n : m[y] < m[x] => y \in P PROVE x \in P
  <2>1. CASE x = 0
    BY <2>1
  <2>2. CASE x # 0
    <3>1. x \in 1 .. n /\ x - 1 \in 0 .. n /\ m[x - 1] < m[x]
      BY <2>2
    <3> QED BY <1>2, <3>1
  <2> QED BY <2>1, <2>2
<1>3. \A x \in 0 .. n : (\A y \in 0 .. n : m[y] < m[x] => y \in P) => x \in P
  BY <1>2
<1> DEFINE D == 0 .. n
<1> HIDE DEF m
<1>4. m \in [D -> Nat] /\ \A x \in D : (\A y \in D : m[y] < m[x] => y \in P) => x \in P
  BY <1>1, <1>3
<1> HIDE DEF D
<1>5. \A x \in D : x \in P
  BY <1>4, AllOf
<1> QED BY <1>5 DEF D

\* The valid bytes among the first ones, for every number of them.
Sifting(valid, s, h) ==
  /\ h \in [0 .. Len(s) -> Seq(Byte)]
  /\ h[0] = << >>
  /\ \A k \in 1 .. Len(s) : h[k] = IF s[k] \in valid THEN Append(h[k - 1], s[k]) ELSE h[k - 1]

LEMMA Sifted ==
  ASSUME NEW s \in Seq(Byte), NEW o
  PROVE  \E h : Sifting(o.valid, s, h) /\ OnlyValid(s, o) = h[Len(s)]
<1> DEFINE n == Len(s)
           One(r, b) == IF b \in o.valid THEN Append(r, b) ELSE r
<1>1. n \in Nat /\ DOMAIN s = 1 .. n
  OBVIOUS
<1>2. OnlyValid(s, o) = (CHOOSE h : Picking(o.valid, s, h))[DOMAIN s]
  BY DEF FoldLeft, MapThenFoldSet, Picking, OnlyValid
<1>3. PICK g : Picking(o.valid, s, g) /\ OnlyValid(s, o) = g[DOMAIN s]
  BY <1>2, PickingExists
<1> DEFINE h == [k \in 0 .. n |-> g[1 .. k]]
<1> HIDE DEF n
<1>4. g[{}] = << >>
  BY <1>3 DEF Picking
<1>5. ASSUME NEW k \in 1 .. n
      PROVE  g[1 .. k] = IF s[k] \in o.valid THEN Append(g[1 .. (k - 1)], s[k]) ELSE g[1 .. (k - 1)]
  <2>1. 1 .. k \in SUBSET (1 .. n) /\ 1 .. k # {} /\ k \in 1 .. k
    BY <1>1
  <2>2. Max(1 .. k) \in 1 .. k /\ \A x \in 1 .. k : x <= Max(1 .. k)
    <3> DEFINE K == 1 .. k
    <3>1. K \in SUBSET (0 .. n) /\ K # {}
      BY <2>1
    <3> HIDE DEF K
    <3>2. Max(K) \in K /\ \A x \in K : x <= Max(K)
      BY <1>1, <3>1, MaxOf
    <3> QED BY <3>2 DEF K
  <2>3. Max(1 .. k) = k
    BY <2>1, <2>2
  <2>4. (1 .. k) \ {k} = 1 .. (k - 1)
    BY <1>1
  <2>5. 1 .. k \in SUBSET (DOMAIN s)
    BY <1>1, <2>1
  <2> DEFINE S == 1 .. k
  <2>6. g[S] = IF S = {} THEN << >>
               ELSE IF s[Max(S)] \in o.valid THEN Append(g[S \ {Max(S)}], s[Max(S)]) ELSE g[S \ {Max(S)}]
    <3> HIDE DEF S
    <3>1. S \in SUBSET (DOMAIN s)
      BY <2>5 DEF S
    <3> QED BY <1>3, <3>1 DEF Picking
  <2> QED BY <2>1, <2>3, <2>4, <2>6
<1>6. g[1 .. 0] = << >>
  <2>1. 1 .. 0 = {}
    OBVIOUS
  <2> DEFINE S == 1 .. 0
  <2>2. S = {}
    BY <2>1
  <2> HIDE DEF S
  <2>3. g[S] = << >>
    BY <1>4, <2>2
  <2> QED BY <2>3 DEF S
<1>7. \A k \in 0 .. n : g[1 .. k] \in Seq(Byte)
  <2> DEFINE P == {k \in 0 .. n : g[1 .. k] \in Seq(Byte)}
  <2>1. 0 \in P
    <3>1. << >> \in Seq(Byte) /\ 0 \in 0 .. n
      BY <1>1
    <3> HIDE DEF h
    <3> QED BY <1>6, <3>1
  <2>2. ASSUME NEW k \in 1 .. n, k - 1 \in P PROVE k \in P
    <3>1. s[k] \in Byte /\ g[1 .. (k - 1)] \in Seq(Byte) /\ k \in 0 .. n
      BY <1>1, <2>2
    <3>2. Append(g[1 .. (k - 1)], s[k]) \in Seq(Byte)
      BY <3>1
    <3> QED BY <1>5, <3>1, <3>2
  <2>3. \A k \in 0 .. n : k \in P
    <3> HIDE DEF P
    <3> QED BY <1>1, <2>1, <2>2, Upward
  <2> QED BY <2>3
<1>8. h \in [0 .. n -> Seq(Byte)] /\ h[0] = << >> /\ h[n] = g[DOMAIN s]
  BY <1>1, <1>4, <1>6, <1>7
<1>9. \A k \in 1 .. n : h[k] = IF s[k] \in o.valid THEN Append(h[k - 1], s[k]) ELSE h[k - 1]
  <2> TAKE k \in 1 .. n
  <2>1. k \in 0 .. n /\ k - 1 \in 0 .. n
    BY <1>1
  <2>2. h[k] = g[1 .. k] /\ h[k - 1] = g[1 .. (k - 1)]
    BY <2>1
  <2> QED BY <1>5, <2>2
<1> HIDE DEF h
<1> QED BY <1>3, <1>8, <1>9 DEF Sifting, n

\* Only valid bytes, not more than there are.
LEMMA SiftedValid ==
  ASSUME NEW s \in Seq(Byte), NEW valid, NEW h, Sifting(valid, s, h)
  PROVE  \A k \in 0 .. Len(s) : ToSet(h[k]) \subseteq valid /\ Len(h[k]) <= k
<1> DEFINE n == Len(s)
           P == {k \in 0 .. n : ToSet(h[k]) \subseteq valid /\ Len(h[k]) <= k}
<1>1. n \in Nat /\ h \in [0 .. n -> Seq(Byte)] /\ \A k \in 1 .. n : s[k] \in Byte
  BY DEF Sifting
<1>2. 0 \in P
  BY <1>1 DEF Sifting, ToSet
<1>3. ASSUME NEW k \in 1 .. n, k - 1 \in P PROVE k \in P
  <2>1. k - 1 \in 0 .. n /\ ToSet(h[k - 1]) \subseteq valid /\ Len(h[k - 1]) <= k - 1 /\ k \in 0 .. n
    BY <1>1, <1>3
  <2>2. h[k] = IF s[k] \in valid THEN Append(h[k - 1], s[k]) ELSE h[k - 1]
    BY DEF Sifting
  <2>3. CASE s[k] \in valid
    <3> DEFINE r == h[k - 1]
    <3>1. r \in Seq(Byte) /\ s[k] \in Byte /\ Len(r) \in Nat
      BY <1>1, <2>1
    <3> HIDE DEF r
    <3>2. Len(Append(r, s[k])) = Len(r) + 1 /\ ToSet(Append(r, s[k])) = ToSet(r) \cup {s[k]}
      <4> DEFINE b == s[k]
      <4>1. b \in Byte
        BY <3>1
      <4> HIDE DEF b
      <4>2. /\ DOMAIN Append(r, b) = 1 .. Len(r) + 1 /\ Len(Append(r, b)) = Len(r) + 1
            /\ \A x \in 1 .. Len(r) : Append(r, b)[x] = r[x]
            /\ Append(r, b)[Len(r) + 1] = b /\ DOMAIN r = 1 .. Len(r)
        BY <3>1, <4>1
      <4> DEFINE a == Append(r, b)
      <4>3. \A x \in DOMAIN a : a[x] \in ToSet(r) \cup {b}
        BY <3>1, <4>2 DEF ToSet
      <4>4. \A x \in DOMAIN r : r[x] \in ToSet(a)
        <5> SUFFICES ASSUME NEW x \in DOMAIN r PROVE r[x] \in ToSet(a)
          OBVIOUS
        <5>1. x \in DOMAIN a /\ a[x] = r[x]
          BY <3>1, <4>2
        <5> HIDE DEF a
        <5> QED BY <5>1 DEF ToSet
      <4>5. b \in ToSet(a)
        <5>1. Len(r) + 1 \in DOMAIN a /\ a[Len(r) + 1] = b
          BY <3>1, <4>2
        <5> HIDE DEF a
        <5> QED BY <5>1 DEF ToSet
      <4>6. ToSet(a) = ToSet(r) \cup {b}
        <5> HIDE DEF a
        <5> QED BY <4>3, <4>4, <4>5 DEF ToSet
      <4> QED BY <4>2, <4>6 DEF b
    <3>3. Len(r) <= k - 1 /\ ToSet(r) \subseteq valid /\ h[k] = Append(r, s[k])
      BY <2>1, <2>2, <2>3 DEF r
    <3>4. ToSet(h[k]) \subseteq valid
      BY <2>3, <3>2, <3>3
    <3>5. Len(h[k]) <= k
      BY <1>1, <3>1, <3>2, <3>3
    <3> QED BY <2>1, <3>4, <3>5
  <2>4. CASE s[k] \notin valid
    <3>1. h[k] = h[k - 1]
      BY <2>2, <2>4
    <3>2. Len(h[k - 1]) \in Nat
      BY <1>1, <2>1
    <3> QED BY <2>1, <3>1, <3>2
  <2> QED BY <2>3, <2>4
<1> HIDE DEF P, n
<1>4. \A k \in 0 .. n : k \in P
  BY <1>1, <1>2, <1>3, Upward
<1> QED BY <1>4 DEF P, n

\* An invalid byte in front does not matter.
LEMMA InvalidInFront ==
  ASSUME NEW s \in Seq(Byte), NEW r \in Seq(Byte), NEW o, Len(s) = Len(r) + 1, s[1] \notin o.valid,
         \A k \in 1 .. Len(r) : s[k + 1] = r[k]
  PROVE  OnlyValid(s, o) = OnlyValid(r, o)
<1>1. PICK g : Sifting(o.valid, s, g) /\ OnlyValid(s, o) = g[Len(s)]
  BY Sifted
<1>2. PICK h : Sifting(o.valid, r, h) /\ OnlyValid(r, o) = h[Len(r)]
  BY Sifted
<1> DEFINE n == Len(r)
           P == {k \in 0 .. n : g[k + 1] = h[k]}
<1>3. n \in Nat /\ Len(s) = n + 1
  OBVIOUS
<1>4. 0 \in P
  <2>1. 1 \in 1 .. Len(s) /\ g[1 - 1] = << >> /\ 1 - 1 = 0 /\ h[0] = << >>
    BY <1>1, <1>2, <1>3 DEF Sifting
  <2>2. g[1] = IF s[1] \in o.valid THEN Append(g[1 - 1], s[1]) ELSE g[1 - 1]
    BY <1>1, <2>1 DEF Sifting
  <2> QED BY <1>3, <2>1, <2>2
<1>5. ASSUME NEW k \in 1 .. n, k - 1 \in P PROVE k \in P
  <2>1. k + 1 \in 1 .. Len(s) /\ (k + 1) - 1 = k /\ (k - 1) + 1 = k /\ k \in 0 .. n
    BY <1>3
  <2>2. g[k + 1] = IF s[k + 1] \in o.valid THEN Append(g[k], s[k + 1]) ELSE g[k]
    BY <1>1, <2>1 DEF Sifting
  <2>3. h[k] = IF r[k] \in o.valid THEN Append(h[k - 1], r[k]) ELSE h[k - 1]
    BY <1>2 DEF Sifting
  <2>4. g[k] = h[k - 1] /\ s[k + 1] = r[k]
    BY <1>5, <2>1
  <2> QED BY <2>1, <2>2, <2>3, <2>4
<1> HIDE DEF P, n
<1>6. \A k \in 0 .. n : k \in P
  BY <1>3, <1>4, <1>5, Upward
<1>7. n \in P
  BY <1>3, <1>6
<1> QED BY <1>1, <1>2, <1>3, <1>7 DEF P, n

LEMMA InvalidSkipped ==
  ASSUME NEW buf \in Seq(Byte), NEW p \in 1 .. Len(buf), NEW step \in {1, 2}, NEW o, buf[p] \notin o.valid
  PROVE  ValidFrom(buf, p, step, o) = ValidFrom(buf, p + step, step, o)
<1> DEFINE c == (Len(buf) - p) \div step + 1
           d == (Len(buf) - (p + step)) \div step + 1
           s == ByteSeq(buf, p, c, step)
           r == ByteSeq(buf, p + step, d, step)
<1>1. c \in Nat /\ d \in Nat /\ c = d + 1 /\ p + step \in Nat \ {0} /\ p \in Nat \ {0}
  <2>1. CASE step = 1
    BY <2>1
  <2>2. CASE step = 2
    BY <2>2
  <2> QED BY <2>1, <2>2
<1>2. s \in Seq(Byte) /\ r \in Seq(Byte)
  BY <1>1, BytesFrom
<1>3. /\ s = [k \in 1 .. c |-> buf[p + (k - 1) * step]]
      /\ r = [k \in 1 .. d |-> buf[(p + step) + (k - 1) * step]]
  BY DEF ByteSeq
<1>4. ValidFrom(buf, p, step, o) = OnlyValid(s, o) /\ ValidFrom(buf, p + step, step, o) = OnlyValid(r, o)
  BY DEF ValidFrom
<1> HIDE DEF s, r, c, d
<1>5. Len(s) = c /\ Len(r) = d
  BY <1>1, <1>2, <1>3
<1>6. s[1] = buf[p]
  <2>1. 1 \in 1 .. c /\ p + (1 - 1) * step = p
    BY <1>1
  <2> QED BY <1>3, <2>1
<1>7. ASSUME NEW k \in 1 .. d PROVE s[k + 1] = r[k]
  <2>1. k + 1 \in 1 .. c /\ p + ((k + 1) - 1) * step = (p + step) + (k - 1) * step
    <3>1. k + 1 \in 1 .. c
      BY <1>1
    <3>2. CASE step = 1
      BY <3>2, <3>1, <1>1
    <3>3. CASE step = 2
      BY <3>3, <3>1, <1>1
    <3> QED BY <3>1, <3>2, <3>3
  <2> QED BY <1>3, <2>1
<1> QED BY <1>2, <1>1, <1>4, <1>5, <1>6, <1>7, InvalidInFront, SMTT(30)

LEMMA SkipDue ==
  ASSUME NEW n \in Nat \ {0}, NEW buf \in Seq(Byte), NEW i \in 1 .. Len(buf), NEW step \in {1, 2},
         NEW o, o.skip_invalids
  PROVE  /\ StringsOf(SubSeq(buf, i, Len(buf)), n, step, o) =
              IF Len(ValidFrom(buf, i, step, o)) >= n THEN {SubSeq(ValidFrom(buf, i, step, o), 1, n)} ELSE {}
         /\ Len(ValidFrom(buf, i, step, o)) >= n => ToSet(SubSeq(ValidFrom(buf, i, step, o), 1, n)) \subseteq o.valid
<1> DEFINE b == ValidFrom(buf, i, step, o)
           s == ByteSeq(buf, i, Places(buf, i, step), step)
           w == SubSeq(b, 1, n)
<1>1. s \in Seq(Byte) /\ b \in Seq(Byte)
  <2>1. i \in Nat \ {0}
    OBVIOUS
  <2> QED BY <2>1, BytesFrom, ValidBytes DEF Places
<1>2. b = OnlyValid(s, o) /\ EveryNth(SubSeq(buf, i, Len(buf)), step) = s
  BY EachByte DEF ValidFrom, Places
<1>3. StringsOf(SubSeq(buf, i, Len(buf)), n, step, o) =
        IF Len(b) >= n /\ ToSet(w) \subseteq o.valid THEN {w} ELSE {}
  BY <1>2 DEF StringsOf
<1> HIDE DEF s, b
<1>4. ToSet(b) \subseteq o.valid
  <2>0. \E h : Sifting(o.valid, s, h) /\ OnlyValid(s, o) = h[Len(s)]
    BY <1>1, Sifted
  <2>1. PICK h : Sifting(o.valid, s, h) /\ b = h[Len(s)]
    BY <1>2, <2>0
  <2>2. Len(s) \in 0 .. Len(s)
    BY <1>1
  <2> QED BY <1>1, <2>1, <2>2, SiftedValid
<1>5. Len(b) >= n => ToSet(w) \subseteq o.valid
  <2> SUFFICES ASSUME Len(b) >= n PROVE ToSet(w) \subseteq o.valid
    OBVIOUS
  <2>1. DOMAIN w = 1 .. n /\ \A k \in 1 .. n : w[k] = b[k] /\ k \in DOMAIN b
    BY <1>1
  <2> HIDE DEF w
  <2>2. \A k \in DOMAIN w : w[k] \in ToSet(b)
    BY <2>1 DEF ToSet
  <2> QED BY <1>4, <2>2 DEF ToSet
<1> HIDE DEF w
<1>6. StringsOf(SubSeq(buf, i, Len(buf)), n, step, o) = IF Len(b) >= n THEN {w} ELSE {}
  BY <1>3, <1>5
<1> QED BY <1>5, <1>6 DEF b, w

\* Every position that is skipped has the same valid bytes behind it.
LEMMA SameBytes ==
  ASSUME NEW buf \in Seq(Byte), NEW last \in Nat, last <= Len(buf), NEW i \in Nat \ {0}, i <= last,
         NEW step \in {1, 2}, NEW o,
         NEW p \in i .. last, p <= SkipInvalid(buf, i, last, step, o), (p - i) % step = 0
  PROVE  ValidFrom(buf, p, step, o) = ValidFrom(buf, SkipInvalid(buf, i, last, step, o), step, o)
<1> DEFINE m == (last - i) \div step + 1
           Stop(k) == i + k * step > last \/ buf[i + k * step] \in o.valid
           S == {k \in 0 .. m : Stop(k)}
           t == Min(S)
           at == SkipInvalid(buf, i, last, step, o)
<1>1. m \in Nat /\ i + m * step > last
  <2>1. CASE step = 1
    BY <2>1
  <2>2. CASE step = 2
    BY <2>2
  <2> QED BY <2>1, <2>2
<1>2. at = i + step * t
  BY DEF SkipInvalid
<1> HIDE DEF m, at
<1>3. m \in S
  BY <1>1
<1>4. t \in 0 .. m /\ \A k \in S : t <= k
  <2>1. S \in SUBSET (0 .. m) /\ S \in SUBSET Nat /\ S # {}
    BY <1>3
  <2> HIDE DEF S
  <2> QED BY <2>1, MinOf
<1> HIDE DEF t
<1>5. ASSUME NEW k \in 0 .. m, k < t PROVE i + k * step <= last /\ buf[i + k * step] \notin o.valid
  <2>1. k \notin S
    <3> HIDE DEF S
    <3>1. t \in Nat /\ k \in Nat /\ ~(t <= k)
      BY <1>1, <1>4, <1>5
    <3> QED BY <1>4, <3>1
  <2>2. ~Stop(k)
    BY <2>1
  <2> DEFINE q == i + k * step
  <2>3. ~(q > last) /\ buf[q] \notin o.valid
    BY <2>2
  <2>4. q \in Nat
    BY <1>1
  <2> QED BY <2>3, <2>4
<1>6. t \in Nat /\ t <= m
  BY <1>1, <1>4
<1> DEFINE V(q) == ValidFrom(buf, q, step, o)
           P == {j \in 0 .. t : V(i + (t - j) * step) = V(at)}
<1>7. 0 \in P
  <2>1. i + (t - 0) * step = at
    BY <1>2, <1>6
  <2> QED BY <1>6, <2>1
<1>8. ASSUME NEW j \in 1 .. t, j - 1 \in P PROVE j \in P
  <2> DEFINE k == t - j
             q == i + k * step
  <2>1. k \in 0 .. m /\ k < t
    BY <1>1, <1>6
  <2>2. q <= last /\ buf[q] \notin o.valid
    BY <1>5, <2>1
  <2>3. q \in 1 .. Len(buf)
    BY <2>1, <2>2, <1>1, SMTT(30)
  <2>4. q + step = i + (t - (j - 1)) * step
    <3>1. CASE step = 1
      BY <1>6, <3>1
    <3>2. CASE step = 2
      BY <1>6, <3>2
    <3> QED BY <3>1, <3>2
  <2>5. V(q) = V(q + step)
    <3> HIDE DEF q
    <3> QED BY <2>2, <2>3, InvalidSkipped, SMTT(30)
  <2>6. V(i + (t - (j - 1)) * step) = V(at)
    BY <1>8
  <2>7. V(i + (t - j) * step) = V(at)
    <3> HIDE DEF V
    <3> QED BY <2>4, <2>5, <2>6
  <2>8. j \in 0 .. t
    BY <1>6
  <2> HIDE DEF V
  <2> QED BY <2>7, <2>8
<1>9. \A j \in 0 .. t : j \in P
  <2> HIDE DEF P
  <2> QED BY <1>6, <1>7, <1>8, Upward
<1>10. \E j \in 0 .. t : p = i + (t - j) * step
  <2>1. p <= i + step * t /\ p \in Nat /\ p >= i
    BY <1>2 DEF at
  <2>2. CASE step = 1
    <3>1. t - (p - i) \in 0 .. t /\ p = i + (t - (t - (p - i))) * 1
      BY <1>6, <2>1, <2>2
    <3> QED BY <2>2, <3>1
  <2>3. CASE step = 2
    <3> DEFINE d == (p - i) \div 2
    <3>1. d \in Nat /\ p = i + 2 * d
      BY <2>1, <2>3
    <3> HIDE DEF d
    <3>2. t - d \in 0 .. t /\ p = i + (t - (t - d)) * 2
      BY <1>6, <2>1, <2>3, <3>1
    <3> QED BY <2>3, <3>2
  <2> QED BY <2>2, <2>3
<1>11. PICK j \in 0 .. t : p = i + (t - j) * step
  BY <1>10
<1>12. V(p) = V(at)
  <2> HIDE DEF V
  <2> QED BY <1>9, <1>11
<1> QED BY <1>12 DEF at

LEMMA SkippingMisses ==
  ASSUME NEW n \in Nat \ {0}, NEW buf \in Seq(Byte), Len(buf) > n, NEW step \in {1, 2}, NEW o, GoodOpt(o),
         o.skip_invalids
  PROVE  Misses(n, Len(buf) - n, step, o, DueAt(buf, n, step, o), AllDue(buf, n, step, o), SkipMoves(buf, n, step, o))
<1>0. \A q \in 1 .. Len(buf) :
        /\ StringsOf(SubSeq(buf, q, Len(buf)), n, step, o) =
             IF Len(ValidFrom(buf, q, step, o)) >= n THEN {SubSeq(ValidFrom(buf, q, step, o), 1, n)} ELSE {}
        /\ Len(ValidFrom(buf, q, step, o)) >= n => ToSet(SubSeq(ValidFrom(buf, q, step, o), 1, n)) \subseteq o.valid
  BY SkipDue
<1> DEFINE last == Len(buf) - n
           due == DueAt(buf, n, step, o)
           all == AllDue(buf, n, step, o)
<1> SUFFICES ASSUME NEW s \in Steps(n), s[1] <= last, Closed(s[2], n, o)
             PROVE  LET r == SkipMoves(buf, n, step, o)[s]
                    IN  (r[1] - s[1]) % step = 0 /\ Finds(n, last, step, o, due, all, s, r[1], r[2])
  BY DEF Misses
<1> DEFINE i == s[1]
           list == s[2]
           at == SkipInvalid(buf, i, last, step, o)
           b == ValidFrom(buf, at, step, o)
           w == SubSeq(b, 1, n)
           full == Len(b) >= n
           next == IF full THEN AddString(list, w, o) ELSE list
           j == at + step
<1>1. i \in Nat \ {0} /\ list \in Seq(OfLength(n)) /\ last \in Nat /\ Len(buf) \in Nat /\ n \in Nat /\ last <= Len(buf)
  BY DEF Steps
<1>2. SkipMoves(buf, n, step, o)[s] = <<j, next>>
  BY DEF SkipMoves, SkipMove, LastPosition
<1>3. at \in Nat /\ at >= i /\ at <= last + step
  <2> HIDE DEF i, last
  <2> QED BY <1>1, Skipped DEF i
<1>4. (at - i) % step = 0
  <2> HIDE DEF i, last
  <2>1. \E t \in Nat : at = i + step * t
    <3> DEFINE m == (last - i) \div step + 1
               S == {k \in 0 .. m : i + k * step > last \/ buf[i + k * step] \in o.valid}
    <3>1. at = i + step * Min(S)
      BY DEF SkipInvalid
    <3>2. m \in Nat /\ i + m * step > last
      <4>1. i \in Nat /\ last \in Nat /\ i <= last
        BY <1>1 DEF i
      <4> HIDE DEF i, last
      <4> QED BY <4>1, BehindLast
    <3>3. S \in SUBSET Nat /\ S # {}
      <4> HIDE DEF m
      <4>1. m \in S
        BY <3>2
      <4>2. \A k \in 0 .. m : k \in Nat
        BY <3>2
      <4>3. S \subseteq 0 .. m
        OBVIOUS
      <4> HIDE DEF S
      <4> QED BY <4>1, <4>2, <4>3
    <3> HIDE DEF S, m
    <3>4. Min(S) \in Nat
      BY <3>3, MinOf
    <3> QED BY <3>1, <3>4
  <2> HIDE DEF at
  <2>2. PICK t \in Nat : at = i + step * t
    BY <2>1
  <2>3. CASE step = 1
    BY <1>1, <2>2, <2>3
  <2>4. CASE step = 2
    BY <1>1, <2>2, <2>4
  <2> QED BY <2>3, <2>4
<1>5. i \in 1 .. Len(buf)
  BY <1>1
<1>6. ASSUME NEW p \in i .. last, p <= at, (p - i) % step = 0 PROVE ValidFrom(buf, p, step, o) = b
  <2> HIDE DEF i, last
  <2> QED BY <1>1, <1>6, SameBytes, SMTT(30) DEF i
<1>7. \A p \in i .. last : p <= at /\ (p - i) % step = 0 =>
        /\ due[p] = IF full THEN {w} ELSE {}
        /\ full => ToSet(w) \subseteq o.valid
  <2> SUFFICES ASSUME NEW p \in i .. last, p <= at, (p - i) % step = 0
               PROVE  due[p] = (IF full THEN {w} ELSE {}) /\ (full => ToSet(w) \subseteq o.valid)
    OBVIOUS
  <2>1. p \in 1 .. Len(buf)
    BY <1>1, SMTT(30)
  <2>2. ValidFrom(buf, p, step, o) = b
    BY <1>6
  <2>3. due[p] = StringsOf(SubSeq(buf, p, Len(buf)), n, step, o)
    BY <2>1 DEF DueAt
  <2>4. /\ StringsOf(SubSeq(buf, p, Len(buf)), n, step, o) =
             IF Len(ValidFrom(buf, p, step, o)) >= n THEN {SubSeq(ValidFrom(buf, p, step, o), 1, n)} ELSE {}
        /\ Len(ValidFrom(buf, p, step, o)) >= n => ToSet(SubSeq(ValidFrom(buf, p, step, o), 1, n)) \subseteq o.valid
    BY <1>0, <2>1
  <2> HIDE DEF b, due, i, last, at
  <2> QED BY <2>2, <2>3, <2>4
<1>8. i \in i .. last /\ i <= at /\ (i - i) % step = 0
  <2>1. (i - i) % step = 0
    BY <1>1
  <2> QED BY <1>1, <1>3, <2>1
<1>9. full => /\ w \in OfLength(n) /\ Fit(w, o) /\ due[i] = {w}
              /\ VariantsMade(w, o) \subseteq all
  <2> SUFFICES ASSUME full
               PROVE  /\ w \in OfLength(n) /\ Fit(w, o) /\ due[i] = {w}
                      /\ VariantsMade(w, o) \subseteq all
    OBVIOUS
  <2>1. due[i] = {w} /\ Fit(w, o)
    BY <1>7, <1>8 DEF Fit
  <2>2. w \in OfLength(n)
    <3>1. b \in Seq(Byte)
      <4>1. at \in Nat \ {0}
        BY <1>1, <1>3
      <4> HIDE DEF at
      <4> QED BY <4>1, ValidBytes
    <3>2. Len(b) >= n
      OBVIOUS
    <3> HIDE DEF b
    <3>3. SubSeq(b, 1, n) = [k \in 1 .. n |-> b[k]] /\ \A k \in 1 .. n : b[k] \in Byte
      BY <1>1, <3>1, <3>2
    <3> QED BY <3>3 DEF OfLength
  <2> HIDE DEF w, i
  <2>3. w \in due[i]
    BY <2>1
  <2> QED BY <1>5, <2>1, <2>2, <2>3, MadeOfDue DEF due, all
<1> HIDE DEF last, due, all, b, w, list, i, at
<1>10. /\ Closed(next, n, o) /\ ToSet(list) \subseteq ToSet(next)
       /\ ToSet(next) \subseteq ToSet(list) \cup all
       /\ full => Asked(w, o) \subseteq ToSet(next)
  <2>1. full \in BOOLEAN /\ Closed(list, n, o)
    BY DEF list
  <2> HIDE DEF full
  <2> QED BY <1>1, <1>9, <2>1, OneFound
<1>11. (j - i) % step = 0
  <2>1. CASE step = 1
    BY <1>1, <1>3, <2>1
  <2>2. CASE step = 2
    BY <1>1, <1>3, <1>4, <2>2
  <2> QED BY <2>1, <2>2
<1> HIDE DEF next
<1>12. ASSUME NEW p \in i .. last, p < j, (p - i) % step = 0, NEW t \in due[p]
       PROVE  Asked(t, o) \subseteq ToSet(next)
  <2>1. p <= at
    <3>1. CASE step = 1
      BY <1>1, <1>3, <1>12, <3>1
    <3>2. CASE step = 2
      BY <1>1, <1>3, <1>4, <1>12, <3>2
    <3> QED BY <3>1, <3>2
  <2>2. due[p] = IF full THEN {w} ELSE {}
    BY <1>7, <1>12, <2>1
  <2>3. t \in due[p]
    BY <1>12
  <2>4. full /\ t = w
    BY <2>2, <2>3
  <2> QED BY <1>10, <2>4
<1>13. Finds(n, last, step, o, due, all, s, j, next)
  BY <1>10, <1>12 DEF Finds, i, list
<1> QED BY <1>2, <1>11, <1>13 DEF i, next

\* What a pass over a buffer finds: nothing that is not due somewhere, and what is
\* due at every position that it comes to.
LEMMA PassGives ==
  ASSUME NEW n \in Nat \ {0}, NEW buf \in Seq(Byte), Len(buf) > n, NEW step \in {1, 2}, NEW o, GoodOpt(o)
  PROVE  /\ ToSet(pwdgen_img_extract(buf, n, step, o)) \subseteq AllDue(buf, n, step, o)
         /\ \A p \in 1 .. Len(buf) - n : (p - 1) % step = 0 =>
              \A t \in StringsOf(SubSeq(buf, p, Len(buf)), n, step, o) :
                Asked(t, o) \subseteq ToSet(pwdgen_img_extract(buf, n, step, o))
<1> DEFINE last == Len(buf) - n
           k == Kinds(o) + 1
           move == BreakMoves(buf, n, step, o)
           skip == SkipMoves(buf, n, step, o)
           due == DueAt(buf, n, step, o)
           all == AllDue(buf, n, step, o)
           s == <<1, << >> >>
<1>1. last \in Nat /\ last >= 1 /\ k \in Nat /\ LastPosition(Len(buf), n) = last
  BY KindsCounted DEF LastPosition
<1>2. GoesOn(n, last, step, k, move) /\ GoesOn(n, last, step, k, skip)
  BY BreakingGoesOn, SkippingGoesOn
<1>3. \A f : Walking(n, last, move, f) <=> Breaks(buf, n, step, o, f)
  <2>1. \A t \in Steps(n) : move[t] = BreakMove(buf, n, step, o, t)
    BY DEF BreakMoves
  <2> HIDE DEF last, move
  <2> QED BY <1>1, <2>1 DEF Walking, Breaks
<1>4. \A f : Walking(n, last, skip, f) <=> Skips(buf, n, step, o, f)
  <2>1. \A t \in Steps(n) : skip[t] = SkipMove(buf, n, step, o, t)
    BY DEF SkipMoves
  <2> HIDE DEF last, skip
  <2> QED BY <1>1, <2>1 DEF Walking, Skips
<1>5. s \in Steps(n)
  <2>1. << >> \in Seq(OfLength(n)) /\ 1 \in Nat \ {0}
    OBVIOUS
  <2> QED BY <2>1 DEF Steps
<1>6. ~o.skip_invalids => Misses(n, last, step, o, due, all, move)
  BY BreakingMisses
<1>7. o.skip_invalids => Misses(n, last, step, o, due, all, skip)
  BY SkippingMisses
<1>8. \A p \in 1 .. last : due[p] = StringsOf(SubSeq(buf, p, Len(buf)), n, step, o)
  BY <1>1 DEF DueAt
<1> HIDE DEF last, k, move, skip, due, all
<1>9. PICK f : Breaks(buf, n, step, o, f)
  BY <1>1, <1>2, <1>3, WalkExists
<1>10. PICK g : Skips(buf, n, step, o, g)
  BY <1>1, <1>2, <1>4, WalkExists
<1>11. PICK x, y : /\ Breaks(buf, n, step, o, x) /\ Skips(buf, n, step, o, y)
                   /\ pwdgen_img_extract(buf, n, step, o) =
                        IF Len(buf) <= n THEN << >>
                        ELSE IF o.skip_invalids THEN y[<<1, << >> >>] ELSE x[<<1, << >> >>]
  BY <1>9, <1>10, ExtractBy
<1>12. Closed(s[2], n, o)
  BY DEF Closed
<1>13. ~o.skip_invalids => Finds(n, last, step, o, due, all, s, last + 1, x[s])
  BY <1>1, <1>2, <1>3, <1>5, <1>6, <1>11, <1>12, WalkFinds
<1>14. o.skip_invalids => Finds(n, last, step, o, due, all, s, last + 1, y[s])
  BY <1>1, <1>2, <1>4, <1>5, <1>7, <1>11, <1>12, WalkFinds
<1> DEFINE r == pwdgen_img_extract(buf, n, step, o)
<1>15. r = IF o.skip_invalids THEN y[s] ELSE x[s]
  <2>1. ~(Len(buf) <= n)
    OBVIOUS
  <2> QED BY <1>11, <2>1
<1>16. Finds(n, last, step, o, due, all, s, last + 1, r)
  <2> HIDE DEF r, s
  <2> QED BY <1>13, <1>14, <1>15
<1> HIDE DEF r
<1>17. s[1] = 1 /\ s[2] = << >>
  OBVIOUS
<1>18. ToSet(r) \subseteq all
  <2>1. ToSet(<< >>) = {}
    BY DEF ToSet
  <2> HIDE DEF s
  <2> QED BY <1>16, <1>17, <2>1 DEF Finds
<1>19. \A p \in 1 .. last : (p - 1) % step = 0 => \A t \in due[p] : Asked(t, o) \subseteq ToSet(r)
  <2>1. \A p \in 1 .. last : p < last + 1
    BY <1>1
  <2> HIDE DEF s
  <2> QED BY <1>16, <1>17, <2>1 DEF Finds
<1> QED BY <1>8, <1>18, <1>19 DEF r, last, all

LEMMA AllDueAt ==
  ASSUME NEW buf, NEW n, NEW step, NEW o, NEW w \in AllDue(buf, n, step, o)
  PROVE  \E p \in 1 .. Len(buf) : \E t \in StringsOf(SubSeq(buf, p, Len(buf)), n, step, o) : w \in VariantsMade(t, o)
BY DEF AllDue, DueAt

\* What ends a buffer without its first byte ends the buffer.
LEMMA InTail ==
  ASSUME NEW buf \in Seq(Byte), buf # << >>, NEW p \in 1 .. Len(Tail(buf))
  PROVE  /\ SubSeq(Tail(buf), p, Len(Tail(buf))) = SubSeq(buf, p + 1, Len(buf))
         /\ p + 1 \in 1 .. Len(buf)
<1> DEFINE L == Len(buf)
           r == Tail(buf)
<1>1. L \in Nat \ {0} /\ Len(r) = L - 1 /\ r \in Seq(Byte) /\ \A k \in 1 .. L - 1 : r[k] = buf[k + 1]
  OBVIOUS
<1> HIDE DEF r
<1>2. p + 1 \in 1 .. L /\ p \in Nat \ {0} /\ p <= L - 1
  BY <1>1 DEF r
<1> DEFINE a == SubSeq(r, p, Len(r))
           b == SubSeq(buf, p + 1, L)
<1>3. a = [k \in 1 .. L - p |-> r[p + k - 1]]
  BY <1>1, <1>2
<1>4. b = [k \in 1 .. L - p |-> buf[p + 1 + k - 1]]
  BY <1>1, <1>2
<1>5. \A k \in 1 .. L - p : r[p + k - 1] = buf[p + 1 + k - 1]
  <2> TAKE k \in 1 .. L - p
  <2>1. p + k - 1 \in 1 .. L - 1 /\ (p + k - 1) + 1 = p + 1 + k - 1
    BY <1>1, <1>2
  <2> QED BY <1>1, <2>1
<1>6. a = b
  <2> HIDE DEF a, b
  <2> QED BY <1>3, <1>4, <1>5
<1> QED BY <1>2, <1>6 DEF a, b, r

\* What is extracted from a buffer: see PassGives.
BytesGive(buf, n, o, list) ==
  /\ \A p \in 1 .. Len(buf) - n : \A t \in Due(SubSeq(buf, p, Len(buf)), n, o) : Asked(t, o) \subseteq ToSet(list)
  /\ \A w \in ToSet(list) :
       \E p \in 1 .. Len(buf) : \E t \in Due(SubSeq(buf, p, Len(buf)), n, o) : w \in VariantsMade(t, o)

LEMMA AnyPassGives ==
  ASSUME NEW n \in Nat \ {0}, NEW buf \in Seq(Byte), NEW step \in {1, 2}, NEW o, GoodOpt(o)
  PROVE  /\ pwdgen_img_extract(buf, n, step, o) \in Seq(OfLength(n))
         /\ \A w \in ToSet(pwdgen_img_extract(buf, n, step, o)) :
              \E p \in 1 .. Len(buf) : \E t \in StringsOf(SubSeq(buf, p, Len(buf)), n, step, o) : w \in VariantsMade(t, o)
         /\ \A p \in 1 .. Len(buf) - n : (p - 1) % step = 0 =>
              \A t \in StringsOf(SubSeq(buf, p, Len(buf)), n, step, o) :
                Asked(t, o) \subseteq ToSet(pwdgen_img_extract(buf, n, step, o))
<1>1. CASE Len(buf) > n
  BY <1>1, APass, PassGives, AllDueAt
<1>2. CASE Len(buf) <= n
  <2> DEFINE r == pwdgen_img_extract(buf, n, step, o)
  <2>1. r = << >>
    BY <1>2, NoRoom
  <2>2. ToSet(r) = {} /\ r \in Seq(OfLength(n))
    BY <2>1 DEF ToSet
  <2>3. 1 .. Len(buf) - n = {}
    <3>1. Len(buf) \in Nat
      OBVIOUS
    <3> QED BY <1>2, <3>1
  <2> HIDE DEF r
  <2>4. /\ \A w \in ToSet(r) :
             \E p \in 1 .. Len(buf) : \E t \in StringsOf(SubSeq(buf, p, Len(buf)), n, step, o) : w \in VariantsMade(t, o)
        /\ \A p \in 1 .. Len(buf) - n : (p - 1) % step = 0 =>
             \A t \in StringsOf(SubSeq(buf, p, Len(buf)), n, step, o) : Asked(t, o) \subseteq ToSet(r)
    BY <2>2, <2>3, Zenon
  <2> QED BY <2>2, <2>4 DEF r
<1>3. Len(buf) \in Nat
  OBVIOUS
<1> QED BY <1>1, <1>2, <1>3

LEMMA BytesGiven ==
  ASSUME NEW n \in Nat \ {0}, NEW buf \in Seq(Byte), NEW o, GoodOpt(o), ~o.utf8
  PROVE  BytesGive(buf, n, o, Extracted(buf, n, o))
<1> DEFINE L == Len(buf)
           C == Seq(OfLength(n))
           Of(p, step) == StringsOf(SubSeq(buf, p, L), n, step, o)
           D(p) == Due(SubSeq(buf, p, L), n, o)
           a == pwdgen_img_extract(buf, n, 1, o)
           b == IF o.even_odd THEN pwdgen_img_extract(buf, n, 2, o) ELSE << >>
           c == IF o.even_odd /\ L > 1 THEN pwdgen_img_extract(Tail(buf), n, 2, o) ELSE << >>
           r == Extracted(buf, n, o)
<1>1. r = a \o b \o c
  BY DEF Extracted
<1>2. L \in Nat /\ << >> \in C /\ ToSet(<< >>) = {}
  BY DEF ToSet
<1>3. \A p : D(p) = Of(p, 1) \cup (IF o.even_odd THEN Of(p, 2) ELSE {})
  BY DEF Due
<1>4. /\ a \in C
      /\ \A w \in ToSet(a) : \E p \in 1 .. L : \E t \in Of(p, 1) : w \in VariantsMade(t, o)
      /\ \A p \in 1 .. L - n : \A t \in Of(p, 1) : Asked(t, o) \subseteq ToSet(a)
  <2>1. \A p \in 1 .. L - n : (p - 1) % 1 = 0
    BY <1>2
  <2>2. 1 \in {1, 2}
    OBVIOUS
  <2> QED BY <2>1, <2>2, AnyPassGives
<1>5. /\ b \in C
      /\ \A w \in ToSet(b) : o.even_odd /\ \E p \in 1 .. L : \E t \in Of(p, 2) : w \in VariantsMade(t, o)
      /\ o.even_odd => \A p \in 1 .. L - n : (p - 1) % 2 = 0 => \A t \in Of(p, 2) : Asked(t, o) \subseteq ToSet(b)
  <2>1. 2 \in {1, 2}
    OBVIOUS
  <2>2. CASE o.even_odd
    BY <2>1, <2>2, AnyPassGives
  <2>3. CASE ~o.even_odd
    BY <1>2, <2>3
  <2> QED BY <2>2, <2>3
<1>6. /\ c \in C
      /\ \A w \in ToSet(c) : o.even_odd /\ \E p \in 1 .. L : \E t \in Of(p, 2) : w \in VariantsMade(t, o)
      /\ o.even_odd => \A p \in 1 .. L - n : (p - 2) % 2 = 0 => \A t \in Of(p, 2) : Asked(t, o) \subseteq ToSet(c)
  <2>1. CASE o.even_odd /\ L > 1
    <3> DEFINE rest == Tail(buf)
               c1 == pwdgen_img_extract(rest, n, 2, o)
    <3>1. rest \in Seq(Byte) /\ Len(rest) = L - 1 /\ buf # << >>
      BY <1>2, <2>1
    <3>2. \A p \in 1 .. Len(rest) : SubSeq(rest, p, Len(rest)) = SubSeq(buf, p + 1, L) /\ p + 1 \in 1 .. L
      BY <3>1, InTail
    <3>3. c = c1
      BY <2>1
    <3> HIDE DEF rest
    <3>4. /\ c1 \in C
          /\ \A w \in ToSet(c1) :
               \E p \in 1 .. Len(rest) : \E t \in StringsOf(SubSeq(rest, p, Len(rest)), n, 2, o) : w \in VariantsMade(t, o)
          /\ \A p \in 1 .. Len(rest) - n : (p - 1) % 2 = 0 =>
               \A t \in StringsOf(SubSeq(rest, p, Len(rest)), n, 2, o) : Asked(t, o) \subseteq ToSet(c1)
      <4>1. 2 \in {1, 2}
        OBVIOUS
      <4> QED BY <3>1, <4>1, AnyPassGives
    <3> HIDE DEF c1
    <3>5. \A w \in ToSet(c1) : \E p \in 1 .. L : \E t \in Of(p, 2) : w \in VariantsMade(t, o)
      <4> TAKE w \in ToSet(c1)
      <4>1. PICK p \in 1 .. Len(rest) : \E t \in StringsOf(SubSeq(rest, p, Len(rest)), n, 2, o) : w \in VariantsMade(t, o)
        BY <3>4
      <4> DEFINE q == p + 1
      <4>2. SubSeq(rest, p, Len(rest)) = SubSeq(buf, q, L) /\ q \in 1 .. L
        BY <3>2
      <4> HIDE DEF q
      <4> QED BY <4>1, <4>2
    <3>6. ASSUME NEW p \in 1 .. L - n, (p - 2) % 2 = 0, NEW t \in Of(p, 2)
          PROVE  Asked(t, o) \subseteq ToSet(c1)
      <4> DEFINE q == p - 1
      <4>1. q \in 1 .. Len(rest) - n /\ q \in 1 .. Len(rest) /\ q + 1 = p /\ (q - 1) % 2 = 0
        BY <1>2, <3>1, <3>6
      <4> HIDE DEF q
      <4>2. SubSeq(rest, q, Len(rest)) = SubSeq(buf, p, L)
        BY <3>2, <4>1
      <4>3. t \in StringsOf(SubSeq(rest, q, Len(rest)), n, 2, o)
        BY <3>6, <4>2
      <4> QED BY <3>4, <4>1, <4>3
    <3> HIDE DEF c
    <3> QED BY <2>1, <3>3, <3>4, <3>5, <3>6
  <2>2. CASE ~(o.even_odd /\ L > 1)
    <3>1. c = << >>
      BY <2>2
    <3>2. o.even_odd => 1 .. L - n = {} 
      BY <1>2, <2>2
    <3> HIDE DEF c
    <3> QED BY <1>2, <3>1, <3>2
  <2> QED BY <2>1, <2>2
<1> HIDE DEF L, Of, D, a, b, c, r
<1>7. ToSet(r) = ToSet(a) \cup ToSet(b) \cup ToSet(c)
  <2> DEFINE W == OfLength(n)
  <2>1. a \in Seq(W) /\ b \in Seq(W) /\ c \in Seq(W)
    BY <1>4, <1>5, <1>6
  <2> HIDE DEF W
  <2> DEFINE ab == a \o b
  <2>2. ab \in Seq(W) /\ ToSet(ab) = ToSet(a) \cup ToSet(b)
    BY <2>1, SetOfJoined
  <2> HIDE DEF ab
  <2>3. ToSet(ab \o c) = ToSet(ab) \cup ToSet(c)
    BY <2>1, <2>2, SetOfJoined
  <2> QED BY <1>1, <2>2, <2>3 DEF ab
<1>8. ASSUME NEW p \in 1 .. L - n, NEW t \in D(p) PROVE Asked(t, o) \subseteq ToSet(r)
  <2>1. CASE t \in Of(p, 1)
    BY <1>4, <1>7, <2>1
  <2>2. CASE o.even_odd /\ t \in Of(p, 2)
    <3>1. (p - 1) % 2 = 0 \/ (p - 2) % 2 = 0
      BY <1>2
    <3> QED BY <1>5, <1>6, <1>7, <2>2, <3>1
  <2> QED BY <1>3, <1>8, <2>1, <2>2
<1>9. ASSUME NEW w \in ToSet(r) PROVE \E p \in 1 .. L : \E t \in D(p) : w \in VariantsMade(t, o)
  <2>1. CASE w \in ToSet(a)
    <3>1. PICK p \in 1 .. L : \E t \in Of(p, 1) : w \in VariantsMade(t, o)
      BY <1>4, <2>1
    <3> QED BY <1>3, <3>1
  <2>2. CASE w \in ToSet(b) \cup ToSet(c)
    <3>1. o.even_odd
      BY <1>5, <1>6, <2>2
    <3>2. PICK p \in 1 .. L : \E t \in Of(p, 2) : w \in VariantsMade(t, o)
      BY <1>5, <1>6, <2>2
    <3>3. Of(p, 2) \subseteq D(p)
      BY <1>3, <3>1
    <3> QED BY <3>2, <3>3
  <2> QED BY <1>7, <1>9, <2>1, <2>2
<1> QED BY <1>8, <1>9 DEF BytesGive, r, D, L

-----------------------------------------------------------------------------
(***************************************************************************)
(* Characters of UTF-8: what is returned is made of them, and what is made *)
(* of them is returned.                                                    *)
(***************************************************************************)
Started(s, k) == \E i \in 1 .. Len(s) : StartsCharacter(s[i]) /\ k > i /\ k <= i + Need(s[i])

\* WellFormed, byte by byte.
LEMMA ByBytes ==
  ASSUME NEW s \in Seq(Byte)
  PROVE  WellFormed(s) <=>
           /\ \A i \in 1 .. Len(s) : StartsCharacter(s[i]) =>
                /\ i + Need(s[i]) <= Len(s)
                /\ \A k \in i + 1 .. i + Need(s[i]) : IsFollowUp(s[k])
           /\ \A k \in 1 .. Len(s) : StartsCharacter(s[k]) \/ Started(s, k)
<1> DEFINE L == Len(s)
           Rest(i) == i + 1 .. i + Need(s[i])
           starts  == {i \in DOMAIN s : StartsCharacter(s[i])}
           Whole == \A i \in 1 .. L : StartsCharacter(s[i]) =>
                      i + Need(s[i]) <= L /\ \A k \in i + 1 .. i + Need(s[i]) : IsFollowUp(s[k])
           All == \A k \in 1 .. L : StartsCharacter(s[k]) \/ Started(s, k)
<1>1. L \in Nat /\ DOMAIN s = 1 .. L
  OBVIOUS
<1>2. \A i \in starts : i \in 1 .. L /\ Need(s[i]) \in Nat /\ StartsCharacter(s[i])
  <2> TAKE i \in starts
  <2>1. s[i] \in Byte /\ StartsCharacter(s[i]) /\ i \in 1 .. L
    BY <1>1
  <2> QED BY <2>1, FollowUps
<1>3. WellFormed(s) <=>
        /\ \A i \in starts : Rest(i) \subseteq DOMAIN s /\ Rest(i) \cap starts = {}
        /\ DOMAIN s = starts \cup UNION {Rest(i) : i \in starts}
        /\ \A i \in starts : \A k \in Rest(i) : IsFollowUp(s[k])
  BY DEF WellFormed
<1>4. (\A i \in starts : \A k \in Rest(i) : IsFollowUp(s[k])) => \A i \in starts : Rest(i) \cap starts = {}
  BY DEF StartsCharacter
<1>5. (\A i \in starts : Rest(i) \subseteq DOMAIN s) <=> \A i \in starts : i + Need(s[i]) <= L
  <2>1. ASSUME NEW i \in starts PROVE Rest(i) \subseteq DOMAIN s <=> i + Need(s[i]) <= L
    <3> DEFINE d == Need(s[i])
    <3>1. d \in Nat /\ i \in 1 .. L
      BY <1>2
    <3> HIDE DEF d, starts
    <3>2. i + 1 .. i + d \subseteq 1 .. L <=> i + d <= L
      <4>1. CASE d = 0
        BY <1>1, <3>1, <4>1
      <4>2. CASE d # 0
        <5>1. i + d \in i + 1 .. i + d
          BY <1>1, <3>1, <4>2
        <5> QED BY <1>1, <3>1, <5>1
      <4> QED BY <4>1, <4>2
    <3> QED BY <1>1, <3>2 DEF d
  <2> HIDE DEF Rest, starts
  <2> QED BY <2>1
<1>6. \A k \in 1 .. L : Started(s, k) <=> k \in UNION {Rest(i) : i \in starts}
  <2> TAKE k \in 1 .. L
  <2>1. k \in UNION {Rest(i) : i \in starts} <=> \E i \in starts : k \in Rest(i)
    OBVIOUS
  <2>2. ASSUME NEW i \in starts PROVE k \in Rest(i) <=> k > i /\ k <= i + Need(s[i])
    <3> DEFINE d == Need(s[i])
    <3>1. d \in Nat /\ i \in 1 .. L
      BY <1>2
    <3> HIDE DEF d, starts
    <3>2. k \in i + 1 .. i + d <=> k > i /\ k <= i + d
      BY <1>1, <3>1
    <3> QED BY <3>2 DEF d
  <2>3. Started(s, k) <=> \E i \in starts : k > i /\ k <= i + Need(s[i])
    BY <1>1 DEF Started
  <2> HIDE DEF Rest, starts
  <2> QED BY <2>1, <2>2, <2>3
<1>7. Whole <=> /\ \A i \in starts : i + Need(s[i]) <= L
                /\ \A i \in starts : \A k \in Rest(i) : IsFollowUp(s[k])
  BY <1>1
<1>8. (\A i \in starts : Rest(i) \subseteq DOMAIN s) =>
        (DOMAIN s = starts \cup UNION {Rest(i) : i \in starts} <=> All)
  <2> DEFINE U == UNION {Rest(i) : i \in starts}
  <2>1. All <=> \A k \in 1 .. L : k \in starts \/ k \in U
    <3>1. \A k \in 1 .. L : k \in starts <=> StartsCharacter(s[k])
      BY <1>1
    <3> HIDE DEF starts, U
    <3> QED BY <1>6, <3>1 DEF U
  <2>2. (\A i \in starts : Rest(i) \subseteq DOMAIN s) => starts \cup U \subseteq DOMAIN s
    <3> HIDE DEF Rest
    <3> QED OBVIOUS
  <2> HIDE DEF starts, U
  <2> QED BY <1>1, <2>1, <2>2 DEF U
<1> HIDE DEF starts, Rest, Whole, All
<1>9. WellFormed(s) <=> Whole /\ All
  BY <1>3, <1>4, <1>5, <1>7, <1>8
<1> QED BY <1>9 DEF Whole, All, L

LEMMA NothingWellFormed == WellFormed(<< >>)
<1>1. << >> \in Seq(Byte) /\ Len(<< >>) = 0
  OBVIOUS
<1>2. 1 .. Len(<< >>) = {}
  OBVIOUS
<1> QED BY <1>1, <1>2, ByBytes

\* With another character it stays well formed.
LEMMA CharAdded ==
  ASSUME NEW s \in Seq(Byte), WellFormed(s), NEW c \in Seq(Byte), c # << >>, StartsCharacter(c[1]),
         Len(c) = Need(c[1]) + 1, \A k \in 2 .. Len(c) : IsFollowUp(c[k])
  PROVE  WellFormed(s \o c)
<1> DEFINE L == Len(s)
           M == Len(c)
           u == s \o c
           St(i) == StartsCharacter(u[i])
<1>1. L \in Nat /\ M \in Nat /\ M >= 1 /\ u \in Seq(Byte) /\ Len(u) = L + M
  OBVIOUS
<1>2. /\ \A k \in 1 .. L : u[k] = s[k]
      /\ \A k \in 1 .. M : u[L + k] = c[k]
  OBVIOUS
<1> HIDE DEF L, M, u
<1>3. u[L + 1] = c[1] /\ Need(c[1]) = M - 1
  <2>1. 1 \in 1 .. M
    BY <1>1
  <2>2. c[1] \in Byte
    BY <2>1 DEF M
  <2>3. Need(c[1]) \in Nat
    BY <2>2, FollowUps
  <2>4. u[L + 1] = c[1]
    BY <1>2, <2>1
  <2>5. M = Need(c[1]) + 1
    BY DEF M
  <2>6. Need(c[1]) = M - 1
    <3> DEFINE d == Need(c[1])
    <3>1. d \in Nat /\ M = d + 1
      BY <2>3, <2>5
    <3> HIDE DEF d
    <3>2. d = M - 1
      BY <1>1, <3>1
    <3> QED BY <3>2 DEF d
  <2> QED BY <2>4, <2>6
<1>4. \A k \in L + 2 .. L + M : IsFollowUp(u[k])
  <2> TAKE k \in L + 2 .. L + M
  <2>1. k - L \in 2 .. M /\ k - L \in 1 .. M /\ L + (k - L) = k
    BY <1>1
  <2>2. u[L + (k - L)] = c[k - L]
    BY <1>2, <2>1
  <2> QED BY <2>1, <2>2 DEF M
<1>5. /\ \A i \in 1 .. L : StartsCharacter(s[i]) =>
           i + Need(s[i]) <= L /\ \A k \in i + 1 .. i + Need(s[i]) : IsFollowUp(s[k])
      /\ \A k \in 1 .. L : StartsCharacter(s[k]) \/ Started(s, k)
  BY ByBytes DEF L
<1>6. \A i \in 1 .. L : StartsCharacter(s[i]) => Need(s[i]) \in Nat
  <2>1. \A i \in 1 .. L : s[i] \in Byte
    BY DEF L
  <2> QED BY <2>1, FollowUps
<1>7. \A k \in L + 2 .. L + M : ~St(k)
  BY <1>4 DEF StartsCharacter
<1>8. ASSUME NEW i \in 1 .. L + M, St(i)
      PROVE  i + Need(u[i]) <= L + M /\ \A k \in i + 1 .. i + Need(u[i]) : IsFollowUp(u[k])
  <2>1. CASE i \in 1 .. L
    <3>1. u[i] = s[i] /\ StartsCharacter(s[i])
      BY <1>2, <1>8, <2>1
    <3> DEFINE d == Need(s[i])
    <3>2. d \in Nat /\ i + d <= L /\ \A k \in i + 1 .. i + d : IsFollowUp(s[k])
      BY <1>5, <1>6, <2>1, <3>1
    <3> HIDE DEF d
    <3>3. \A k \in i + 1 .. i + d : k \in 1 .. L
      BY <1>1, <2>1, <3>2
    <3>4. \A k \in i + 1 .. i + d : IsFollowUp(u[k])
      BY <1>2, <3>2, <3>3
    <3>5. i + d <= L + M
      BY <1>1, <2>1, <3>2
    <3> QED BY <3>1, <3>4, <3>5 DEF d
  <2>2. CASE i = L + 1
    <3>1. Need(u[i]) = M - 1 /\ i + (M - 1) = L + M /\ i + 1 = L + 2
      BY <1>1, <1>3, <2>2
    <3> QED BY <1>1, <1>4, <3>1
  <2>3. CASE i \in L + 2 .. L + M
    BY <1>7, <1>8, <2>3
  <2> QED BY <1>1, <1>8, <2>1, <2>2, <2>3
<1>9. ASSUME NEW k \in 1 .. L + M PROVE St(k) \/ Started(u, k)
  <2>1. CASE k \in 1 .. L
    <3>1. CASE StartsCharacter(s[k])
      BY <1>2, <2>1, <3>1
    <3>2. CASE Started(s, k)
      <4>1. PICK i \in 1 .. L : StartsCharacter(s[i]) /\ k > i /\ k <= i + Need(s[i])
        BY <3>2 DEF Started, L
      <4>2. u[i] = s[i] /\ i \in 1 .. L + M
        BY <1>1, <1>2
      <4> QED BY <1>1, <4>1, <4>2 DEF Started
    <3> QED BY <1>5, <2>1, <3>1, <3>2
  <2>2. CASE k = L + 1
    BY <1>3, <2>2
  <2>3. CASE k \in L + 2 .. L + M
    <3> DEFINE i == L + 1
    <3>1. i \in 1 .. L + M /\ k > i /\ k <= i + (M - 1)
      BY <1>1, <2>3
    <3>2. St(i) /\ Need(u[i]) = M - 1
      BY <1>3
    <3> HIDE DEF i
    <3> QED BY <1>1, <3>1, <3>2 DEF Started
  <2> QED BY <1>1, <2>1, <2>2, <2>3
<1>10. WellFormed(u)
  BY <1>1, <1>8, <1>9, ByBytes
<1> QED BY <1>10 DEF u

LEMMA PartOf ==
  ASSUME NEW buf \in Seq(Byte), NEW p \in Nat \ {0}, NEW e \in p .. Len(buf)
  PROVE  /\ SubSeq(buf, p, e) \in Seq(Byte) /\ Len(SubSeq(buf, p, e)) = (e - p) + 1
         /\ \A k \in 1 .. (e - p) + 1 : SubSeq(buf, p, e)[k] = buf[p + k - 1]
<1>1. e \in Nat /\ e >= p /\ e <= Len(buf) /\ Len(buf) \in Nat
  OBVIOUS
<1> QED BY <1>1

LEMMA InJoined ==
  ASSUME NEW s \in Seq(Byte), NEW c \in Seq(Byte)
  PROVE  /\ s \o c \in Seq(Byte) /\ Len(s \o c) = Len(s) + Len(c)
         /\ \A x \in 1 .. Len(s) : (s \o c)[x] = s[x]
         /\ \A y \in 1 .. Len(c) : (s \o c)[Len(s) + y] = c[y]
OBVIOUS

\* Every string that is returned is made of characters.
LEMMA ScannedWell ==
  ASSUME NEW n \in Nat, NEW buf \in Seq(Byte), NEW i \in 1 .. Len(buf)
  PROVE  WellFormed(Utf8String(buf, i, n))
<1> DEFINE D == CharPlaces(buf, n)
           m == Behind(buf, n)
           L == Len(buf)
<1>1. L \in Nat /\ m \in [D -> Nat]
  BY BehindType
<1>2. PICK f : Scanning(buf, n, f) /\ Utf8String(buf, i, n) = f[<<i, << >> >>]
  <2>1. PICK g : Scanning(buf, n, g)
    BY ScanExists
  <2> QED BY <2>1, ScanBy
<1> DEFINE P == {at \in D : WellFormed(at[2]) => WellFormed(f[at])}
<1>3. ASSUME NEW at \in D, \A x \in D : m[x] < m[at] => x \in P PROVE at \in P
  <2> DEFINE pos == at[1]
             s == at[2]
             b == buf[pos]
             need == Need(b)
             bad == BrokenFollowUp(buf, pos)
  <2> SUFFICES ASSUME WellFormed(s) PROVE WellFormed(f[at])
    OBVIOUS
  <2>1. f[at] = CharStep(buf, n, f, at)
    BY <1>2 DEF Scanning
  <2>2. pos \in Nat /\ pos >= 1 /\ pos <= L + 1 /\ s \in Seq(Byte) /\ Len(s) <= n /\ Len(s) \in Nat
    BY DEF CharPlaces, Taken
  <2>3. ASSUME NEW p \in Nat, p > pos, p <= L + 1, NEW t \in Seq(Byte), Len(t) <= n, WellFormed(t)
        PROVE  WellFormed(f[<<p, t>>])
    <3> DEFINE next == <<p, t>>
    <3>1. Later(buf, n, at, next)
      BY <2>3, ALater
    <3>2. next[2] = t
      OBVIOUS
    <3> HIDE DEF next
    <3>3. next \in P
      BY <1>3, <3>1 DEF Later
    <3> QED BY <2>3, <3>2, <3>3 DEF next
  <2>4. CASE Len(s) = n
    BY <2>1, <2>4 DEF CharStep
  <2>5. CASE Len(s) # n /\ pos > L
    BY <2>1, <2>5, NothingWellFormed DEF CharStep
  <2>6. CASE Len(s) # n /\ ~(pos > L) /\ ~StartsCharacter(b)
    <3>1. f[at] = f[<<pos + 1, s>>]
      BY <2>1, <2>6 DEF CharStep
    <3> DEFINE p == pos + 1
    <3>2. p \in Nat /\ p > pos /\ p <= L + 1
      <4> HIDE DEF pos, L
      <4> QED BY <1>1, <2>2, <2>6
    <3> HIDE DEF p
    <3>3. WellFormed(f[<<p, s>>])
      BY <2>2, <2>3, <3>2
    <3> QED BY <3>1, <3>3 DEF p
  <2>7. CASE Len(s) # n /\ ~(pos > L) /\ StartsCharacter(b)
    <3>1. pos \in 1 .. L /\ b \in Byte
      BY <1>1, <2>2, <2>7
    <3>2. need \in Nat
      <4> HIDE DEF b
      <4> QED BY <2>7, <3>1, FollowUps
    <3>3. CASE need > 0 /\ (pos + need > L \/ Len(s) + need >= n)
      BY <2>1, <2>7, <3>3, NothingWellFormed DEF CharStep
    <3>4. CASE ~(need > 0 /\ (pos + need > L \/ Len(s) + need >= n)) /\ bad = {}
      <4> DEFINE c == SubSeq(buf, pos, pos + need)
                 p == pos + 1
      <4>1. pos + need <= L /\ Len(s) + need < n
        <5> HIDE DEF need, L, pos, s
        <5> QED BY <1>1, <2>2, <2>7, <3>1, <3>2, <3>4
      <4>2. c \in Seq(Byte) /\ Len(c) = need + 1 /\ \A k \in 1 .. need + 1 : c[k] = buf[pos + k - 1]
        <5> HIDE DEF need, pos
        <5> DEFINE e == pos + need
        <5>1. e \in pos .. Len(buf) /\ e \in Nat /\ pos \in Nat \ {0}
          BY <1>1, <3>1, <3>2, <4>1 DEF L
        <5>2. (e - pos) + 1 = need + 1
          BY <3>1, <3>2
        <5> HIDE DEF e
        <5>3. /\ SubSeq(buf, pos, e) \in Seq(Byte) /\ Len(SubSeq(buf, pos, e)) = (e - pos) + 1
              /\ \A k \in 1 .. (e - pos) + 1 : SubSeq(buf, pos, e)[k] = buf[pos + k - 1]
          BY <5>1, PartOf
        <5> QED BY <5>2, <5>3 DEF e
      <4>3. c # << >> /\ c[1] = b
        <5>1. 1 \in 1 .. need + 1 /\ pos + 1 - 1 = pos
          BY <2>2, <3>2
        <5>2. c[1] = buf[pos + 1 - 1] /\ Len(c) # 0
          <6> HIDE DEF c, pos, need
          <6> QED BY <3>2, <4>2, <5>1
        <5> HIDE DEF c, pos
        <5> QED BY <5>1, <5>2
      <4>4. \A k \in 2 .. Len(c) : IsFollowUp(c[k])
        <5> TAKE k \in 2 .. Len(c)
        <5> HIDE DEF c, need
        <5>1. k - 1 \in 1 .. need /\ pos + k - 1 = pos + (k - 1) /\ k \in 1 .. need + 1
          BY <2>2, <3>2, <4>2
        <5>2. \A j \in 1 .. need : IsFollowUp(buf[pos + j])
          <6>1. bad = {j \in 1 .. need : ~IsFollowUp(buf[pos + j])}
            BY DEF BrokenFollowUp, need
          <6> HIDE DEF bad
          <6> QED BY <3>4, <6>1
        <5>3. c[k] = buf[pos + (k - 1)]
          <6> HIDE DEF pos
          <6> QED BY <4>2, <5>1
        <5> HIDE DEF pos
        <5> QED BY <5>1, <5>2, <5>3
      <4> DEFINE u == s \o c
      <4>5. WellFormed(u)
        <5> HIDE DEF c
        <5>1. StartsCharacter(c[1]) /\ Len(c) = Need(c[1]) + 1
          <6> HIDE DEF b
          <6> QED BY <2>7, <4>2, <4>3
        <5> HIDE DEF s
        <5> QED BY <2>2, <4>2, <4>3, <4>4, <5>1, CharAdded DEF s
      <4>6. u \in Seq(Byte) /\ Len(u) <= n
        <5> HIDE DEF c, s
        <5>1. u \in Seq(Byte) /\ Len(u) = Len(s) + Len(c)
          <6>1. s \in Seq(Byte) /\ c \in Seq(Byte)
            BY <2>2, <4>2
          <6> QED BY <6>1
        <5> HIDE DEF u, need
        <5> QED BY <2>2, <3>2, <4>1, <4>2, <5>1
      <4>7. p \in Nat /\ p > pos /\ p <= L + 1
        <5> HIDE DEF pos, L
        <5> QED BY <1>1, <2>2, <2>7
      <4>8. f[at] = f[<<p, u>>]
        BY <2>1, <2>7, <3>4 DEF CharStep
      <4> HIDE DEF u, p
      <4>9. WellFormed(f[<<p, u>>])
        BY <2>3, <4>5, <4>6, <4>7
      <4> QED BY <4>8, <4>9
    <3>5. CASE ~(need > 0 /\ (pos + need > L \/ Len(s) + need >= n)) /\ bad # {}
      <4> DEFINE p == pos + Min(bad)
      <4>1. f[at] = f[<<p, s>>]
        BY <2>1, <2>7, <3>5 DEF CharStep
      <4>2. Min(bad) \in 1 .. need
        <5>1. bad \subseteq 1 .. need /\ 1 .. need \subseteq Nat
          BY <3>2 DEF BrokenFollowUp
        <5> HIDE DEF bad, need
        <5>2. bad \in SUBSET Nat /\ bad # {}
          BY <3>5, <5>1
        <5>3. Min(bad) \in bad
          BY <5>2, MinOf
        <5> QED BY <5>1, <5>3
      <4>3. pos + need <= L
        <5>1. need > 0
          <6> HIDE DEF need, bad
          <6> QED BY <3>2, <4>2
        <5> HIDE DEF need, L, pos, s
        <5> QED BY <1>1, <2>2, <3>1, <3>2, <3>5, <5>1
      <4>4. p \in Nat /\ p > pos /\ p <= L + 1
        <5> DEFINE q == Min(bad)
        <5>1. q \in 1 .. need
          BY <4>2
        <5> HIDE DEF need, L, pos, q
        <5>2. pos + q \in Nat /\ pos + q > pos /\ pos + q <= L + 1
          BY <1>1, <2>2, <3>2, <5>1, <4>3
        <5> QED BY <5>2 DEF q
      <4> HIDE DEF p
      <4>5. WellFormed(f[<<p, s>>])
        BY <2>2, <2>3, <4>4
      <4> QED BY <4>1, <4>5
    <3> QED BY <2>7, <3>3, <3>4, <3>5
  <2> QED BY <2>4, <2>5, <2>6, <2>7
<1>4. \A at \in D : at \in P
  <2> HIDE DEF D, m, P
  <2> QED BY <1>1, <1>3, AllOf
<1>5. <<i, << >> >> \in D
  <2>1. i \in 1 .. L + 1
    BY <1>1
  <2>2. << >> \in Seq(Byte) /\ Len(<< >>) <= n
    OBVIOUS
  <2>3. << >> \in Taken(n)
    BY <2>2 DEF Taken
  <2> QED BY <2>1, <2>3 DEF CharPlaces
<1> DEFINE start == <<i, << >> >>
<1>6. WellFormed(start[2])
  BY NothingWellFormed
<1>7. WellFormed(f[start])
  <2> HIDE DEF start
  <2>1. start \in P
    BY <1>4, <1>5 DEF start
  <2> QED BY <1>6, <2>1
<1> QED BY <1>2, <1>7

\* A scan inside a string: the first bytes are taken, the next one starts a character.
InString(t, n, a, k) ==
  /\ a <= k
  /\ k = n \/ StartsCharacter(t[k + 1])
  /\ \A x \in a + 1 .. k : ~StartsCharacter(t[x])

\* What is made of characters is returned where it starts.
LEMMA WellScanned ==
  ASSUME NEW n \in Nat \ {0}, NEW buf \in Seq(Byte), NEW p \in Nat \ {0}, p + n - 1 <= Len(buf),
         WellFormed(SubSeq(buf, p, p + n - 1))
  PROVE  Utf8String(buf, p, n) = SubSeq(buf, p, p + n - 1) /\ StartsCharacter(buf[p])
<1> DEFINE D == CharPlaces(buf, n)
           m == Behind(buf, n)
           L == Len(buf)
           t == SubSeq(buf, p, p + n - 1)
           e == p + n - 1
<1>1. L \in Nat /\ m \in [D -> Nat] /\ n \in Nat /\ n >= 1
  BY BehindType
<1>2. PICK f : Scanning(buf, n, f) /\ Utf8String(buf, p, n) = f[<<p, << >> >>]
  <2>1. PICK g : Scanning(buf, n, g)
    BY <1>1, ScanExists
  <2> QED BY <2>1, ScanBy, SMTT(30)
<1>3. t \in Seq(Byte) /\ Len(t) = n /\ \A k \in 1 .. n : t[k] = buf[p + k - 1] /\ t[k] \in Byte
  <2>1. e \in p .. Len(buf) /\ (e - p) + 1 = n
    BY <1>1
  <2> HIDE DEF e
  <2>2. SubSeq(buf, p, e) \in Seq(Byte) /\ Len(SubSeq(buf, p, e)) = n
        /\ \A k \in 1 .. n : SubSeq(buf, p, e)[k] = buf[p + k - 1]
    BY <2>1, PartOf
  <2>3. t = SubSeq(buf, p, e)
    BY DEF e
  <2> HIDE DEF t
  <2>4. t \in Seq(Byte) /\ Len(t) = n
    BY <2>2, <2>3
  <2>5. \A k \in 1 .. n : t[k] \in Byte
    BY <2>4
  <2> QED BY <2>2, <2>3, <2>4, <2>5
<1>14. p + n - 1 <= L /\ p \in Nat /\ p >= 1 /\ L = Len(buf)
  OBVIOUS
<1> HIDE DEF e, L
<1>4. /\ \A i \in 1 .. n : StartsCharacter(t[i]) =>
           i + Need(t[i]) <= n /\ \A k \in i + 1 .. i + Need(t[i]) : IsFollowUp(t[k])
      /\ \A k \in 1 .. n : StartsCharacter(t[k]) \/ Started(t, k)
  <2>1. WellFormed(t)
    OBVIOUS
  <2> HIDE DEF t
  <2> QED BY <1>3, <2>1, ByBytes
<1> HIDE DEF t
<1>5. \A i \in 1 .. n : StartsCharacter(t[i]) => Need(t[i]) \in Nat
  BY <1>3, FollowUps
<1>6. StartsCharacter(t[1])
  <2>1. 1 \in 1 .. n
    BY <1>1
  <2>2. ~Started(t, 1)
    <3> SUFFICES ASSUME Started(t, 1) PROVE FALSE
      OBVIOUS
    <3>1. PICK i \in 1 .. Len(t) : 1 > i
      BY DEF Started
    <3> QED BY <1>1, <1>3, <3>1
  <2> QED BY <1>4, <2>1, <2>2
<1>7. \A k \in 0 .. n : SubSeq(t, 1, k) \in Seq(Byte) /\ Len(SubSeq(t, 1, k)) = k
  BY <1>1, <1>3
<1> DEFINE P == {at \in D : \A a, k \in 0 .. n :
                   at = <<p + a, SubSeq(t, 1, k)>> /\ InString(t, n, a, k) => f[at] = t}
<1>8. ASSUME NEW at \in D, \A x \in D : m[x] < m[at] => x \in P PROVE at \in P
  <2> SUFFICES ASSUME NEW a \in 0 .. n, NEW k \in 0 .. n, at = <<p + a, SubSeq(t, 1, k)>>, InString(t, n, a, k)
               PROVE  f[at] = t
    OBVIOUS
  <2> DEFINE pos == p + a
             s == SubSeq(t, 1, k)
             b == buf[pos]
             need == Need(b)
             bad == BrokenFollowUp(buf, pos)
  <2>1. f[at] = CharStep(buf, n, f, at)
    BY <1>2 DEF Scanning
  <2>20. s \in Seq(Byte) /\ Len(s) = k
    BY <1>7
  <2>3. at[1] = pos /\ at[2] = s
    OBVIOUS
  <2> HIDE DEF s
  <2>21. pos \in Nat /\ pos >= 1 /\ a \in Nat /\ k \in Nat /\ a <= k /\ k <= n
    BY <1>1, <1>14 DEF InString
  <2>2. pos \in Nat /\ pos >= 1 /\ s \in Seq(Byte) /\ Len(s) = k /\ a \in Nat /\ k \in Nat /\ a <= k /\ k <= n
    BY <2>20, <2>21
  <2>4. ASSUME NEW a1 \in 0 .. n, NEW k1 \in 0 .. n, a1 > a, InString(t, n, a1, k1)
        PROVE  f[<<p + a1, SubSeq(t, 1, k1)>>] = t
    <3> DEFINE q == p + a1
               u == SubSeq(t, 1, k1)
               next == <<q, u>>
    <3>1. q \in Nat /\ q > pos /\ q <= L + 1
      <4> HIDE DEF L
      <4>1. a1 \in Nat /\ a1 <= n /\ a1 > a
        BY <1>1, <2>4
      <4>2. p + n - 1 <= L /\ p \in Nat /\ L \in Nat /\ n \in Nat /\ a \in Nat
        BY <1>1, <1>14, <2>2
      <4>3. p + a1 \in Nat /\ p + a1 > p + a /\ p + a1 <= L + 1
        BY <4>1, <4>2
      <4> QED BY <4>3
    <3>2. u \in Seq(Byte) /\ Len(u) <= n
      <4>1. u \in Seq(Byte) /\ Len(u) = k1
        BY <1>7
      <4> HIDE DEF u
      <4> QED BY <1>1, <4>1
    <3> HIDE DEF u, q, pos
    <3>3. Later(buf, n, at, next)
      BY <1>1, <1>14, <2>3, <3>1, <3>2, ALater
    <3> HIDE DEF next
    <3>4. next \in P
      BY <1>8, <3>3 DEF Later
    <3>5. next = <<p + a1, SubSeq(t, 1, k1)>>
      BY DEF next, q, u
    <3> QED BY <2>4, <3>4, <3>5
  <2>5. CASE k = n
    <3>1. f[at] = s
      <4> HIDE DEF s, pos
      <4> QED BY <2>1, <2>2, <2>3, <2>5 DEF CharStep
    <3>2. s = t
      BY <1>1, <1>3, <2>5 DEF s
    <3> QED BY <3>1, <3>2
  <2>6. CASE k < n
    <3>1. Len(s) # n /\ ~(pos > L) /\ pos \in 1 .. L
      BY <1>1, <1>14, <2>2, <2>6, SMTT(30)
    <3>2. a + 1 \in 1 .. n /\ t[a + 1] = b
      <4>1. a + 1 \in 1 .. n /\ p + (a + 1) - 1 = pos
        BY <1>1, <2>2, <2>6
      <4> HIDE DEF pos
      <4> QED BY <1>3, <4>1
    <3>3. CASE a < k
      <4>1. ~StartsCharacter(b)
        <5>1. a + 1 \in a + 1 .. k
          BY <2>2, <3>3
        <5> HIDE DEF b
        <5> QED BY <3>2, <5>1 DEF InString
      <4>2. f[at] = f[<<pos + 1, s>>]
        <5> HIDE DEF s, pos, b
        <5> QED BY <1>14, <2>1, <2>3, <3>1, <4>1 DEF CharStep, b
      <4> DEFINE a1 == a + 1
      <4>3. a1 \in 0 .. n /\ a1 > a /\ p + a1 = pos + 1
        BY <1>1, <2>2, <3>3
      <4>4. InString(t, n, a1, k)
        BY <2>2, <3>3 DEF InString
      <4> HIDE DEF a1
      <4>5. f[<<p + a1, s>>] = t
        BY <2>4, <4>3, <4>4 DEF s
      <4> HIDE DEF pos, s
      <4> QED BY <4>2, <4>3, <4>5
    <3>4. CASE a = k
      <4>1. StartsCharacter(b)
        <5> HIDE DEF b
        <5>1. k # n /\ InString(t, n, a, k)
          BY <1>1, <2>2, <2>6
        <5>2. StartsCharacter(t[k + 1])
          BY <5>1 DEF InString
        <5> QED BY <3>2, <3>4, <5>2
      <4>2. need \in Nat /\ (a + 1) + need <= n /\ \A x \in (a + 1) + 1 .. (a + 1) + need : IsFollowUp(t[x])
        <5> HIDE DEF b
        <5> QED BY <1>4, <1>5, <3>2, <4>1
      <4> DEFINE k1 == (a + 1) + need
                 a1 == a + 1
                 c == SubSeq(buf, pos, pos + need)
      <4> HIDE DEF need
      <4>3. pos + need <= L /\ Len(s) + need < n /\ k1 \in 0 .. n /\ a1 \in 0 .. n /\ a1 > a
        <5>1. pos + need <= L
          BY <1>1, <1>14, <2>2, <3>4, <4>2
        <5>2. Len(s) + need < n
          BY <1>1, <2>2, <3>4, <4>2
        <5>3. k1 \in 0 .. n /\ a1 \in 0 .. n /\ a1 > a
          BY <1>1, <2>2, <3>4, <4>2
        <5> QED BY <5>1, <5>2, <5>3
      <4>4. bad = {}
        <5>1. ASSUME NEW j \in 1 .. need PROVE IsFollowUp(buf[pos + j])
          <6> DEFINE x == (a + 1) + j
          <6>1. x \in (a + 1) + 1 .. (a + 1) + need /\ x \in 1 .. n /\ p + x - 1 = pos + j
            BY <1>1, <2>2, <4>2
          <6> HIDE DEF x, pos
          <6>2. IsFollowUp(t[x]) /\ t[x] = buf[p + x - 1]
            BY <1>3, <4>2, <6>1
          <6> QED BY <6>1, <6>2
        <5> HIDE DEF pos
        <5> QED BY <5>1 DEF BrokenFollowUp, need, b
      <4>5. f[at] = f[<<pos + 1, s \o c>>]
        <5>1. ~(need > 0 /\ (pos + need > L \/ Len(s) + need >= n))
          <6>1. Len(s) \in Nat
            BY <2>2
          <6> HIDE DEF s, pos
          <6> QED BY <1>1, <2>2, <4>2, <4>3, <6>1
        <5> HIDE DEF s, pos, b, c, bad, L
        <5> QED BY <2>1, <2>3, <3>1, <4>1, <4>4, <5>1 DEF CharStep, need, b, c, bad, L
      <4>6. s \o c = SubSeq(t, 1, k1)
        <5>1. c \in Seq(Byte) /\ Len(c) = need + 1 /\ \A x \in 1 .. need + 1 : c[x] = buf[pos + x - 1]
          <6> DEFINE z == pos + need
          <6>1. z \in pos .. Len(buf) /\ (z - pos) + 1 = need + 1 /\ pos \in Nat \ {0}
            BY <1>1, <1>14, <2>2, <4>2, <4>3
          <6> HIDE DEF z, pos
          <6>2. /\ SubSeq(buf, pos, z) \in Seq(Byte) /\ Len(SubSeq(buf, pos, z)) = (z - pos) + 1
                /\ \A x \in 1 .. (z - pos) + 1 : SubSeq(buf, pos, z)[x] = buf[pos + x - 1]
            BY <6>1, PartOf
          <6> QED BY <6>1, <6>2 DEF z
        <5>2. Len(s \o c) = k1 /\ \A x \in 1 .. k1 : (s \o c)[x] = t[x]
          <6> HIDE DEF c
          <6>1. Len(s \o c) = k1
            <7>1. Len(s \o c) = Len(s) + Len(c)
              BY <2>20, <5>1, InJoined
            <7>2. Len(s) = k /\ k \in Nat /\ Len(c) = need + 1 /\ k1 = (k + 1) + need
              BY <2>2, <3>4, <5>1
            <7> HIDE DEF s, k1
            <7> QED BY <4>2, <7>1, <7>2
          <6>2. ASSUME NEW x \in 1 .. k1 PROVE (s \o c)[x] = t[x]
            <7>1. CASE x <= k
              <8>1. s[x] = t[x] /\ x \in 1 .. Len(s)
                BY <1>3, <2>2, <7>1 DEF s
              <8>2. (s \o c)[x] = s[x]
                <9> HIDE DEF k1
                <9> QED BY <2>20, <5>1, <8>1, InJoined, SMTT(30)
              <8> QED BY <8>1, <8>2
            <7>2. CASE x > k
              <8> DEFINE y == x - k
              <8>1. y \in 1 .. need + 1 /\ k + y = x /\ pos + y - 1 = p + x - 1 /\ x \in 1 .. n
                BY <2>2, <3>4, <4>2, <4>3, <7>2
              <8> HIDE DEF y, k1
              <8>2. (s \o c)[k + y] = c[y]
                <9>1. y \in 1 .. Len(c)
                  BY <5>1, <8>1
                <9>2. (s \o c)[Len(s) + y] = c[y]
                  BY <2>20, <5>1, <9>1, InJoined, ZenonT(60)
                <9> QED BY <2>20, <9>2
              <8> HIDE DEF pos
              <8>3. c[y] = buf[p + x - 1] /\ t[x] = buf[p + x - 1]
                BY <1>3, <5>1, <8>1
              <8> QED BY <8>1, <8>2, <8>3
            <7>3. x <= k \/ x > k
              BY <2>2, <4>2
            <7> QED BY <7>1, <7>2, <7>3
          <6> QED BY <6>1, <6>2
        <5>3. s \o c \in Seq(Byte)
          <6> HIDE DEF c
          <6> QED BY <2>20, <5>1
        <5> DEFINE v == SubSeq(t, 1, k1)
                   w == s \o c
        <5>4. v \in Seq(Byte) /\ Len(v) = k1 /\ \A x \in 1 .. k1 : v[x] = t[x]
          <6> HIDE DEF k1
          <6>1. v \in Seq(Byte) /\ Len(v) = k1
            BY <1>7, <4>3
          <6>2. k1 \in Nat /\ k1 <= Len(t)
            BY <1>1, <1>3, <4>3
          <6> QED BY <1>3, <6>1, <6>2
        <5> HIDE DEF c, k1, v, w
        <5>5. w \in Seq(Byte) /\ Len(w) = k1 /\ \A x \in 1 .. k1 : w[x] = v[x]
          BY <5>2, <5>3, <5>4 DEF w
        <5>6. w = v
          <6>1. DOMAIN w = 1 .. k1 /\ DOMAIN v = 1 .. k1
            BY <5>4, <5>5
          <6>2. w = [x \in 1 .. k1 |-> w[x]] /\ v = [x \in 1 .. k1 |-> v[x]]
            BY <5>4, <5>5, <6>1
          <6> QED BY <5>5, <6>2
        <5> QED BY <5>6 DEF v, w
      <4>7. InString(t, n, a1, k1)
        <5>1. a1 <= k1
          BY <4>2, <2>2
        <5>2. \A x \in a1 + 1 .. k1 : ~StartsCharacter(t[x])
          BY <4>2 DEF StartsCharacter
        <5>3. ASSUME k1 # n, ~StartsCharacter(t[k1 + 1]) PROVE FALSE
          <6> DEFINE y == k1 + 1
          <6>1. y \in 1 .. n /\ y > a1 /\ ~(y \in a1 .. k1)
            BY <1>1, <2>2, <4>2, <4>3, <5>3
          <6>2. Started(t, y)
            <7> HIDE DEF y
            <7> QED BY <1>4, <5>3, <6>1 DEF y
          <6>3. PICK i \in 1 .. n : StartsCharacter(t[i]) /\ y > i /\ y <= i + Need(t[i])
            BY <1>3, <6>2 DEF Started
          <6> DEFINE d == Need(t[i])
          <6>4. d \in Nat /\ \A x \in i + 1 .. i + d : IsFollowUp(t[x])
            BY <1>4, <1>5, <6>3
          <6>5. StartsCharacter(t[a1]) /\ a1 \in 1 .. n /\ Need(t[a1]) = need
            BY <3>2, <4>1 DEF need
          <6>6. i # a1
            <7> SUFFICES ASSUME i = a1 PROVE FALSE
              OBVIOUS
            <7>1. y <= a1 + need
              BY <6>3, <6>5
            <7> QED BY <2>2, <4>2, <7>1
          <6>7. ~(i \in a1 + 1 .. k1)
            BY <5>2, <6>3
          <6> HIDE DEF y, d
          <6>8. i < a1
            <7>1. i \in Nat /\ a1 \in Nat /\ k1 \in Nat /\ y = k1 + 1
              BY <2>2, <4>2 DEF y
            <7> HIDE DEF a1, k1
            <7> QED BY <6>3, <6>6, <6>7, <7>1
          <6>9. a1 \in i + 1 .. i + d
            <7>1. i \in Nat /\ a1 \in Nat /\ y \in Nat /\ y <= i + d /\ a1 < y
              BY <2>2, <6>1, <6>3 DEF d
            <7> HIDE DEF a1
            <7> QED BY <6>4, <6>8, <7>1
          <6>10. IsFollowUp(t[a1])
            BY <6>4, <6>9
          <6> QED BY <6>5, <6>10 DEF StartsCharacter
        <5> HIDE DEF k1, a1
        <5> QED BY <5>1, <5>2, <5>3 DEF InString
      <4>8. p + a1 = pos + 1
        BY <2>2
      <4> HIDE DEF a1, k1, s, c, pos
      <4>9. f[<<p + a1, SubSeq(t, 1, k1)>>] = t
        BY <2>4, <4>3, <4>7
      <4> QED BY <4>5, <4>6, <4>8, <4>9
    <3> QED BY <2>2, <3>3, <3>4
  <2> QED BY <1>1, <2>2, <2>5, <2>6
<1>9. \A at \in D : at \in P
  <2> HIDE DEF D, m, P
  <2> QED BY <1>1, <1>8, AllOf
<1> DEFINE start == <<p, << >> >>
<1>10. start \in D
  <2>1. p \in 1 .. Len(buf) + 1
    BY <1>1, <1>14
  <2>2. << >> \in Seq(Byte) /\ Len(<< >>) <= n
    BY <1>1
  <2>3. << >> \in Taken(n)
    BY <2>2 DEF Taken
  <2> QED BY <2>1, <2>3 DEF CharPlaces
<1>11. start = <<p + 0, SubSeq(t, 1, 0)>> /\ InString(t, n, 0, 0) /\ 0 \in 0 .. n
  <2>1. SubSeq(t, 1, 0) = << >>
    BY <1>3
  <2>2. InString(t, n, 0, 0)
    BY <1>6 DEF InString
  <2> QED BY <1>1, <2>1, <2>2
<1>12. f[start] = t
  <2> HIDE DEF start
  <2>1. start \in P
    BY <1>9, <1>10
  <2> QED BY <1>11, <2>1
<1>13. t[1] = buf[p]
  <2>1. 1 \in 1 .. n /\ p + 1 - 1 = p
    BY <1>1
  <2> QED BY <1>3, <2>1
<1> QED BY <1>2, <1>6, <1>12, <1>13 DEF t

LEMMA FirstOf ==
  ASSUME NEW buf \in Seq(Byte), NEW n \in Nat, NEW p \in Nat \ {0}, p + n - 1 <= Len(buf), p <= Len(buf)
  PROVE  SubSeq(SubSeq(buf, p, Len(buf)), 1, n) = SubSeq(buf, p, p + n - 1)
<1> DEFINE L == Len(buf)
           r == SubSeq(buf, p, L)
           e == p + n - 1
           a == SubSeq(r, 1, n)
           b == SubSeq(buf, p, e)
<1>1. L \in Nat /\ p <= L /\ e <= L /\ e - p + 1 = n /\ L = Len(buf) /\ e \in Int
  OBVIOUS
<1>2. r \in Seq(Byte) /\ Len(r) = L - p + 1 /\ \A k \in 1 .. L - p + 1 : r[k] = buf[p + k - 1]
  OBVIOUS
<1> HIDE DEF r, L, e
<1>3. a = [k \in 1 .. n |-> r[k]]
  BY <1>1, <1>2
<1>4. b = [k \in 1 .. n |-> buf[p + k - 1]]
  BY <1>1
<1>5. \A k \in 1 .. n : r[k] = buf[p + k - 1]
  BY <1>1, <1>2, SMTT(30) DEF e
<1> HIDE DEF a, b
<1>6. a = b
  BY <1>3, <1>4, <1>5
<1> QED BY <1>6 DEF a, b, r, L, e

\* Nothing is changed in strings of UTF-8.
LEMMA AsTheyAre ==
  ASSUME NEW o, o.stages = {0}, o.mutations = {DICT_ORIGINAL}, NEW w
  PROVE  VariantsDue(w, o) = {w} /\ VariantsMade(w, o) = {w} /\ Asked(w, o) = {w}
<1>1. Staged(0, w) = w /\ Mutated(DICT_ORIGINAL, w) = w
  BY DEF Staged, DICT_REVERSE, Mutated
<1>2. VariantsDue(w, o) = {w}
  BY <1>1 DEF VariantsDue
<1>3. VariantsMade(w, o) = {w}
  BY <1>1, <1>2 DEF VariantsMade
<1> QED BY <1>2, <1>3 DEF Asked

LEMMA Utf8Given ==
  ASSUME NEW n \in Nat \ {0}, NEW buf \in Seq(Byte), NEW o, GoodOpt(o), o.utf8, o.stages = {0},
         o.mutations = {DICT_ORIGINAL}
  PROVE  /\ \A p \in 1 .. Len(buf) - n : \A t \in Due(SubSeq(buf, p, Len(buf)), n, o) :
              Asked(t, o) \subseteq ToSet(Extracted(buf, n, o))
         /\ \A w \in ToSet(Extracted(buf, n, o)) : WellFormed(w)
<1> DEFINE L == Len(buf)
           last == L - n
           r == Extracted(buf, n, o)
           D(p) == Due(SubSeq(buf, p, L), n, o)
<1>1. r = pwdgen_img_extract_utf8(buf, n, o)
  BY DEF Extracted
<1>2. L \in Nat /\ n \in Nat /\ last \in Int
  OBVIOUS
<1>3. CASE L <= n
  <2>1. ToSet(r) = {}
    BY <1>1, <1>3, NoRoom DEF ToSet
  <2>2. 1 .. last = {}
    BY <1>2, <1>3
  <2> HIDE DEF r, last, D
  <2>3. /\ \A p \in 1 .. last : \A t \in D(p) : Asked(t, o) \subseteq ToSet(r)
        /\ \A w \in ToSet(r) : WellFormed(w)
    BY <2>1, <2>2
  <2> QED BY <2>3 DEF r, last, D
<1>4. CASE L > n
  <2>1. PICK f : Gathering(buf, n, o, f) /\ r = f[last]
    <3>1. PICK g : Gathering(buf, n, o, g)
      BY <1>2, GatherExists
    <3>2. PICK f : /\ Gathering(buf, n, o, f)
                   /\ pwdgen_img_extract_utf8(buf, n, o) =
                        IF Len(buf) <= n THEN << >> ELSE f[LastPosition(Len(buf), n)]
      BY <3>1, GatherBy
    <3>3. ~(Len(buf) <= n)
      BY <1>2, <1>4
    <3> QED BY <1>1, <3>2, <3>3 DEF LastPosition
  <2> HIDE DEF r
  <2>2. last \in Nat /\ last <= L /\ last >= 1
    BY <1>2, <1>4
  <2> DEFINE Q(i) == /\ f[i] \in Seq(OfLength(n)) /\ Closed(f[i], n, o)
                     /\ \A w \in ToSet(f[i]) : WellFormed(w)
                     /\ \A p \in 1 .. i : \A t \in D(p) : Asked(t, o) \subseteq ToSet(f[i])
             P == {i \in 0 .. last : Q(i)}
  <2>3. 0 \in P
    <3>1. 0 \in 0 .. Len(buf)
      BY <1>2
    <3>2. f[0] = AtStep(buf, n, o, f, 0)
      BY <2>1, <3>1 DEF Gathering
    <3>3. f[0] = << >>
      BY <3>2 DEF AtStep
    <3>4. << >> \in Seq(OfLength(n)) /\ ToSet(<< >>) = {} /\ Closed(<< >>, n, o) /\ 1 .. 0 = {}
      BY DEF ToSet, Closed
    <3> HIDE DEF last, D
    <3>5. Q(0)
      <4>1. \A p \in 1 .. 0 : \A t \in D(p) : Asked(t, o) \subseteq ToSet(f[0])
        BY <3>4
      <4> QED BY <3>3, <3>4, <4>1
    <3> HIDE DEF Q
    <3> QED BY <2>2, <3>5
  <2>4. ASSUME NEW i \in 1 .. last, i - 1 \in P PROVE i \in P
    <3> DEFINE list == f[i - 1]
               w == Utf8String(buf, i, n)
               next == IF StartsString(buf[i]) /\ w # << >> THEN AddString(list, w, o) ELSE list
    <3>1. i \in 1 .. L /\ i \in 0 .. L /\ i \in Nat /\ i \in 0 .. last /\ i # 0 /\ i - 1 \in 0 .. last /\ i + n - 1 <= L /\ i <= L
      BY <1>2, <2>2
    <3>2. Q(i - 1)
      BY <2>4
    <3>3. f[i] = AtStep(buf, n, o, f, i)
      BY <2>1, <3>1 DEF Gathering
    <3>4. f[i] = next
      BY <3>1, <3>3 DEF AtStep
    <3>5. w \in OfLength(n) \cup {<< >>} /\ WellFormed(w)
      BY <1>2, <3>1, Scanned, ScannedWell
    <3>6. \A t \in D(i) : t = w /\ StartsString(buf[i]) /\ w # << >>
      <4> SUFFICES ASSUME NEW t \in D(i) PROVE t = w /\ StartsString(buf[i]) /\ w # << >>
        OBVIOUS
      <4>1. t = SubSeq(SubSeq(buf, i, L), 1, n) /\ WellFormed(t)
        BY DEF Due, Utf8Of
      <4>2. t = SubSeq(buf, i, i + n - 1)
        BY <1>2, <3>1, <4>1, FirstOf
      <4>3. i \in Nat \ {0} /\ i + n - 1 <= Len(buf)
        BY <3>1
      <4> HIDE DEF w
      <4>4. t = w /\ StartsCharacter(buf[i])
        BY <4>1, <4>2, <4>3, WellScanned DEF w
      <4>5. t # << >>
        <5> DEFINE e == i + n - 1
        <5>1. e \in i .. Len(buf) /\ (e - i) + 1 = n
          BY <1>2, <3>1
        <5> HIDE DEF e
        <5>2. Len(SubSeq(buf, i, e)) = n
          BY <4>3, <5>1, PartOf
        <5>3. Len(t) = n
          BY <4>2, <5>2 DEF e
        <5> QED BY <1>2, <5>3
      <4> QED BY <4>4, <4>5 DEF StartsString
    <3> HIDE DEF w, D, list, last, L, P, Q
    <3>7. list \in Seq(OfLength(n)) /\ Closed(list, n, o)
          /\ (\A v \in ToSet(list) : WellFormed(v))
          /\ \A p \in 1 .. i - 1 : \A t \in D(p) : Asked(t, o) \subseteq ToSet(list)
      BY <3>2 DEF Q, list
    <3>8. CASE StartsString(buf[i]) /\ w # << >>
      <4>1. w \in OfLength(n) /\ Fit(w, o)
        BY <3>5, <3>8 DEF Fit
      <4>2. next = AddString(list, w, o)
        BY <3>8
      <4>3. /\ Closed(next, n, o)
            /\ ToSet(list) \cup Asked(w, o) \subseteq ToSet(next)
            /\ ToSet(next) \subseteq ToSet(list) \cup VariantsMade(w, o)
        BY <1>2, <3>7, <4>1, <4>2, StringKept
      <4>4. next \in Seq(OfLength(n))
        BY <1>2, <3>7, <4>1, <4>2, StringAdded
      <4>5. VariantsMade(w, o) = {w}
        BY AsTheyAre
      <4>6. \A v \in ToSet(next) : WellFormed(v)
        BY <3>5, <3>7, <4>3, <4>5
      <4>7. ASSUME NEW p \in 1 .. i, NEW t \in D(p) PROVE Asked(t, o) \subseteq ToSet(next)
        <5>1. CASE p = i
          BY <3>6, <4>3, <4>7, <5>1
        <5>2. CASE p # i
          <6>1. p \in 1 .. i - 1
            BY <3>1, <5>2
          <6> QED BY <3>7, <4>3, <4>7, <6>1
        <5> QED BY <5>1, <5>2
      <4> HIDE DEF next
      <4>8. Q(i)
        BY <3>4, <4>3, <4>4, <4>6, <4>7 DEF Q
      <4> QED BY <3>1, <4>8 DEF P
    <3>9. CASE ~(StartsString(buf[i]) /\ w # << >>)
      <4>1. next = list
        BY <3>9
      <4>2. ASSUME NEW p \in 1 .. i, NEW t \in D(p) PROVE Asked(t, o) \subseteq ToSet(list)
        <5>1. CASE p = i
          BY <3>6, <3>9, <4>2, <5>1
        <5>2. CASE p # i
          <6>1. p \in 1 .. i - 1
            BY <3>1, <5>2
          <6> QED BY <3>7, <4>2, <6>1
        <5> QED BY <5>1, <5>2
      <4>3. f[i] = list
        BY <3>4, <4>1
      <4> HIDE DEF next
      <4>4. Q(i)
        BY <3>7, <4>2, <4>3 DEF Q
      <4> QED BY <3>1, <4>4 DEF P
    <3> QED BY <3>8, <3>9
  <2> HIDE DEF P, Q, D, last
  <2>5. \A i \in 0 .. last : i \in P
    BY <2>2, <2>3, <2>4, Upward
  <2>6. Q(last)
    BY <2>2, <2>5 DEF P
  <2> QED BY <2>1, <2>6 DEF Q, D, last, L, r
<1> QED BY <1>2, <1>3, <1>4

LongerBy(v, y, n) ==
  /\ Append(v, y) \in Seq(Byte) /\ Len(Append(v, y)) = Len(v) + 1
  /\ SubSeq(Append(v, y), 1, n) = SubSeq(v, 1, n)

LEMMA AnotherByte ==
  ASSUME NEW v \in Seq(Byte), NEW y \in Byte, NEW n \in Nat, n <= Len(v)
  PROVE  LongerBy(v, y, n)
<1> DEFINE a == Append(v, y)
<1>1. a \in Seq(Byte) /\ Len(a) = Len(v) + 1 /\ \A k \in 1 .. Len(v) : a[k] = v[k]
  OBVIOUS
<1>2. Len(v) \in Nat /\ \A k \in 1 .. n : k \in 1 .. Len(v)
  OBVIOUS
<1> HIDE DEF a
<1>3. SubSeq(a, 1, n) = [k \in 1 .. n |-> a[k]] /\ SubSeq(v, 1, n) = [k \in 1 .. n |-> v[k]]
  BY <1>1, <1>2
<1>4. \A k \in 1 .. n : a[k] = v[k]
  BY <1>1, <1>2
<1>5. SubSeq(a, 1, n) = SubSeq(v, 1, n)
  BY <1>3, <1>4
<1> QED BY <1>1, <1>5 DEF LongerBy, a

-----------------------------------------------------------------------------
(***************************************************************************)
(* The strings of an image: those that are inside a block are found when   *)
(* the block is read.                                                      *)
(***************************************************************************)
LEMMA Multiples ==
  ASSUME NEW n \in Nat \ {0}, NEW a \in Nat, NEW b \in Nat, a < b
  PROVE  a * n + n <= b * n /\ a * n \in Nat /\ b * n \in Nat
<1>1. PICK d \in Nat : b = a + 1 + d
  <2>1. b - (a + 1) \in Nat /\ b = a + 1 + (b - (a + 1))
    OBVIOUS
  <2> QED BY <2>1
<1>2. b * n = a * n + n + d * n
  BY <1>1
<1>3. d * n \in Nat /\ a * n \in Nat /\ b * n \in Nat
  OBVIOUS
<1> DEFINE x == d * n
           y == a * n
           z == b * n
<1>4. x \in Nat /\ y \in Nat /\ z = y + n + x
  BY <1>2, <1>3
<1> HIDE DEF x, y, z
<1>5. y + n <= z
  BY <1>4
<1> QED BY <1>3, <1>5 DEF y, z

LEMMA WholeTimes ==
  ASSUME NEW n \in Nat \ {0}, NEW k \in Nat, NEW c \in 0 .. n - 1, NEW m, m = k * n + c
  PROVE  m \div n = k
<1> DEFINE q == m \div n
           y == k * n
           z == q * n
<1>1. y \in Nat /\ n \in Nat /\ n >= 1
  OBVIOUS
<1>2. m \in Nat /\ y <= m /\ m < y + n
  <2> HIDE DEF y
  <2>1. m = y + c
    BY DEF y
  <2> QED BY <1>1, <2>1
<1>3. q \in Nat /\ z \in Nat /\ z <= m /\ m < z + n
  <2>1. q \in Nat
    BY <1>1, <1>2
  <2>2. m = n * q + (m % n) /\ m % n \in 0 .. n - 1
    BY <1>1, <1>2
  <2>3. z \in Nat /\ z = n * q
    <3> HIDE DEF q
    <3> QED BY <1>1, <2>1
  <2> DEFINE s == m % n
             zz == n * q
  <2>4. z = zz /\ m = zz + s /\ s \in 0 .. n - 1
    BY <2>2, <2>3
  <2> HIDE DEF s, z, zz
  <2> QED BY <1>1, <2>1, <2>3, <2>4
<1>4. ~(q < k)
  <2> SUFFICES ASSUME q < k PROVE FALSE
    OBVIOUS
  <2>1. z + n <= y
    <3> HIDE DEF q
    <3> QED BY <1>3, Multiples DEF z
  <2> HIDE DEF y, z, q
  <2> QED BY <1>1, <1>2, <1>3, <2>1
<1>5. ~(k < q)
  <2> SUFFICES ASSUME k < q PROVE FALSE
    OBVIOUS
  <2>1. y + n <= z
    <3> HIDE DEF q
    <3> QED BY <1>3, Multiples DEF z
  <2> HIDE DEF y, z, q
  <2> QED BY <1>1, <1>2, <1>3, <2>1
<1> HIDE DEF q
<1>6. q = k
  BY <1>3, <1>4, <1>5
<1> QED BY <1>6 DEF q

\* What is behind a position of the block is behind its place in the buffer.
LEMMA InBuffer ==
  ASSUME NEW image \in Seq(Byte), NEW front \in Seq(Byte), NEW r \in Nat, NEW e \in Nat, r <= e, e <= Len(image),
         NEW p \in r + 1 .. e
  PROVE  LET buf == front \o SubSeq(image, r + 1, e)
         IN  /\ buf \in Seq(Byte) /\ Len(buf) = Len(front) + (e - r)
             /\ SubSeq(buf, Len(front) + (p - r), Len(buf)) = SubSeq(image, p, e)
<1> DEFINE data == SubSeq(image, r + 1, e)
           buf == front \o data
           F == Len(front)
           B == Len(buf)
           x == F + (p - r)
           a == SubSeq(buf, x, B)
           b == SubSeq(image, p, e)
<1>1. p \in Nat \ {0} /\ r < p /\ p <= e /\ F \in Nat /\ e \in p .. Len(image)
  OBVIOUS
<1>2. data \in Seq(Byte) /\ Len(data) = e - r /\ \A k \in 1 .. e - r : data[k] = image[r + k]
  <2>1. r + 1 \in Nat \ {0} /\ e \in r + 1 .. Len(image) /\ (e - (r + 1)) + 1 = e - r
    BY <1>1
  <2>2. /\ data \in Seq(Byte) /\ Len(data) = (e - (r + 1)) + 1
        /\ \A k \in 1 .. (e - (r + 1)) + 1 : data[k] = image[(r + 1) + k - 1]
    <3> HIDE DEF data
    <3> QED BY <2>1, PartOf DEF data
  <2>3. \A k \in 1 .. e - r : (r + 1) + k - 1 = r + k
    OBVIOUS
  <2> HIDE DEF data
  <2> QED BY <2>1, <2>2, <2>3
<1> HIDE DEF data, a, b, x
<1>3. /\ buf \in Seq(Byte) /\ B = F + (e - r)
      /\ \A k \in 1 .. e - r : buf[F + k] = data[k]
  <2>1. /\ buf \in Seq(Byte) /\ B = F + Len(data)
        /\ \A y \in 1 .. Len(data) : buf[F + y] = data[y]
    BY <1>2, InJoined
  <2> HIDE DEF buf, B, F
  <2> QED BY <1>2, <2>1
<1> HIDE DEF buf, B, F
<1>4. x \in Nat \ {0} /\ B \in x .. Len(buf) /\ (B - x) + 1 = (e - p) + 1
  <2>1. B = Len(buf)
    BY DEF B
  <2> QED BY <1>1, <1>3, <2>1 DEF x
<1>5. /\ a \in Seq(Byte) /\ Len(a) = (e - p) + 1 /\ \A k \in 1 .. (e - p) + 1 : a[k] = buf[x + k - 1]
  <2>1. /\ a \in Seq(Byte) /\ Len(a) = (B - x) + 1 /\ \A k \in 1 .. (B - x) + 1 : a[k] = buf[x + k - 1]
    BY <1>3, <1>4, PartOf DEF a
  <2> QED BY <1>4, <2>1
<1>6. b \in Seq(Byte) /\ Len(b) = (e - p) + 1 /\ \A k \in 1 .. (e - p) + 1 : b[k] = image[p + k - 1]
  BY <1>1, PartOf DEF b
<1>7. \A k \in 1 .. (e - p) + 1 : a[k] = b[k]
  <2> TAKE k \in 1 .. (e - p) + 1
  <2> DEFINE y == (p - r) + k - 1
  <2>1. x + k - 1 = F + y /\ y \in 1 .. e - r /\ r + y = p + k - 1
    BY <1>1 DEF x
  <2> HIDE DEF y
  <2>2. a[k] = buf[F + y] /\ b[k] = image[r + y]
    BY <1>5, <1>6, <2>1
  <2>3. buf[F + y] = data[y] /\ data[y] = image[r + y]
    BY <1>2, <1>3, <2>1
  <2> QED BY <2>2, <2>3
<1>8. a = b
  <2>1. a = [k \in 1 .. (e - p) + 1 |-> a[k]] /\ b = [k \in 1 .. (e - p) + 1 |-> b[k]]
    BY <1>5, <1>6
  <2> QED BY <1>7, <2>1
<1> QED BY <1>3, <1>8 DEF a, b, x, B, F, buf, data

\* The valid bytes of a part in front come first.
LEMMA SiftedPrefix ==
  ASSUME NEW s \in Seq(Byte), NEW u \in Seq(Byte), NEW o, Len(s) <= Len(u), \A k \in 1 .. Len(s) : s[k] = u[k],
         NEW n \in Nat, Len(OnlyValid(s, o)) >= n
  PROVE  /\ Len(OnlyValid(u, o)) >= n
         /\ SubSeq(OnlyValid(u, o), 1, n) = SubSeq(OnlyValid(s, o), 1, n)
         /\ OnlyValid(s, o) \in Seq(Byte) /\ OnlyValid(u, o) \in Seq(Byte)
<1>1. PICK h : Sifting(o.valid, s, h) /\ OnlyValid(s, o) = h[Len(s)]
  BY Sifted
<1>2. PICK g : Sifting(o.valid, u, g) /\ OnlyValid(u, o) = g[Len(u)]
  BY Sifted
<1> DEFINE S == Len(s)
           U == Len(u)
           w == OnlyValid(s, o)
<1>3. S \in Nat /\ U \in Nat /\ S <= U
  OBVIOUS
<1>4. \A k \in 0 .. S : h[k] = g[k]
  <2> DEFINE P == {k \in 0 .. S : h[k] = g[k]}
  <2>1. 0 \in P
    BY <1>1, <1>2, <1>3 DEF Sifting
  <2>2. ASSUME NEW k \in 1 .. S, k - 1 \in P PROVE k \in P
    <3>1. k \in 1 .. U /\ k \in 0 .. S
      BY <1>3
    <3>2. h[k] = IF s[k] \in o.valid THEN Append(h[k - 1], s[k]) ELSE h[k - 1]
      BY <1>1 DEF Sifting
    <3>3. g[k] = IF u[k] \in o.valid THEN Append(g[k - 1], u[k]) ELSE g[k - 1]
      BY <1>2, <3>1 DEF Sifting
    <3>4. s[k] = u[k] /\ h[k - 1] = g[k - 1]
      BY <2>2
    <3> QED BY <3>1, <3>2, <3>3, <3>4
  <2> HIDE DEF P, S
  <2>3. \A k \in 0 .. S : k \in P
    BY <1>3, <2>1, <2>2, Upward
  <2> QED BY <2>3 DEF P
<1>5. /\ h \in [0 .. S -> Seq(Byte)] /\ g \in [0 .. U -> Seq(Byte)]
      /\ \A k \in 1 .. U : u[k] \in Byte
  BY <1>1, <1>2 DEF Sifting
<1> HIDE DEF S, U
<1>6. w = h[S] /\ w \in Seq(Byte) /\ Len(w) >= n /\ Len(w) \in Nat
  BY <1>1, <1>3, <1>5, SMTT(30) DEF S
<1> HIDE DEF w
<1> DEFINE Q == {j \in 0 .. U - S : Len(g[S + j]) >= Len(w) /\ SubSeq(g[S + j], 1, n) = SubSeq(w, 1, n)}
<1>7. 0 \in Q
  <2>1. S \in 0 .. S /\ S + 0 = S /\ 0 \in 0 .. U - S
    BY <1>3
  <2>2. g[S + 0] = w
    BY <1>4, <1>6, <2>1
  <2> QED BY <1>6, <2>1, <2>2, SMTT(30)
<1>8. ASSUME NEW j \in 1 .. U - S, j - 1 \in Q PROVE j \in Q
  <2> DEFINE k == S + j
             v == g[S + (j - 1)]
  <2>1. k \in 1 .. U /\ k - 1 = S + (j - 1) /\ k - 1 \in 0 .. U /\ j \in 0 .. U - S
    BY <1>3
  <2>2. g[k] = IF u[k] \in o.valid THEN Append(g[k - 1], u[k]) ELSE g[k - 1]
    BY <1>2, <2>1 DEF Sifting, U
  <2>3. v \in Seq(Byte) /\ Len(v) >= Len(w) /\ SubSeq(v, 1, n) = SubSeq(w, 1, n) /\ v = g[k - 1]
    BY <1>5, <1>8, <2>1
  <2>4. u[k] \in Byte
    BY <1>5, <2>1
  <2> DEFINE y == u[k]
  <2> HIDE DEF k, v, y
  <2>5. LongerBy(v, y, n)
    <3>1. y \in Byte
      BY <2>4 DEF y
    <3>2. n <= Len(v)
      <4>1. Len(v) \in Nat
        BY <2>3
      <4> QED BY <1>6, <2>3, <4>1
    <3>3. v \in Seq(Byte)
      BY <2>3
    <3> QED BY <3>1, <3>2, <3>3, AnotherByte
  <2>6. Len(g[k]) >= Len(w) /\ SubSeq(g[k], 1, n) = SubSeq(w, 1, n)
    <3>1. CASE y \in o.valid
      <4>1. g[k] = Append(v, y)
        BY <2>2, <2>3, <3>1 DEF y
      <4>2. Len(v) \in Nat
        BY <2>3
      <4>3. Len(g[k]) = Len(v) + 1 /\ SubSeq(g[k], 1, n) = SubSeq(v, 1, n)
        BY <2>5, <4>1 DEF LongerBy
      <4>4. Len(g[k]) >= Len(w)
        BY <1>6, <2>3, <4>2, <4>3
      <4>5. SubSeq(g[k], 1, n) = SubSeq(w, 1, n)
        BY <2>3, <4>3
      <4> QED BY <4>4, <4>5
    <3>2. CASE y \notin o.valid
      BY <2>2, <2>3, <3>2 DEF y
    <3> QED BY <3>1, <3>2
  <2> QED BY <2>1, <2>6 DEF k
<1>9. \A j \in 0 .. U - S : j \in Q
  <2> DEFINE d == U - S
  <2>1. d \in Nat
    BY <1>3
  <2> HIDE DEF d
  <2>2. 0 \in Q /\ \A j \in 1 .. d : j - 1 \in Q => j \in Q
    BY <1>7, <1>8 DEF d
  <2> HIDE DEF Q
  <2>3. \A j \in 0 .. d : j \in Q
    BY <2>1, <2>2, Upward
  <2> QED BY <2>3 DEF d
<1>10. U - S \in Q /\ S + (U - S) = U
  <2> DEFINE d == U - S
  <2>1. d \in 0 .. d /\ S + d = U
    BY <1>3
  <2> HIDE DEF Q
  <2>2. d \in Q
    BY <1>9, <2>1
  <2> QED BY <2>1, <2>2
<1>11. Len(g[U]) >= Len(w) /\ SubSeq(g[U], 1, n) = SubSeq(w, 1, n) /\ g[U] \in Seq(Byte)
  <2>1. U \in 0 .. U
    BY <1>3
  <2> QED BY <1>5, <1>10, <2>1
<1>12. Len(g[U]) \in Nat
  BY <1>11
<1>13. Len(g[U]) >= n
  BY <1>6, <1>11, <1>12
<1>14. OnlyValid(u, o) = g[U] /\ OnlyValid(s, o) = w
  BY <1>2 DEF w, U
<1> QED BY <1>6, <1>11, <1>13, <1>14

-----------------------------------------------------------------------------
\* What is taken of a part in front is taken first.
LEMMA NthPrefix ==
  ASSUME NEW a \in Seq(Byte), NEW b \in Seq(Byte), NEW step \in {1, 2}, Len(a) <= Len(b),
         \A k \in 1 .. Len(a) : a[k] = b[k]
  PROVE  /\ EveryNth(a, step) \in Seq(Byte) /\ EveryNth(b, step) \in Seq(Byte)
         /\ Len(EveryNth(a, step)) <= Len(EveryNth(b, step))
         /\ \A k \in 1 .. Len(EveryNth(a, step)) : EveryNth(a, step)[k] = EveryNth(b, step)[k]
<1> DEFINE A == Len(a)
           B == Len(b)
           c == (A + step - 1) \div step
           d == (B + step - 1) \div step
           at(k) == (k - 1) * step + 1
<1>1. A \in Nat /\ B \in Nat /\ A <= B
  OBVIOUS
<1>2. (\A k \in 1 .. A : a[k] \in Byte /\ a[k] = b[k]) /\ \A k \in 1 .. B : b[k] \in Byte
  OBVIOUS
<1>3. EveryNth(a, step) = [k \in 1 .. c |-> a[at(k)]] /\ EveryNth(b, step) = [k \in 1 .. d |-> b[at(k)]]
  BY DEF EveryNth
<1> HIDE DEF A, B
<1>4. /\ c \in Nat /\ d \in Nat /\ c <= d
      /\ (\A k \in 1 .. c : at(k) \in 1 .. A) /\ \A k \in 1 .. d : at(k) \in 1 .. B
  <2>1. CASE step = 1
    BY <1>1, <2>1
  <2>2. CASE step = 2
    BY <1>1, <2>2
  <2> QED BY <2>1, <2>2
<1> HIDE DEF c, d, at
<1> DEFINE s == [k \in 1 .. c |-> a[at(k)]]
           u == [k \in 1 .. d |-> b[at(k)]]
<1>5. s \in Seq(Byte) /\ Len(s) = c /\ \A k \in 1 .. c : s[k] = a[at(k)]
  BY <1>2, <1>4
<1>6. u \in Seq(Byte) /\ Len(u) = d /\ \A k \in 1 .. d : u[k] = b[at(k)]
  BY <1>2, <1>4
<1>7. \A k \in 1 .. c : k \in 1 .. d /\ a[at(k)] = b[at(k)]
  BY <1>2, <1>4
<1> HIDE DEF s, u
<1>8. \A k \in 1 .. c : s[k] = u[k]
  BY <1>5, <1>6, <1>7
<1>9. EveryNth(a, step) = s /\ EveryNth(b, step) = u
  BY <1>3 DEF s, u
<1> QED BY <1>4, <1>5, <1>6, <1>8, <1>9

\* When bytes are skipped, what is behind does not change the first string.
LEMMA MoreBehind ==
  ASSUME NEW a \in Seq(Byte), NEW b \in Seq(Byte), Len(a) <= Len(b), \A k \in 1 .. Len(a) : a[k] = b[k],
         NEW n \in Nat, NEW o, o.skip_invalids, ~o.utf8
  PROVE  Due(a, n, o) \subseteq Due(b, n, o)
<1>1. ASSUME NEW step \in {1, 2}
      PROVE  StringsOf(a, n, step, o) \subseteq StringsOf(b, n, step, o)
  <2> DEFINE s == EveryNth(a, step)
             u == EveryNth(b, step)
             v == OnlyValid(s, o)
             w == OnlyValid(u, o)
  <2>1. /\ s \in Seq(Byte) /\ u \in Seq(Byte) /\ Len(s) <= Len(u)
        /\ \A k \in 1 .. Len(s) : s[k] = u[k]
    BY NthPrefix, SMTT(30)
  <2>2. StringsOf(a, n, step, o) =
          IF Len(v) >= n /\ ToSet(SubSeq(v, 1, n)) \subseteq o.valid THEN {SubSeq(v, 1, n)} ELSE {}
    BY DEF StringsOf
  <2>3. StringsOf(b, n, step, o) =
          IF Len(w) >= n /\ ToSet(SubSeq(w, 1, n)) \subseteq o.valid THEN {SubSeq(w, 1, n)} ELSE {}
    BY DEF StringsOf
  <2> HIDE DEF s, u
  <2>4. Len(v) >= n => Len(w) >= n /\ SubSeq(w, 1, n) = SubSeq(v, 1, n)
    <3> SUFFICES ASSUME Len(v) >= n PROVE Len(w) >= n /\ SubSeq(w, 1, n) = SubSeq(v, 1, n)
      OBVIOUS
    <3>1. s \in Seq(Byte) /\ u \in Seq(Byte) /\ Len(s) <= Len(u) /\ Len(OnlyValid(s, o)) >= n
      BY <2>1
    <3>2. \A k \in 1 .. Len(s) : s[k] = u[k]
      BY <2>1
    <3>3. Len(OnlyValid(u, o)) >= n /\ SubSeq(OnlyValid(u, o), 1, n) = SubSeq(OnlyValid(s, o), 1, n)
      BY <3>1, <3>2, SiftedPrefix
    <3> QED BY <3>3
  <2> HIDE DEF v, w
  <2> QED BY <2>2, <2>3, <2>4
<1>2. 1 \in {1, 2} /\ 2 \in {1, 2}
  OBVIOUS
<1>3. StringsOf(a, n, 1, o) \subseteq StringsOf(b, n, 1, o) /\ StringsOf(a, n, 2, o) \subseteq StringsOf(b, n, 2, o)
  BY <1>1, <1>2
<1> QED BY <1>3 DEF Due

LEMMA DueExtends ==
  ASSUME NEW image \in Seq(Byte), NEW p \in Nat \ {0}, NEW e \in p .. Len(image), NEW n \in Nat,
         NEW o, o.skip_invalids, ~o.utf8
  PROVE  Due(SubSeq(image, p, e), n, o) \subseteq Due(SubSeq(image, p, Len(image)), n, o)
<1> DEFINE L == Len(image)
           a == SubSeq(image, p, e)
           b == SubSeq(image, p, L)
<1>1. L \in p .. Len(image) /\ L \in Nat /\ e \in Nat /\ e <= L /\ p <= e
  OBVIOUS
<1>2. /\ a \in Seq(Byte) /\ Len(a) = (e - p) + 1
      /\ \A k \in 1 .. (e - p) + 1 : a[k] = image[p + k - 1]
  BY PartOf
<1>3. /\ b \in Seq(Byte) /\ Len(b) = (L - p) + 1
      /\ \A k \in 1 .. (L - p) + 1 : b[k] = image[p + k - 1]
  BY <1>1, PartOf
<1> HIDE DEF a, b, L
<1>4. Len(a) <= Len(b) /\ \A k \in 1 .. Len(a) : k \in 1 .. (e - p) + 1 /\ k \in 1 .. (L - p) + 1
  BY <1>1, <1>2, <1>3
<1>5. \A k \in 1 .. Len(a) : a[k] = b[k]
  BY <1>2, <1>3, <1>4
<1>6. Due(a, n, o) \subseteq Due(b, n, o)
  BY <1>2, <1>3, <1>4, <1>5, MoreBehind
<1> QED BY <1>6 DEF a, b, L

-----------------------------------------------------------------------------
(***************************************************************************)
(* What a block gives: image[r + 1 .. e], read behind what was kept of the *)
(* block before it.                                                        *)
(***************************************************************************)
AsIs(o) == o.utf8 => o.stages = {0} /\ o.mutations = {DICT_ORIGINAL}

LEMMA AnyBuffer ==
  ASSUME NEW n \in Nat \ {0}, NEW buf \in Seq(Byte), NEW o, GoodOpt(o), AsIs(o)
  PROVE  \A p \in 1 .. Len(buf) - n : \A t \in Due(SubSeq(buf, p, Len(buf)), n, o) :
           Asked(t, o) \subseteq ToSet(Extracted(buf, n, o))
<1>1. CASE o.utf8
  <2>1. o.stages = {0} /\ o.mutations = {DICT_ORIGINAL}
    BY <1>1 DEF AsIs
  <2> QED BY <1>1, <2>1, Utf8Given
<1>2. CASE ~o.utf8
  BY <1>2, BytesGiven DEF BytesGive
<1> QED BY <1>1, <1>2

LEMMA BlockGives ==
  ASSUME NEW n \in Nat \ {0}, NEW image \in Seq(Byte), NEW front \in Seq(Byte), NEW r \in Nat, NEW e \in Nat,
         r <= e, e <= Len(image), NEW o, GoodOpt(o), AsIs(o)
  PROVE  \A p \in r + 1 .. e - n : \A t \in Due(SubSeq(image, p, e), n, o) :
           Asked(t, o) \subseteq ToSet(Extracted(front \o SubSeq(image, r + 1, e), n, o))
<1> DEFINE buf == front \o SubSeq(image, r + 1, e)
           B == Len(buf)
           F == Len(front)
<1> SUFFICES ASSUME NEW p \in r + 1 .. e - n, NEW t \in Due(SubSeq(image, p, e), n, o)
             PROVE  Asked(t, o) \subseteq ToSet(Extracted(buf, n, o))
  OBVIOUS
<1>1. p \in r + 1 .. e
  OBVIOUS
<1>2. buf \in Seq(Byte) /\ B = F + (e - r) /\ SubSeq(buf, F + (p - r), B) = SubSeq(image, p, e)
  BY <1>1, InBuffer, SMTT(30)
<1>3. \A q \in 1 .. Len(buf) - n : \A x \in Due(SubSeq(buf, q, Len(buf)), n, o) :
        Asked(x, o) \subseteq ToSet(Extracted(buf, n, o))
  BY <1>2, AnyBuffer
<1>4. F \in Nat /\ B = Len(buf)
  OBVIOUS
<1> HIDE DEF buf, F, B
<1> DEFINE q == F + (p - r)
<1>5. q \in 1 .. B - n
  BY <1>2, <1>4
<1> HIDE DEF q
<1>6. SubSeq(buf, q, Len(buf)) = SubSeq(image, p, e) /\ q \in 1 .. Len(buf) - n
  BY <1>2, <1>4, <1>5 DEF q
<1> QED BY <1>3, <1>6

\* What a block gives is in the image when the block is the last one or bytes are skipped.
LEMMA BlockTrue ==
  ASSUME NEW n \in Nat \ {0}, NEW image \in Seq(Byte), NEW r \in Nat, NEW e \in Nat,
         r <= e, e <= Len(image), NEW o, e = Len(image) \/ o.skip_invalids, GoodOpt(o), ~o.utf8,
         NEW w \in ToSet(Extracted(SubSeq(image, r + 1, e), n, o))
  PROVE  \E p \in DOMAIN image : \E t \in Due(SubSeq(image, p, Len(image)), n, o) : w \in VariantsMade(t, o)
<1> DEFINE buf == SubSeq(image, r + 1, e)
           L == Len(image)
           B == Len(buf)
<1>1. buf \in Seq(Byte) /\ B = e - r /\ L \in Nat
  <2>1. buf \in Seq(Byte) /\ L \in Nat
    OBVIOUS
  <2>2. Len(buf) = IF r + 1 <= e THEN e - r ELSE 0
    OBVIOUS
  <2> HIDE DEF buf
  <2> QED BY <2>1, <2>2
<1>2. \A x \in ToSet(Extracted(buf, n, o)) :
        \E q \in 1 .. B : \E t \in Due(SubSeq(buf, q, B), n, o) : x \in VariantsMade(t, o)
  BY <1>1, BytesGiven DEF BytesGive
<1> HIDE DEF buf
<1>3. w \in ToSet(Extracted(buf, n, o))
  BY DEF buf
<1>4. PICK q \in 1 .. B : \E t \in Due(SubSeq(buf, q, B), n, o) : w \in VariantsMade(t, o)
  BY <1>2, <1>3
<1> DEFINE p == r + q
<1>5. p \in r + 1 .. e /\ p \in Nat \ {0} /\ p \in 1 .. L /\ e \in p .. L /\ p - r = q
  <2> HIDE DEF B
  <2> QED BY <1>1, <1>4
<1>6. DOMAIN image = 1 .. L
  OBVIOUS
<1> HIDE DEF p
<1>7. SubSeq(buf, q, B) = SubSeq(image, p, e)
  <2> DEFINE front == << >>
             j == front \o SubSeq(image, r + 1, e)
  <2>1. front \in Seq(Byte) /\ Len(front) = 0
    OBVIOUS
  <2>2. j = buf
    BY <1>1 DEF buf
  <2> HIDE DEF front
  <2>3. SubSeq(j, Len(front) + (p - r), Len(j)) = SubSeq(image, p, e)
    BY <1>5, <2>1, InBuffer
  <2> HIDE DEF j, B
  <2>4. Len(front) + (p - r) = q /\ Len(j) = B
    BY <1>4, <1>5, <2>1, <2>2 DEF B
  <2> QED BY <2>2, <2>3, <2>4
<1>8. Due(SubSeq(image, p, e), n, o) \subseteq Due(SubSeq(image, p, L), n, o)
  <2>1. CASE e = L
    BY <2>1
  <2>2. CASE o.skip_invalids
    <3>1. e \in p .. Len(image)
      BY <1>5
    <3> QED BY <1>5, <2>2, <3>1, DueExtends
  <2> QED BY <2>1, <2>2
<1> QED BY <1>4, <1>5, <1>6, <1>7, <1>8

-----------------------------------------------------------------------------
(***************************************************************************)
(* The blocks.  As many bytes were read as some number of whole blocks     *)
(* has, or all.                                                            *)
(***************************************************************************)
LEMMA SameBlock ==
  ASSUME NEW n \in Nat \ {0}, NEW k \in Nat, NEW r, r = k * n, NEW p \in r + 1 .. r + n
  PROVE  ((p - 1) \div n + 1) * n = r + n
<1>1. r \in Nat /\ k * n \in Nat
  OBVIOUS
<1> DEFINE c == p - 1 - r
           m == p - 1
           kn == k * n
<1>2. c \in 0 .. n - 1 /\ m = kn + c
  <2> HIDE DEF kn
  <2>1. r = kn /\ r \in Nat
    BY <1>1 DEF kn
  <2> QED BY <2>1
<1>3. m \div n = k
  <2> HIDE DEF c, m
  <2>1. m = k * n + c
    BY <1>2
  <2> QED BY <1>2, <2>1, WholeTimes
<1>4. (k + 1) * n = k * n + n
  OBVIOUS
<1> HIDE DEF m
<1>5. (m \div n + 1) * n = r + n
  <2> DEFINE d == m \div n
  <2>1. d = k
    BY <1>3
  <2> HIDE DEF d
  <2> QED BY <1>4, <2>1 DEF d
<1> QED BY <1>5 DEF m

LEMMA LesserOf ==
  ASSUME NEW a \in Nat, NEW b \in Nat
  PROVE  /\ Min({a, b}) \in Nat /\ Min({a, b}) <= a /\ Min({a, b}) <= b
         /\ Min({a, b}) = a \/ Min({a, b}) = b
<1> DEFINE S == {a, b}
           e == Min(S)
<1>1. S \in SUBSET Nat /\ S # {} /\ a \in S /\ b \in S
  OBVIOUS
<1>2. \A x \in S : x = a \/ x = b
  OBVIOUS
<1> HIDE DEF S
<1>3. e \in S /\ \A x \in S : e <= x
  BY <1>1, MinOf
<1> HIDE DEF e
<1>4. e \in Nat /\ e <= a /\ e <= b /\ (e = a \/ e = b)
  BY <1>1, <1>2, <1>3
<1> QED BY <1>4 DEF e, S

LEMMA NothingFrom ==
  ASSUME NEW n \in Nat, NEW buf \in Seq(Byte), Len(buf) <= n, NEW o, ~o.utf8
  PROVE  Extracted(buf, n, o) = << >>
<1> DEFINE a == pwdgen_img_extract(buf, n, 1, o)
           b == pwdgen_img_extract(buf, n, 2, o)
           c == pwdgen_img_extract(Tail(buf), n, 2, o)
<1>1. a = << >> /\ b = << >>
  BY NoRoom
<1>2. Len(buf) > 1 => c = << >>
  <2> SUFFICES ASSUME Len(buf) > 1 PROVE c = << >>
    OBVIOUS
  <2> DEFINE rest == Tail(buf)
  <2>1. Len(rest) = Len(buf) - 1 /\ Len(buf) \in Nat
    OBVIOUS
  <2> HIDE DEF rest
  <2>2. Len(rest) <= n
    BY <2>1
  <2> QED BY <2>2, NoRoom DEF rest
<1>3. Extracted(buf, n, o) =
        a \o (IF o.even_odd THEN b ELSE << >>) \o (IF o.even_odd /\ Len(buf) > 1 THEN c ELSE << >>)
  BY DEF Extracted
<1> HIDE DEF a, b, c
<1>4. /\ (IF o.even_odd THEN b ELSE << >>) = << >>
      /\ (IF o.even_odd /\ Len(buf) > 1 THEN c ELSE << >>) = << >>
  BY <1>1, <1>2
<1>5. << >> \o << >> \o << >> = << >>
  OBVIOUS
<1> QED BY <1>1, <1>3, <1>4, <1>5
=============================================================================
