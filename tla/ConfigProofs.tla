---------------------------- MODULE ConfigProofs ----------------------------
(***************************************************************************)
(* What holds of a worker that gets ready, for every table of character    *)
(* sets, every description file and every command line (see Config): the   *)
(* table is sound, the settings are layered, and what is ready can run.    *)
(***************************************************************************)
EXTENDS Config, FiniteSetTheorems, WellFoundedInduction, TLAPS

(***************************************************************************)
(* Least and greatest numbers, and folds.                                  *)
(***************************************************************************)
LEMMA LeastNumber ==
  ASSUME NEW S \in SUBSET Nat, S # {}
  PROVE  \E m \in S : \A x \in S : m <= x
<1> DEFINE Smaller == OpToRel(<, Nat)
<1>1. IsWellFoundedOn(Smaller, Nat)
  BY NatLessThanWellFounded
<1>2. \A x, y \in Nat : <<x, y>> \in Smaller <=> x < y
  BY Zenon DEF OpToRel
<1> HIDE DEF Smaller
<1>3. PICK m \in S : \A x \in S : ~(<<x, m>> \in Smaller)
  BY <1>1, WFMin, Zenon
<1>4. ASSUME NEW x \in S PROVE m <= x
  <2>1. x \in Nat /\ m \in Nat
    OBVIOUS
  <2>2. ~(x < m)
    BY <1>2, <1>3, <2>1, Zenon
  <2> QED BY <2>1, <2>2
<1> QED BY <1>4

LEMMA MinOf ==
  ASSUME NEW S \in SUBSET Nat, S # {}
  PROVE  Min(S) \in S /\ \A x \in S : Min(S) <= x
BY LeastNumber DEF Min

LEMMA MaxOf ==
  ASSUME NEW n \in Nat, NEW S \in SUBSET (1 .. n), S # {}
  PROVE  Max(S) \in S /\ \A x \in S : x <= Max(S)
<1> DEFINE Rest == {n - x : x \in S}
<1>1. Rest \in SUBSET Nat /\ Rest # {}
  <2>1. \A x \in S : n - x \in Nat
    OBVIOUS
  <2>2. PICK x \in S : TRUE
    OBVIOUS
  <2> QED BY <2>1, <2>2
<1>2. PICK r \in Rest : \A y \in Rest : r <= y
  BY <1>1, LeastNumber
<1>3. PICK m \in S : r = n - m
  OBVIOUS
<1>4. ASSUME NEW x \in S PROVE m >= x
  <2>1. n - m <= n - x
    BY <1>2, <1>3
  <2> QED BY <2>1
<1> HIDE DEF Rest
<1>5. /\ (CHOOSE x \in S : \A y \in S : x >= y) \in S
      /\ \A y \in S : (CHOOSE x \in S : \A z \in S : x >= z) >= y
  BY <1>4
<1>6. Max(S) \in S /\ \A y \in S : Max(S) >= y
  BY <1>5 DEF Max
<1> QED BY <1>6

\* A fold goes down from a set of positions to the set without its last one.
Folds(g, n, base, step) ==
  \A S \in SUBSET (1 .. n) : g[S] = IF S = {} THEN base ELSE step[<<g[S \ {Max(S)}], Max(S)>>]

\* The function that does so exists where every step stays within a set.
LEMMA FoldExists ==
  ASSUME NEW n \in Nat, NEW C, NEW base \in C, NEW step \in [C \X (1 .. n) -> C]
  PROVE  \E g \in [SUBSET (1 .. n) -> C] : Folds(g, n, base, step)
<1> DEFINE Eq(g, S) == g[S] = IF S = {} THEN base ELSE step[<<g[S \ {Max(S)}], Max(S)>>]
           Has_(k) == \E g \in [SUBSET (1 .. k) -> C] : \A S \in SUBSET (1 .. k) : Eq(g, S)
           Bad == {k \in 0 .. n : ~Has_(k)}
<1>1. Has_(0)
  <2> DEFINE g == [S \in SUBSET (1 .. 0) |-> base]
  <2>1. g \in [SUBSET (1 .. 0) -> C]
    OBVIOUS
  <2>2. \A S \in SUBSET (1 .. 0) : S = {}
    OBVIOUS
  <2>3. \A S \in SUBSET (1 .. 0) : Eq(g, S)
    BY <2>2
  <2> QED BY <2>1, <2>3
<1>2. ASSUME NEW k \in 0 .. n - 1, Has_(k)
      PROVE  Has_(k + 1)
  <2>1. PICK g \in [SUBSET (1 .. k) -> C] : \A S \in SUBSET (1 .. k) : Eq(g, S)
    BY <1>2
  <2> DEFINE h == [S \in SUBSET (1 .. k + 1) |->
                     IF k + 1 \in S THEN step[<<g[S \ {k + 1}], k + 1>>] ELSE g[S]]
  <2>2. ASSUME NEW S \in SUBSET (1 .. k + 1)
        PROVE  /\ S \ {k + 1} \in SUBSET (1 .. k)
               /\ k + 1 \notin S => S \in SUBSET (1 .. k)
               /\ k + 1 \in S => Max(S) = k + 1
    <3>1. k + 1 \in S => Max(S) = k + 1
      <4> SUFFICES ASSUME k + 1 \in S PROVE Max(S) = k + 1
        OBVIOUS
      <4>1. Max(S) \in S /\ k + 1 <= Max(S)
        <5>1. k + 1 \in Nat /\ S # {}
          OBVIOUS
        <5> QED BY <5>1, MaxOf
      <4>2. Max(S) \in 1 .. k + 1
        BY <4>1
      <4> QED BY <4>1, <4>2
    <3> QED BY <3>1
  <2>3. h \in [SUBSET (1 .. k + 1) -> C]
    <3> SUFFICES ASSUME NEW S \in SUBSET (1 .. k + 1) PROVE h[S] \in C
      OBVIOUS
    <3>1. CASE k + 1 \in S
      <4>1. g[S \ {k + 1}] \in C /\ k + 1 \in 1 .. n
        BY <2>2
      <4>2. <<g[S \ {k + 1}], k + 1>> \in C \X (1 .. n)
        BY <4>1
      <4> QED BY <3>1, <4>2
    <3>2. CASE k + 1 \notin S
      BY <2>2, <3>2
    <3> QED BY <3>1, <3>2
  <2>4. ASSUME NEW S \in SUBSET (1 .. k + 1) PROVE Eq(h, S)
    <3>1. CASE k + 1 \in S
      <4>1. h[S \ {k + 1}] = g[S \ {k + 1}]
        BY <2>2
      <4> QED BY <2>2, <3>1, <4>1
    <3>2. CASE k + 1 \notin S
      <4>1. S \in SUBSET (1 .. k) /\ h[S] = g[S]
        BY <2>2, <3>2
      <4>2. S # {} => S \ {Max(S)} \in SUBSET (1 .. k + 1) /\ k + 1 \notin S \ {Max(S)}
        BY <3>2
      <4>3. S # {} => h[S \ {Max(S)}] = g[S \ {Max(S)}]
        BY <4>2
      <4>4. Eq(g, S)
        BY <2>1, <4>1
      <4> QED BY <4>1, <4>3, <4>4
    <3> QED BY <3>1, <3>2
  <2> HIDE DEF h
  <2> QED BY <2>3, <2>4
<1> HIDE DEF Has_
<1>3. Bad = {}
  <2> SUFFICES ASSUME Bad # {} PROVE FALSE
    OBVIOUS
  <2>1. PICK m \in Bad : \A x \in Bad : m <= x
    BY LeastNumber, Bad \in SUBSET Nat
  <2>2. m # 0 /\ m \in 0 .. n /\ ~Has_(m)
    BY <1>1
  <2>3. m - 1 \in 0 .. n - 1 /\ m - 1 \notin Bad
    BY <2>1, <2>2
  <2>4. Has_(m - 1)
    BY <2>3
  <2>5. Has_((m - 1) + 1)
    BY <1>2, <2>3, <2>4
  <2>6. (m - 1) + 1 = m
    BY <2>2
  <2> QED BY <2>2, <2>5, <2>6
<1>4. Has_(n)
  BY <1>3
<1> QED BY <1>4 DEF Has_, Folds

\* And what every step keeps holds at the end.
LEMMA FoldKeeps ==
  ASSUME NEW n \in Nat, NEW C, NEW f, f[{}] \in C,
         \A S \in SUBSET (1 .. n) : S # {} /\ f[S \ {Max(S)}] \in C => f[S] \in C
  PROVE  f[1 .. n] \in C
<1> DEFINE Bad == {k \in 0 .. n : \E S \in SUBSET (1 .. k) : f[S] \notin C}
<1>1. Bad = {}
  <2> SUFFICES ASSUME Bad # {} PROVE FALSE
    OBVIOUS
  <2>1. PICK m \in Bad : \A x \in Bad : m <= x
    BY LeastNumber, Bad \in SUBSET Nat
  <2> HIDE DEF Bad
  <2>2. m \in 0 .. n /\ \E S \in SUBSET (1 .. m) : f[S] \notin C
    BY <2>1 DEF Bad
  <2> PICK S \in SUBSET (1 .. m) : f[S] \notin C
    BY <2>2
  <2>3. /\ S # {}
        /\ S \in SUBSET (1 .. n)
        /\ m \in Nat
    <3>1. S # {}
      BY <2>2
    <3>2. m \in Nat /\ m <= n
      BY <2>2
    <3>3. S \in SUBSET (1 .. n)
      BY <3>2
    <3> QED BY <3>1, <3>2, <3>3
  <2>4. Max(S) \in 1 .. m /\ \A x \in S : x <= Max(S)
    BY <2>3, MaxOf
  <2>5. S \ {Max(S)} \in SUBSET (1 .. m - 1)
    <3>1. ASSUME NEW x \in S, x # Max(S) PROVE x \in 1 .. m - 1
      <4>1. x \in 1 .. m /\ x <= Max(S) /\ Max(S) \in 1 .. m
        BY <2>4
      <4> QED BY <4>1, <3>1, <2>3
    <3> QED BY <3>1
  <2>6. m - 1 \in 0 .. n /\ m - 1 \notin Bad
    BY <2>1, <2>2, <2>4
  <2>7. f[S \ {Max(S)}] \in C
    BY <2>5, <2>6 DEF Bad
  <2> QED BY <2>2, <2>3, <2>7
<1>2. 1 .. n \in SUBSET (1 .. n) /\ n \in 0 .. n
  OBVIOUS
<1> QED BY <1>1, <1>2

-----------------------------------------------------------------------------
(***************************************************************************)
(* The table of the character sets.                                        *)
(***************************************************************************)

\* The pairs of a set are fields of its line that are no default.
LEMMA PairedFields ==
  ASSUME NEW line \in CharsetLines
  PROVE  Paired(line) \in Seq({f \in ToSet(line.fields) : IsPair(line.type, f)})
<1> DEFINE fields == line.fields
           n == Len(fields)
           C == Seq({f \in ToSet(fields) : IsPair(line.type, f)})
           Put(pairs, f) == IF IsPair(line.type, f) THEN Append(pairs, f) ELSE pairs
           Eq(h) == h = [S \in SUBSET (DOMAIN fields) |->
                           IF S = {} THEN << >> ELSE Put(h[S \ {Max(S)}], fields[Max(S)])]
           step == [xi \in C \X (1 .. n) |-> Put(xi[1], fields[xi[2]])]
<1>1. fields \in Seq(Fields) /\ n \in Nat /\ DOMAIN fields = 1 .. n
  <2>1. fields \in Seq(Fields)
    BY DEF CharsetLines
  <2> QED BY <2>1
<1>2. ASSUME NEW x \in C, NEW i \in 1 .. n PROVE Put(x, fields[i]) \in C
  <2>1. fields[i] \in ToSet(fields)
    BY <1>1 DEF ToSet
  <2>2. CASE IsPair(line.type, fields[i])
    BY <2>1, <2>2
  <2>3. CASE ~IsPair(line.type, fields[i])
    BY <2>3
  <2> QED BY <2>2, <2>3
<1> HIDE DEF n, C, Put
<1>3. step \in [C \X (1 .. n) -> C]
  BY <1>2
<1>4. << >> \in C
  BY DEF C
<1>5. ASSUME NEW x \in C, NEW i \in 1 .. n PROVE step[<<x, i>>] = Put(x, fields[i])
  <2>1. <<x, i>> \in C \X (1 .. n)
    OBVIOUS
  <2>2. step[<<x, i>>] = Put(<<x, i>>[1], fields[<<x, i>>[2]])
    BY <2>1, Zenon
  <2> QED BY <2>2
<1> HIDE DEF step
<1>6. PICK g \in [SUBSET (1 .. n) -> C] : Folds(g, n, << >>, step)
  BY <1>1, <1>3, <1>4, FoldExists
<1>7. ASSUME NEW S \in SUBSET (1 .. n), S # {}
      PROVE  Max(S) \in 1 .. n /\ S \ {Max(S)} \in SUBSET (1 .. n)
  BY <1>1, <1>7, MaxOf
<1>8. Eq(g)
  <2>1. ASSUME NEW S \in SUBSET (1 .. n)
        PROVE  g[S] = IF S = {} THEN << >> ELSE Put(g[S \ {Max(S)}], fields[Max(S)])
    <3>1. CASE S = {}
      BY <1>6, <3>1 DEF Folds
    <3>2. CASE S # {}
      <4>1. Max(S) \in 1 .. n /\ g[S \ {Max(S)}] \in C
        BY <1>6, <1>7, <3>2
      <4> QED BY <1>5, <1>6, <3>2, <4>1 DEF Folds
    <3> QED BY <3>1, <3>2
  <2> QED BY <1>1, <1>6, <2>1
<1> DEFINE h == CHOOSE h : Eq(h)
<1>9. Eq(h)
  BY <1>8
<1>10. Paired(line) = h[DOMAIN fields]
  BY DEF Paired, FoldLeft, MapThenFoldSet, Put
<1> HIDE DEF h
<1>11. h[{}] \in C
  <2>1. {} \in SUBSET (DOMAIN fields)
    OBVIOUS
  <2>2. h[{}] = << >>
    BY <1>9, <2>1
  <2> QED BY <1>4, <2>2
<1>12. ASSUME NEW S \in SUBSET (1 .. n), S # {}, h[S \ {Max(S)}] \in C
       PROVE  h[S] \in C
  <2>1. h[S] = Put(h[S \ {Max(S)}], fields[Max(S)])
    BY <1>1, <1>9, <1>12
  <2> QED BY <1>2, <1>7, <1>12, <2>1
<1>13. h[1 .. n] \in C
  BY <1>1, <1>11, <1>12, FoldKeeps
<1> QED BY <1>1, <1>10, <1>13 DEF C
PairsRead == [pos : Int, set : Nat, startlen : Int, endlen : Int]
SetsRead ==
  [id : Int, type : ToSet(Types), chars : Seq(0 .. 255), def : Nat, pairs : Seq(PairsRead)]

LEMMA TypesAre == ToSet(Types) = {"simple", "grouped", "dictionary", "extract"}
<1>1. DOMAIN Types = {1, 2, 3, 4}
  BY DEF Types
<1> QED BY <1>1 DEF ToSet, Types

\* What is found in a table is in it and has the id.
LEMMA Found ==
  ASSUME NEW sets \in Seq(SetsRead), NEW id
  PROVE  /\ pwdgen_find_set(sets, id) \in 0 .. Len(sets)
         /\ pwdgen_find_set(sets, id) # 0 => sets[pwdgen_find_set(sets, id)].id = id
         /\ pwdgen_find_set(sets, id) = 0 => \A i \in DOMAIN sets : sets[i].id # id
<1> DEFINE hits == {i \in DOMAIN sets : sets[i].id = id}
<1>1. DOMAIN sets = 1 .. Len(sets) /\ Len(sets) \in Nat
  OBVIOUS
<1>2. hits \in SUBSET Nat /\ hits \subseteq 1 .. Len(sets)
  BY <1>1
<1>3. hits # {} => Min(hits) \in hits
  BY <1>2, MinOf
<1>4. pwdgen_find_set(sets, id) = IF hits = {} THEN 0 ELSE Min(hits)
  BY DEF pwdgen_find_set
<1>5. CASE hits = {}
  BY <1>1, <1>4, <1>5
<1>6. CASE hits # {}
  BY <1>1, <1>2, <1>3, <1>4, <1>6
<1> QED BY <1>5, <1>6

\* A set that is in the table already, and no set that is still being read, is
\* what a field of it refers to.
LEMMA ReferredBefore ==
  ASSUME NEW sets \in Seq(SetsRead), NEW line \in CharsetLines,
         line.type \in {"grouped", "dictionary"}, NEW f, Refers(Known(sets, line), line.type, f)
  PROVE  LET at == pwdgen_find_set(Known(sets, line), f.set)
         IN  at \in 1 .. Len(sets) /\ sets[at].type \in Referable(line.type)
<1> DEFINE known == Known(sets, line)
           at    == pwdgen_find_set(known, f.set)
           new   == NewSet(line.id, line.type)
<1>1. new \in SetsRead /\ new.type = line.type
  <2>1. line.id \in Int /\ line.type \in ToSet(Types)
    BY TypesAre DEF CharsetLines
  <2>2. << >> \in Seq(0 .. 255) /\ << >> \in Seq(PairsRead)
    OBVIOUS
  <2> QED BY <2>1, <2>2 DEF NewSet, SetsRead
<1>2. /\ known \in Seq(SetsRead) /\ Len(known) = Len(sets) + 1 /\ Len(sets) \in Nat
      /\ known[Len(sets) + 1] = new
      /\ \A i \in 1 .. Len(sets) : known[i] = sets[i]
  BY <1>1 DEF Known
<1> HIDE DEF known, new
<1>3. at \in 0 .. Len(known) /\ at # 0 /\ known[at].type \in Referable(line.type)
  BY <1>2, Found DEF Refers, known
<1>4. line.type \notin Referable(line.type)
  BY DEF Referable
<1>5. at # Len(sets) + 1
  BY <1>1, <1>2, <1>3, <1>4
<1> QED BY <1>2, <1>3, <1>5 DEF known

LEMMA FilledSet ==
  ASSUME NEW sets \in Seq(SetsRead), NEW line \in CharsetLines, line.type \in ToSet(Types),
         NEW set, set # Null,
         set = Filled(Known(sets, line), line, Defaults(line), Paired(line))
  PROVE  /\ set \in SetsRead /\ set.id = line.id
         /\ WellReferred(Append(sets, set), Len(sets) + 1)
<1> DEFINE known    == Known(sets, line)
           defaults == Defaults(line)
           paired   == Paired(line)
           at(f)    == pwdgen_find_set(known, f.set)
           fields   == line.fields
           Pairing  == {f \in ToSet(fields) : IsPair(line.type, f)}
<1>1. /\ Sound(known, line)
      /\ line.type = "grouped" => defaults # {} /\ Len(paired) <= MAXPAIRS
  <2>1. ~Sound(known, line) \/ (line.type = "grouped" /\ (defaults = {} \/ Len(paired) > MAXPAIRS))
        => set = Null
    BY DEF Filled
  <2>2. paired \in Seq(Pairing) /\ MAXPAIRS \in Nat
    BY PairedFields, ConfigAssumption DEF ConfigAssumption
  <2>3. Len(paired) \in Nat
    BY <2>2
  <2>4. Sound(known, line) /\ ~(line.type = "grouped" /\ (defaults = {} \/ Len(paired) > MAXPAIRS))
    BY <2>1
  <2> HIDE DEF paired, defaults, known
  <2> QED BY <2>2, <2>3, <2>4
<1>2. /\ fields \in Seq(Fields) /\ DOMAIN fields = 1 .. Len(fields) /\ Len(fields) \in Nat
      /\ line.id \in Int
  <2>1. fields \in Seq(Fields) /\ line.id \in Int
    BY DEF CharsetLines
  <2> QED BY <2>1
<1>3. set = [NewSet(line.id, line.type) EXCEPT
               !.chars = IF line.type = "simple" THEN Mapped(LAMBDA f : f.char, fields) ELSE @,
               !.def = IF defaults = {} THEN @ ELSE at(fields[Max(defaults)]),
               !.pairs = Mapped(LAMBDA f : [pos |-> f.pos, set |-> at(f),
                                            startlen |-> f.min, endlen |-> f.max], paired)]
  BY <1>1 DEF Filled
<1>4. /\ set = [id |-> set.id, type |-> set.type, chars |-> set.chars, def |-> set.def, pairs |-> set.pairs]
      /\ set.id = line.id /\ set.type = line.type
      /\ set.chars = IF line.type = "simple" THEN [i \in DOMAIN fields |-> fields[i].char] ELSE << >>
      /\ set.def = IF defaults = {} THEN 0 ELSE at(fields[Max(defaults)])
      /\ set.pairs = [j \in DOMAIN paired |->
                        [pos |-> paired[j].pos, set |-> at(paired[j]),
                         startlen |-> paired[j].min, endlen |-> paired[j].max]]
  BY <1>3, Zenon DEF NewSet, Mapped
<1>5. paired \in Seq(Pairing)
  BY PairedFields
<1> HIDE DEF paired, defaults, known, fields, at
<1>6. Len(paired) \in Nat /\ DOMAIN paired = 1 .. Len(paired)
  BY <1>5
<1>7. ASSUME NEW f \in ToSet(fields), line.type \in {"grouped", "dictionary"}
      PROVE  at(f) \in 1 .. Len(sets) /\ sets[at(f)].type \in Referable(line.type)
  <2>1. PICK i \in DOMAIN fields : f = fields[i]
    BY DEF ToSet, fields
  <2>2. Refers(known, line.type, f)
    BY <1>1, <1>7, <2>1 DEF Sound, known, fields
  <2> QED BY <1>7, <2>2, ReferredBefore DEF at, known
<1>8. ASSUME NEW j \in DOMAIN paired
      PROVE  /\ paired[j] \in ToSet(fields) /\ paired[j] \in Fields
             /\ line.type \in {"grouped", "dictionary"}
             /\ set.pairs[j] = [pos |-> paired[j].pos, set |-> at(paired[j]),
                                startlen |-> paired[j].min, endlen |-> paired[j].max]
  <2>1. paired[j] \in Pairing
    BY <1>5, <1>6
  <2>2. paired[j] \in ToSet(fields) /\ IsPair(line.type, paired[j])
    BY <2>1
  <2>3. paired[j] \in Fields
    BY <1>2, <2>2 DEF ToSet
  <2>4. set.pairs[j] = [pos |-> paired[j].pos, set |-> at(paired[j]),
                        startlen |-> paired[j].min, endlen |-> paired[j].max]
    BY <1>4
  <2> QED BY <2>2, <2>3, <2>4 DEF IsPair
<1>9. DOMAIN set.pairs = DOMAIN paired
  BY <1>4
<1>10. ASSUME defaults # {}
       PROVE  line.type = "grouped" /\ fields[Max(defaults)] \in ToSet(fields)
  <2>1. line.type = "grouped" /\ defaults \subseteq 1 .. Len(fields)
    BY <1>2, <1>10 DEF Defaults, defaults, fields
  <2>2. Max(defaults) \in 1 .. Len(fields)
    BY <1>2, <1>10, <2>1, MaxOf
  <2> QED BY <1>2, <2>1, <2>2 DEF ToSet
<1>11. set.def \in 0 .. Len(sets) /\ (set.def # 0 =>
         line.type = "grouped" /\ sets[set.def].type \in Referable(line.type))
  <2>1. CASE defaults = {}
    <3>1. Len(sets) \in Nat
      OBVIOUS
    <3> QED BY <1>4, <2>1, <3>1
  <2>2. CASE defaults # {}
    BY <1>4, <1>7, <1>10, <2>2
  <2> QED BY <2>1, <2>2
<1>12. set \in SetsRead
  <2>1. set.chars \in Seq(0 .. 255)
    <3>1. CASE line.type = "simple"
      <4>1. set.chars = [i \in DOMAIN fields |-> fields[i].char]
        BY <1>4, <3>1
      <4>2. ASSUME NEW i \in DOMAIN fields PROVE fields[i].char \in 0 .. 255
        <5>1. fields[i] \in Fields
          BY <1>2
        <5> QED BY <5>1 DEF Fields
      <4> QED BY <1>2, <4>1, <4>2
    <3> QED BY <1>4, <3>1
  <2>2. set.pairs \in Seq(PairsRead)
    <3>1. ASSUME NEW j \in DOMAIN paired PROVE set.pairs[j] \in PairsRead
      <4>1. at(paired[j]) \in Nat
        <5>1. at(paired[j]) \in 1 .. Len(sets)
          BY <1>7, <1>8
        <5> QED BY <5>1
      <4>2. paired[j].pos \in Int /\ paired[j].min \in Int /\ paired[j].max \in Int
        BY <1>8, ZenonT(60) DEF Fields
      <4>3. set.pairs[j] = [pos |-> paired[j].pos, set |-> at(paired[j]),
                            startlen |-> paired[j].min, endlen |-> paired[j].max]
        BY <1>8
      <4> QED BY <4>1, <4>2, <4>3 DEF PairsRead
    <3>2. set.pairs = [j \in DOMAIN paired |-> set.pairs[j]]
      BY <1>4
    <3> QED BY <1>6, <3>1, <3>2
  <2>3. set.def \in Nat
    BY <1>11
  <2> QED BY <1>2, <1>4, <2>1, <2>2, <2>3 DEF SetsRead
<1>13. WellReferred(Append(sets, set), Len(sets) + 1)
  <2> DEFINE new == Append(sets, set)
  <2>1. Len(sets) \in Nat /\ new[Len(sets) + 1] = set /\ \A u \in 1 .. Len(sets) : new[u] = sets[u]
    BY <1>12
  <2> HIDE DEF new
  <2>2. ASSUME NEW u \in Uses(set)
        PROVE  /\ u \in 1 .. Len(sets) /\ sets[u].type \in Referable(line.type)
               /\ line.type \in {"grouped", "dictionary"}
    <3>1. CASE u \in {set.def} \ {0}
      BY <1>11, <3>1
    <3>2. CASE \E j \in DOMAIN set.pairs : u = set.pairs[j].set
      <4>1. PICK j \in DOMAIN paired : u = set.pairs[j].set
        BY <1>9, <3>2
      <4>2. set.pairs[j].set = at(paired[j])
        <5>1. set.pairs[j] = [pos |-> paired[j].pos, set |-> at(paired[j]),
                              startlen |-> paired[j].min, endlen |-> paired[j].max]
          BY <1>8
        <5> QED BY <5>1
      <4> QED BY <1>7, <1>8, <4>1, <4>2
    <3> QED BY <3>1, <3>2 DEF Uses
  <2>3. \A u \in Uses(set) :
          /\ u \in 1 .. (Len(sets) + 1) - 1
          /\ new[u].type \in (IF set.type = "grouped" THEN {"simple"} ELSE {"simple", "grouped"})
    BY <1>4, <2>1, <2>2 DEF Referable
  <2>4. set.type \in {"simple", "extract"} => Uses(set) = {}
    BY <1>4, <2>2
  <2>5. set.type = "grouped" => set.def # 0 /\ Len(set.pairs) <= MAXPAIRS
    <3> SUFFICES ASSUME set.type = "grouped" PROVE set.def # 0 /\ Len(set.pairs) <= MAXPAIRS
      OBVIOUS
    <3>1. defaults # {} /\ Len(paired) <= MAXPAIRS
      BY <1>1, <1>4
    <3>2. set.def # 0
      BY <1>4, <1>7, <1>10, <3>1
    <3>3. Len(set.pairs) = Len(paired)
      <4>1. set.pairs \in Seq(PairsRead)
        BY <1>12 DEF SetsRead
      <4> QED BY <1>6, <1>9, <4>1
    <3> QED BY <3>1, <3>2, <3>3
  <2> QED BY <2>1, <2>3, <2>4, <2>5 DEF WellReferred, new
<1> QED BY <1>4, <1>12, <1>13
\* The table of a generator: its sets, and where no line of it was wrong their
\* soundness; without a count of the sets there is none.
TableInv ==
  /\ table \in [max : Nat, sets : Seq(SetsRead), failed : BOOLEAN]
  /\ table.max = 0 => table.sets = << >>
  /\ SetsSound

LEMMA TableInit == Init => TableInv
<1> SUFFICES ASSUME Init PROVE TableInv
  OBVIOUS
<1>1. table = [max |-> 0, sets |-> << >>, failed |-> FALSE]
  BY DEF Init, NewTable
<1>2. << >> \in Seq(SetsRead) /\ Len(<< >>) = 0 /\ DOMAIN << >> = {}
  OBVIOUS
<1> QED BY <1>1, <1>2 DEF TableInv, SetsSound

LEMMA Defined ==
  ASSUME TableInv, ~table.failed, NEW line \in CharsetLines, line.type \in ToSet(Types),
         table' = Define(table, line)
  PROVE  TableInv'
<1> DEFINE sets == table.sets
           set  == Filled(Known(sets, line), line, Defaults(line), Paired(line))
           n    == Len(sets)
           Bad  == \/ table.max = 0
                   \/ line.separator # ":"
                   \/ line.id < 1 \/ line.id > 9999
                   \/ pwdgen_find_set(sets, line.id) # 0
                   \/ set = Null
                   \/ n = table.max
<1>1. /\ table = [max |-> table.max, sets |-> sets, failed |-> table.failed]
      /\ table.max \in Nat /\ sets \in Seq(SetsRead)
      /\ n \in Nat /\ DOMAIN sets = 1 .. n
  BY DEF TableInv
<1>2. table' = IF Bad THEN [table EXCEPT !.failed = TRUE]
               ELSE [table EXCEPT !.sets = Append(@, set)]
  BY DEF Define
<1>3. CASE Bad
  <2> HIDE DEF Bad
  <2>1. table' = [table EXCEPT !.failed = TRUE]
    BY <1>2, <1>3
  <2>2. /\ table' = [max |-> table.max, sets |-> sets, failed |-> TRUE]
        /\ table'.max = table.max /\ table'.sets = sets /\ table'.failed = TRUE
    BY <1>1, <2>1
  <2> QED BY <1>1, <2>2 DEF TableInv, SetsSound, sets
<1>4. CASE ~Bad
  <2>0. line.id \in Int
    BY DEF CharsetLines
  <2>1. /\ table.max # 0 /\ line.id > 0 /\ pwdgen_find_set(sets, line.id) = 0
        /\ set # Null /\ n # table.max
    BY <1>4, <2>0
  <2>2. set \in SetsRead /\ set.id = line.id /\ WellReferred(Append(sets, set), n + 1)
    BY <1>1, <2>1, FilledSet
  <2> HIDE DEF Bad, set, sets, n
  <2>3. /\ table' = [max |-> table.max, sets |-> Append(sets, set), failed |-> FALSE]
        /\ table'.max = table.max /\ table'.sets = Append(sets, set)
    <3>1. table.failed = FALSE
      BY DEF TableInv
    <3> QED BY <1>1, <1>2, <1>4, <3>1 DEF sets
  <2> DEFINE new == Append(sets, set)
  <2>4. /\ new \in Seq(SetsRead) /\ Len(new) = n + 1 /\ DOMAIN new = 1 .. n + 1
        /\ new[n + 1] = set /\ \A i \in 1 .. n : new[i] = sets[i]
    BY <1>1, <2>2 DEF n
  <2> HIDE DEF new
  <2>5. n <= table.max
    BY <1>1 DEF TableInv, SetsSound, sets, n
  <2>6. \A i \in 1 .. n : sets[i].id # line.id
    BY <1>1, <2>1, Found
  <2>7. ASSUME NEW i \in 1 .. n + 1
        PROVE  /\ new[i].id > 0
               /\ \A j \in 1 .. n + 1 : new[j].id = new[i].id => j = i
               /\ WellReferred(new, i)
    <3>1. CASE i = n + 1
      <4>1. WellReferred(new, i)
        BY <2>2, <3>1 DEF new
      <4>2. new[i].id = line.id
        BY <2>2, <2>4, <3>1
      <4>3. \A j \in 1 .. n + 1 : j # i => j \in 1 .. n
        BY <1>1, <3>1
      <4>4. \A j \in 1 .. n + 1 : new[j].id = new[i].id => j = i
        BY <2>4, <2>6, <4>2, <4>3
      <4>5. new[i].id > 0
        BY <2>1, <4>2
      <4> QED BY <4>1, <4>4, <4>5
    <3>2. CASE i \in 1 .. n
      <4>1. /\ sets[i].id > 0
            /\ \A j \in 1 .. n : sets[j].id = sets[i].id => j = i
            /\ WellReferred(sets, i)
        BY <1>1, <3>2 DEF TableInv, SetsSound, sets
      <4>2. \A j \in 1 .. n + 1 : new[j].id = new[i].id => j = i
        <5>1. \A j \in 1 .. n + 1 : j \in 1 .. n \/ j = n + 1
          BY <1>1
        <5> QED BY <2>2, <2>4, <2>6, <3>2, <4>1, <5>1
      <4>3. WellReferred(new, i)
        <5>1. \A u \in 1 .. i - 1 : new[u] = sets[u]
          BY <1>1, <2>4, <3>2
        <5>2. new[i] = sets[i]
          BY <2>4, <3>2
        <5> QED BY <4>1, <5>1, <5>2 DEF WellReferred
      <4> QED BY <2>4, <3>2, <4>1, <4>2, <4>3
    <3> QED BY <1>1, <3>1, <3>2
  <2>8. Len(new) <= table.max
    BY <1>1, <2>1, <2>4, <2>5
  <2>9. SetsSound'
    BY <2>3, <2>4, <2>7, <2>8 DEF SetsSound, new
  <2>10. table' \in [max : Nat, sets : Seq(SetsRead), failed : BOOLEAN]
    BY <1>1, <2>3, <2>4 DEF new
  <2> QED BY <2>1, <2>3, <2>9, <2>10 DEF TableInv
<1> QED BY <1>3, <1>4

LEMMA TableRead == ASSUME TableInv, ReadLine PROVE TableInv'
<1>1. PICK i \in DOMAIN Charsets :
        /\ Charsets[i].what = "count" => table.max = 0
        /\ table' = pwdgen_read_charset(table, Charsets[i])
  BY DEF ReadLine
<1> DEFINE line == Charsets[i]
<1>2. line \in CharsetLines /\ (line.what = "set" => line.type # "")
  BY ConfigAssumption DEF ConfigAssumption
<1>3. /\ line.what \in {"ignored", "too long", "count", "set"} /\ line.n \in Nat
      /\ line.what = "set" => line.type \in ToSet(Types)
  BY <1>2 DEF CharsetLines
<1>4. ~table.failed
  BY DEF ReadLine
<1> HIDE DEF line
<1>5. /\ table = [max |-> table.max, sets |-> table.sets, failed |-> table.failed]
      /\ table.max \in Nat /\ table.sets \in Seq(SetsRead)
  BY DEF TableInv
<1>6. CASE line.what = "ignored"
  <2>1. table' = table
    BY <1>1, <1>6 DEF pwdgen_read_charset, line
  <2> QED BY <2>1 DEF TableInv, SetsSound
<1>7. CASE line.what = "too long"
  <2>1. table' = [table EXCEPT !.failed = TRUE]
    BY <1>1, <1>7 DEF pwdgen_read_charset, line
  <2>2. table' = [max |-> table.max, sets |-> table.sets, failed |-> TRUE]
    BY <1>5, <2>1
  <2> QED BY <1>5, <2>2 DEF TableInv, SetsSound
<1>8. CASE line.what = "count"
  <2>1. table' = [table EXCEPT !.max = line.n, !.failed = (line.n = 0)] /\ table.max = 0
    BY <1>1, <1>8 DEF pwdgen_read_charset, line
  <2>2. table' = [max |-> line.n, sets |-> << >>, failed |-> (line.n = 0)]
    BY <1>5, <2>1 DEF TableInv
  <2>3. << >> \in Seq(SetsRead) /\ Len(<< >>) = 0 /\ DOMAIN << >> = {}
    OBVIOUS
  <2>4. table'.max = line.n /\ table'.sets = << >>
    BY <2>2
  <2>5. SetsSound'
    <3>1. Len(table'.sets) = 0 /\ DOMAIN table'.sets = {}
      BY <2>4
    <3>2. 0 <= table'.max
      <4>1. table'.max \in Nat
        BY <1>3, <2>4
      <4> QED BY <4>1
    <3> QED BY <3>1, <3>2 DEF SetsSound
  <2>6. table' \in [max : Nat, sets : Seq(SetsRead), failed : BOOLEAN]
    BY <1>3, <2>2, <2>3
  <2> QED BY <2>4, <2>5, <2>6 DEF TableInv
<1>9. CASE line.what = "set"
  <2>1. table' = Define(table, line)
    BY <1>1, <1>9 DEF pwdgen_read_charset, line
  <2>2. line.type \in ToSet(Types) /\ line \in CharsetLines
    BY <1>2, <1>3, <1>9 DEF line
  <2> QED BY <1>4, <2>1, <2>2, Defined
<1> QED BY <1>3, <1>6, <1>7, <1>8, <1>9

LEMMA TableNext == ASSUME TableInv, [Next]_vars PROVE TableInv'
<1>1. CASE ReadLine
  BY <1>1, TableRead
<1>2. CASE UNCHANGED table
  BY <1>2, SMTT(30) DEF TableInv, SetsSound
<1>3. [Next]_vars => ReadLine \/ UNCHANGED table
  BY DEF Next, vars, CallWithFile, CallDirect, CallWrong, Identify, EndOfSets, ReadKeys,
         PlainSet, ReadJob, FindSet, CheckPasswords, StartMutations, ShiftBit, ShiftDone,
         InitExtract, InitDictionary, FirstString, InitFunction, pwdgen_finalize
<1> QED BY <1>1, <1>2, <1>3

\* For every charsets.def, whatever the order of its lines: where it is accepted
\* no set refers to itself, to a later set or to one of a type it cannot use.
THEOREM TableSound == Spec => []SetsSound
<1>1. TableInv /\ [Next]_vars => TableInv'
  BY TableNext
<1>2. TableInv => SetsSound
  BY DEF TableInv
<1> QED BY TableInit, <1>1, <1>2, PTL DEF Spec
-----------------------------------------------------------------------------
(***************************************************************************)
(* The settings.                                                           *)
(***************************************************************************)
ConfFields ==
  {"id", "type", "prefix", "cur", "gen", "encodings", "dictionary", "ofs", "mutations",
   "stages", "first", "todo", "locale", "error"}
Shaped(c) == c = [x \in ConfFields |-> c[x]]

StringFields == {"units", "enc", "chars", "size", "room", "top", "flags"}
ShapedPrefix(c) == c.prefix = [x \in StringFields |-> c.prefix[x]]

\* The fields that have another value in d than in c, at most.
Changes(c, d, S) == \A x \in ConfFields \ S : d[x] = c[x]

LEMMA EncodingNamed ==
  ASSUME NEW name
  PROVE  pwdgen_encoding_from_name(name) \in Encodings \union {"INVALID"}
<1> DEFINE named == {enc \in Encodings : name \in {_encoding_names(enc), Lowered(enc)}}
<1>1. (CHOOSE enc \in named : TRUE) \in Encodings \/ named = {}
  OBVIOUS
<1>2. {"ASCII", "ISO_8859_15", "UTF_8", "ISO_8859_1", "UTF_16"} \subseteq Encodings
  BY DEF Encodings, SingleByte, Unicode, Wide
<1> QED BY <1>1, <1>2 DEF pwdgen_encoding_from_name

LEMMA Latin1Named == pwdgen_encoding_from_name("ISO-8859-1") = "ISO_8859_1"
<1> DEFINE named == {enc \in Encodings : "ISO-8859-1" \in {_encoding_names(enc), Lowered(enc)}}
<1>1. Encodings = {"ASCII", "ISO_8859_1", "ISO_8859_15", "UTF_8", "UTF_16", "UTF_32"}
  BY DEF Encodings, SingleByte, Unicode, Wide
<1>2. named = {"ISO_8859_1"}
  BY <1>1 DEF _encoding_names, Lowered
<1>3. (CHOOSE enc \in named : TRUE) = "ISO_8859_1"
  BY <1>2
<1> QED BY <1>2, <1>3 DEF pwdgen_encoding_from_name

\* The settings of the keys of one file.
LEMMA PrefixRead ==
  ASSUME NEW c, Shaped(c), ShapedPrefix(c), c.error \in BOOLEAN, NEW cfg,
         NEW r, r = PrefixKeys(c, cfg)
  PROVE  /\ Shaped(r) /\ ShapedPrefix(r) /\ Changes(c, r, {"prefix", "error"})
         /\ r.error \in BOOLEAN /\ (c.error => r.error)
         /\ ~r.error =>
              << r.prefix.units, r.prefix.enc >> =
                IF Has(cfg, "prefix") \/ Has(cfg, "password_prefix") THEN PrefixIn(cfg)
                ELSE << c.prefix.units, c.prefix.enc >>
         /\ ~(Has(cfg, "prefix") /\ ConfigEncoding(cfg) = "INVALID") => r.error = c.error
<1>1. ASSUME NEW d, Shaped(d), ShapedPrefix(d), NEW units, NEW enc, NEW e, e = Prefixed(d, units, enc)
      PROVE  /\ Shaped(e) /\ ShapedPrefix(e) /\ Changes(d, e, {"prefix"})
             /\ e.prefix.units = units /\ e.prefix.enc = enc
  <2> DEFINE p == [d.prefix EXCEPT !.units = units, !.chars = -1, !.enc = enc]
  <2>1. e = [d EXCEPT !.prefix = p]
    BY <1>1, Zenon DEF Prefixed
  <2>2. p = [x \in StringFields |-> p[x]] /\ p.units = units /\ p.enc = enc
    BY <1>1 DEF ShapedPrefix, StringFields
  <2> HIDE DEF p
  <2>3. Shaped(e) /\ e.prefix = p /\ Changes(d, e, {"prefix"})
    BY <1>1, <2>1 DEF Shaped, ConfFields, Changes
  <2> QED BY <2>2, <2>3 DEF ShapedPrefix
<1> DEFINE old    == UpToZero(h2a(cfg["password_prefix"]))
           legacy == IF Has(cfg, "password_prefix") THEN Prefixed(c, old, "ISO_8859_1") ELSE c
           new    == Prefixed(legacy, cfg["prefix"], ConfigEncoding(cfg))
           wrong  == ConfigEncoding(cfg) = "INVALID"
<1>2. r = IF Has(cfg, "prefix") THEN [new EXCEPT !.error = @ \/ wrong] ELSE legacy
  BY Zenon DEF PrefixKeys
<1> HIDE DEF old, wrong
<1>3. /\ Shaped(legacy) /\ ShapedPrefix(legacy) /\ Changes(c, legacy, {"prefix"})
      /\ legacy.error = c.error
      /\ Has(cfg, "password_prefix") => << legacy.prefix.units, legacy.prefix.enc >> = << old, "ISO_8859_1" >>
      /\ ~Has(cfg, "password_prefix") => legacy.prefix = c.prefix
  BY <1>1 DEF Changes, ConfFields
<1> HIDE DEF legacy
<1>4. CASE ~Has(cfg, "prefix")
  <2>1. r = legacy
    BY <1>2, <1>4
  <2>2. Has(cfg, "password_prefix") => PrefixIn(cfg) = << old, "ISO_8859_1" >>
    BY <1>4 DEF PrefixIn, old
  <2> QED BY <1>3, <1>4, <2>1, <2>2 DEF Changes
<1>5. CASE Has(cfg, "prefix")
  <2>1. /\ Shaped(new) /\ ShapedPrefix(new) /\ Changes(legacy, new, {"prefix"})
        /\ new.prefix.units = cfg["prefix"] /\ new.prefix.enc = ConfigEncoding(cfg)
    BY <1>1, <1>3
  <2> HIDE DEF new
  <2>2. r = [new EXCEPT !.error = @ \/ wrong]
    BY <1>2, <1>5
  <2>3. Shaped(r) /\ Changes(new, r, {"error"}) /\ r.error = (new.error \/ wrong) /\ r.prefix = new.prefix
    BY <2>1, <2>2 DEF Shaped, Changes, ConfFields
  <2>4. new.error = c.error
    BY <1>3, <2>1 DEF Changes, ConfFields
  <2>5. Changes(c, r, {"prefix", "error"})
    BY <1>3, <2>1, <2>3 DEF Changes
  <2>6. PrefixIn(cfg) = << cfg["prefix"], ConfigEncoding(cfg) >>
    BY <1>5 DEF PrefixIn
  <2>7. ShapedPrefix(r)
    BY <2>1, <2>3 DEF ShapedPrefix
  <2>8. r.error = (c.error \/ wrong)
    BY <2>3, <2>4
  <2>9. /\ r.error \in BOOLEAN /\ (c.error => r.error)
        /\ ~(Has(cfg, "prefix") /\ ConfigEncoding(cfg) = "INVALID") => r.error = c.error
    BY <1>5, <2>8, Zenon DEF wrong
  <2>10. << r.prefix.units, r.prefix.enc >> = PrefixIn(cfg)
    BY <2>1, <2>3, <2>6
  <2> QED BY <1>5, <2>3, <2>5, <2>7, <2>9, <2>10
<1> QED BY <1>4, <1>5
\* A list of encodings without doubles, of which only the first may be wrong.
Listed(encs) ==
  /\ encs \in Seq(Encodings \union {"INVALID"})
  /\ \A i, j \in DOMAIN encs : encs[i] = encs[j] => i = j
  /\ \A i \in DOMAIN encs : i > 1 => encs[i] \in Encodings

LEMMA ListedOne ==
  ASSUME NEW enc \in Encodings \union {"INVALID"} PROVE Listed(<< enc >>)
<1>1. << enc >> \in Seq(Encodings \union {"INVALID"}) /\ DOMAIN << enc >> = {1}
  OBVIOUS
<1> QED BY <1>1 DEF Listed

LEMMA ListedNone == Listed(<< >>)
<1>1. << >> \in Seq(Encodings \union {"INVALID"}) /\ DOMAIN << >> = {}
  OBVIOUS
<1> QED BY <1>1 DEF Listed

KeyFields == {"prefix", "error", "dictionary", "ofs", "mutations", "stages", "gen", "encodings"}

\* The settings in r are those of the file, where it has them, and else those in c.
ReadFrom(c, cfg, r) ==
  /\ << r.prefix.units, r.prefix.enc >> =
       IF Has(cfg, "prefix") \/ Has(cfg, "password_prefix") THEN PrefixIn(cfg)
       ELSE << c.prefix.units, c.prefix.enc >>
  /\ r.mutations = Setting(cfg, "dictionary_mutations", c.mutations)
  /\ r.stages = Setting(cfg, "dictionary_stages", c.stages)
  /\ r.dictionary = Setting(cfg, "dictionary", Setting(cfg, "dictionary_file", c.dictionary))
  /\ r.gen = IF Has(cfg, "input_encoding") THEN pwdgen_encoding_from_name(cfg["input_encoding"])
             ELSE c.gen
  /\ r.encodings = IF Has(cfg, "output_encoding")
                   THEN << pwdgen_encoding_from_name(cfg["output_encoding"]) >> ELSE << >>

LEMMA KeysRead ==
  ASSUME NEW c, Shaped(c), ShapedPrefix(c), c.error \in BOOLEAN, c.gen \in Encodings \/ c.error,
         Listed(c.encodings), NEW cfg, NEW r, r = pwdgen_set_cfg_keys(c, cfg)
  PROVE  /\ Shaped(r) /\ ShapedPrefix(r) /\ Changes(c, r, KeyFields)
         /\ r.error \in BOOLEAN /\ (c.error => r.error)
         /\ r.gen \in Encodings \/ r.error
         /\ Listed(r.encodings)
         /\ r.mutations \in {c.mutations, Setting(cfg, "dictionary_mutations", c.mutations)}
         /\ ~r.error => ReadFrom(c, cfg, r)
<1> DEFINE p     == PrefixKeys(c, cfg)
           wrong == Has(cfg, "prefix") /\ ConfigEncoding(cfg) = "INVALID"
           d     == DictionaryKeys(p, cfg)
<1>1. r = IF wrong THEN p ELSE EncodingKeys(d, cfg)
  BY DEF pwdgen_set_cfg_keys
<1>2. /\ Shaped(p) /\ ShapedPrefix(p) /\ Changes(c, p, {"prefix", "error"})
      /\ p.error \in BOOLEAN /\ (c.error => p.error)
      /\ ~p.error => << p.prefix.units, p.prefix.enc >> =
           IF Has(cfg, "prefix") \/ Has(cfg, "password_prefix") THEN PrefixIn(cfg)
           ELSE << c.prefix.units, c.prefix.enc >>
      /\ ~wrong => p.error = c.error
  BY PrefixRead
<1>3. wrong => p.error
  <2> SUFFICES ASSUME wrong PROVE p.error
    OBVIOUS
  <2> DEFINE legacy == IF Has(cfg, "password_prefix")
                       THEN Prefixed(c, UpToZero(h2a(cfg["password_prefix"])), "ISO_8859_1") ELSE c
             new    == Prefixed(legacy, cfg["prefix"], ConfigEncoding(cfg))
  <2>1. p = [new EXCEPT !.error = @ \/ ConfigEncoding(cfg) = "INVALID"]
    BY DEF PrefixKeys
  <2>2. "error" \in DOMAIN p
    BY <1>2 DEF Shaped, ConfFields
  <2> HIDE DEF new, p
  <2>3. DOMAIN p = DOMAIN new
    BY <2>1
  <2> QED BY <2>1, <2>2, <2>3
<1>4. CASE wrong
  BY <1>1, <1>2, <1>3, <1>4 DEF Changes, ConfFields, KeyFields
<1>5. CASE ~wrong
  <2> HIDE DEF p, wrong
  <2>1. /\ p.error = c.error /\ p.gen = c.gen /\ p.encodings = c.encodings
        /\ p.mutations = c.mutations /\ p.stages = c.stages /\ p.dictionary = c.dictionary
    BY <1>2, <1>5 DEF Changes, ConfFields
  <2>2. d = [p EXCEPT !.dictionary = Setting(cfg, "dictionary", Setting(cfg, "dictionary_file", @)),
                      !.ofs        = Setting(cfg, "dictionary_file_offset", @),
                      !.mutations  = Setting(cfg, "dictionary_mutations", @),
                      !.stages     = Setting(cfg, "dictionary_stages", @)]
    BY Zenon DEF DictionaryKeys
  <2> DEFINE gen == pwdgen_encoding_from_name(cfg["input_encoding"])
             out == pwdgen_encoding_from_name(cfg["output_encoding"])
  <2> HIDE DEF d
  <2>3. /\ Shaped(d) /\ Changes(p, d, {"dictionary", "ofs", "mutations", "stages"})
        /\ d.dictionary = Setting(cfg, "dictionary", Setting(cfg, "dictionary_file", p.dictionary))
        /\ d.mutations = Setting(cfg, "dictionary_mutations", p.mutations)
        /\ d.stages = Setting(cfg, "dictionary_stages", p.stages)
    BY <1>2, <2>2 DEF Shaped, Changes, ConfFields
  <2>4. /\ d.prefix = p.prefix /\ d.error = p.error /\ d.gen = p.gen /\ d.encodings = p.encodings
    BY <2>3 DEF Changes, ConfFields
  <2>5. gen \in Encodings \union {"INVALID"} /\ out \in Encodings \union {"INVALID"}
    BY EncodingNamed
  <2> HIDE DEF gen, out
  <2>6. r = CASE ~Has(cfg, "input_encoding") -> OutputKeys(d, cfg)
              [] Has(cfg, "input_encoding") /\ gen = "INVALID" -> [d EXCEPT !.gen = gen, !.error = TRUE]
              [] OTHER -> OutputKeys([d EXCEPT !.gen = gen], cfg)
    BY <1>1, <1>5 DEF EncodingKeys, gen
  <2>7. ASSUME NEW f, Shaped(f), Changes(d, f, {"gen"}), f.gen \in Encodings \/ f.error,
               r = OutputKeys(f, cfg)
        PROVE  /\ Shaped(r) /\ Changes(f, r, {"encodings"}) /\ Listed(r.encodings)
               /\ r.encodings = IF Has(cfg, "output_encoding") THEN << out >> ELSE << >>
    <3>1. r = [f EXCEPT !.encodings = IF Has(cfg, "output_encoding") THEN << out >> ELSE << >>]
      BY <2>7 DEF OutputKeys, pwdgen_use_encoding, out
    <3>2. Shaped(r) /\ Changes(f, r, {"encodings"})
      BY <2>7, <3>1 DEF Shaped, Changes, ConfFields
    <3>3. r.encodings = IF Has(cfg, "output_encoding") THEN << out >> ELSE << >>
      BY <2>7, <3>1 DEF Shaped, ConfFields
    <3> QED BY <2>5, <3>2, <3>3, ListedOne, ListedNone
  <2>8. CASE Has(cfg, "input_encoding") /\ gen = "INVALID"
    <3>1. r = [d EXCEPT !.gen = gen, !.error = TRUE]
      BY <2>6, <2>8
    <3>2. Shaped(r) /\ Changes(d, r, {"gen", "error"}) /\ r.error = TRUE
      BY <2>3, <3>1 DEF Shaped, Changes, ConfFields
    <3>3. r.encodings = c.encodings /\ r.prefix = p.prefix /\ r.mutations = d.mutations
      BY <2>1, <2>4, <3>2 DEF Changes, ConfFields
    <3>4. Changes(c, r, KeyFields)
      BY <1>2, <2>3, <3>2 DEF Changes, KeyFields
    <3>5. ShapedPrefix(r)
      BY <1>2, <3>3 DEF ShapedPrefix
    <3> QED BY <2>1, <2>3, <3>2, <3>3, <3>4, <3>5
  <2>9. ASSUME NEW f, Shaped(f), Changes(d, f, {"gen"}),
               f.gen = IF Has(cfg, "input_encoding") THEN gen ELSE c.gen,
               Has(cfg, "input_encoding") => gen # "INVALID",
               r = OutputKeys(f, cfg)
        PROVE  /\ Shaped(r) /\ ShapedPrefix(r) /\ Changes(c, r, KeyFields)
               /\ r.error \in BOOLEAN /\ (c.error => r.error)
               /\ r.gen \in Encodings \/ r.error
               /\ Listed(r.encodings)
               /\ r.mutations \in {c.mutations, Setting(cfg, "dictionary_mutations", c.mutations)}
               /\ ~r.error => ReadFrom(c, cfg, r)
    <3>1. f.error = c.error /\ f.prefix = p.prefix /\ f.mutations = d.mutations
          /\ f.stages = d.stages /\ f.dictionary = d.dictionary
      BY <2>1, <2>4, <2>9 DEF Changes, ConfFields
    <3>2. f.gen \in Encodings \/ f.error
      BY <2>5, <2>9, <3>1
    <3>3. /\ Shaped(r) /\ Changes(f, r, {"encodings"}) /\ Listed(r.encodings)
          /\ r.encodings = IF Has(cfg, "output_encoding") THEN << out >> ELSE << >>
      BY <2>7, <2>9, <3>2
    <3>4. /\ r.error = c.error /\ r.prefix = p.prefix /\ r.mutations = d.mutations /\ r.gen = f.gen
          /\ r.stages = d.stages /\ r.dictionary = d.dictionary
      BY <3>1, <3>3 DEF Changes, ConfFields
    <3>5. Changes(c, r, KeyFields)
      BY <1>2, <2>3, <2>9, <3>3 DEF Changes, KeyFields
    <3>6. ShapedPrefix(r)
      BY <1>2, <3>4 DEF ShapedPrefix
    <3>7. ~r.error => ReadFrom(c, cfg, r)
      BY <1>2, <2>1, <2>3, <2>9, <3>3, <3>4 DEF ReadFrom, gen, out
    <3> QED BY <2>1, <2>3, <3>2, <3>1, <3>3, <3>4, <3>5, <3>6, <3>7
  <2>10. CASE ~Has(cfg, "input_encoding")
    <3>1. r = OutputKeys(d, cfg) /\ d.gen = c.gen /\ Changes(d, d, {"gen"})
      BY <2>1, <2>4, <2>6, <2>10 DEF Changes
    <3> QED BY <2>3, <2>9, <2>10, <3>1
  <2>11. CASE Has(cfg, "input_encoding") /\ gen # "INVALID"
    <3> DEFINE f == [d EXCEPT !.gen = gen]
    <3>1. r = OutputKeys(f, cfg)
      BY <2>6, <2>11
    <3>2. f.gen = gen /\ Changes(d, f, {"gen"}) /\ Shaped(f)
      BY <2>3 DEF Shaped, Changes, ConfFields
    <3> HIDE DEF f
    <3> QED BY <2>9, <2>11, <3>1, <3>2
  <2> QED BY <2>8, <2>10, <2>11
<1> QED BY <1>4, <1>5
-----------------------------------------------------------------------------
(***************************************************************************)
(* The settings at every step, and the files they are from.                *)
(***************************************************************************)
Reading == {"args", "charsets", "keys", "set"}

SettingsInv ==
  /\ Shaped(conf) /\ conf.error \in BOOLEAN
  /\ conf.gen \in Encodings \/ conf.error
  /\ Listed(conf.encodings)
  /\ conf.mutations \subseteq 0 .. MaxBit - 1
  /\ call.start \in HexDigits /\ call.end \in HexDigits /\ Scanned(call.keys)
  /\ phase \in Reading => job = Null /\ ShapedPrefix(conf)
  /\ phase = "set" /\ ~conf.error => ReadFrom(NewConf("ASCII"), call.keys, conf)

LEMMA NewConfIs ==
  ASSUME NEW locale
  PROVE  /\ NewConf(locale).prefix = NewConf("ASCII").prefix
         /\ NewConf(locale).prefix.units = << >> /\ NewConf(locale).prefix.enc = "UTF_8"
         /\ NewConf(locale).mutations = {} /\ NewConf(locale).stages = {}
         /\ NewConf(locale).dictionary = "not set" /\ NewConf(locale).gen = "ISO_8859_1"
BY SMTT(30) DEF NewConf, NewString

LEMMA NewSettings ==
  ASSUME NEW locale, NEW c, c = NewConf(locale)
  PROVE  /\ Shaped(c) /\ ShapedPrefix(c) /\ c.error = FALSE /\ c.gen \in Encodings
         /\ Listed(c.encodings) /\ c.mutations = {} /\ c.first = 1
         /\ \A cfg, r : ReadFrom(c, cfg, r) => ReadFrom(NewConf("ASCII"), cfg, r)
<1>1. Shaped(c) /\ c.error = FALSE /\ c.gen = "ISO_8859_1" /\ c.encodings = << >> /\ c.mutations = {} /\ c.first = 1
  <2> DEFINE p == NewString(<< >>, "UTF_8", 0, 1536)
  <2>1. c = [id |-> 0, type |-> "none", prefix |-> p, cur |-> Null,
             gen |-> "ISO_8859_1", encodings |-> << >>, dictionary |-> "not set", ofs |-> 0,
             mutations |-> {}, stages |-> {}, first |-> 1, todo |-> {}, locale |-> locale, error |-> FALSE]
    BY DEF NewConf
  <2> HIDE DEF p
  <2>2. DOMAIN c = ConfFields
    BY <2>1 DEF ConfFields
  <2>3. c = [x \in DOMAIN c |-> c[x]]
    BY <2>1
  <2>4. c = [x \in ConfFields |-> c[x]]
    BY <2>2, <2>3, Zenon
  <2>5. /\ c.error = FALSE /\ c.gen = "ISO_8859_1" /\ c.encodings = << >> /\ c.mutations = {}
        /\ c.first = 1
    BY DEF NewConf
  <2> QED BY <2>4, <2>5 DEF Shaped
<1>2. ShapedPrefix(c)
  <2> DEFINE p == c.prefix
  <2>1. p = NewString(<< >>, "UTF_8", 0, 1536)
    BY DEF NewConf
  <2>2. p = [units |-> << >>, enc |-> "UTF_8", chars |-> 0, size |-> 1536, room |-> 1536,
             top |-> p.top, flags |-> {}]
    BY <2>1 DEF NewString
  <2> HIDE DEF p
  <2>3. DOMAIN p = StringFields
    BY <2>2 DEF StringFields
  <2>4. p = [x \in DOMAIN p |-> p[x]]
    BY <2>2
  <2> QED BY <2>3, <2>4 DEF ShapedPrefix, p
<1>3. "ISO_8859_1" \in Encodings
  BY DEF Encodings, SingleByte
<1>4. \A cfg, r : ReadFrom(c, cfg, r) => ReadFrom(NewConf("ASCII"), cfg, r)
  <2> DEFINE d == NewConf("ASCII")
  <2>1. /\ c.prefix = d.prefix /\ c.mutations = d.mutations /\ c.stages = d.stages
        /\ c.dictionary = d.dictionary /\ c.gen = d.gen
    BY NewConfIs, Zenon
  <2> HIDE DEF d
  <2>2. \A cfg, r : ReadFrom(c, cfg, r) => ReadFrom(d, cfg, r)
    BY <2>1 DEF ReadFrom
  <2> QED BY <2>2 DEF d
<1> QED BY <1>1, <1>2, <1>3, <1>4, ListedNone

LEMMA SettingsInit == Init => SettingsInv
<1> SUFFICES ASSUME Init PROVE SettingsInv
  OBVIOUS
<1>1. /\ phase = "args" /\ job = Null /\ conf = NewConf("ASCII") /\ call = NoCall
  BY DEF Init
<1>2. call.start = << >> /\ call.end = << >> /\ call.keys = Null
  BY <1>1 DEF NoCall
<1>3. << >> \in HexDigits
  BY DEF HexDigits
<1> HIDE DEF SettingsInv
<1>4. /\ Shaped(conf) /\ ShapedPrefix(conf) /\ conf.error = FALSE /\ conf.gen \in Encodings
      /\ Listed(conf.encodings) /\ conf.mutations = {}
  BY <1>1, NewSettings
<1> QED BY <1>1, <1>2, <1>3, <1>4 DEF SettingsInv, Scanned

\* A step that reads no file changes settings only in these ways.
LEMMA SettingsKept ==
  ASSUME SettingsInv, Shaped(conf'), conf'.error \in BOOLEAN, conf.error => conf'.error,
         conf'.gen \in Encodings \union {conf.gen}, Listed(conf'.encodings),
         conf'.mutations \subseteq 0 .. MaxBit - 1,
         UNCHANGED call, phase' \notin Reading
  PROVE  SettingsInv'
BY DEF SettingsInv, Reading

\* The encodings that a worker asks for.
LEMMA EncodingsAsked ==
  ASSUME NEW c, Shaped(c), Listed(c.encodings), NEW encs \in Seq(Encodings),
         NEW r, r = pwdgen_use_encodings(c, encs)
  PROVE  /\ Shaped(r) /\ Changes(c, r, {"encodings"}) /\ Listed(r.encodings)
         /\ c.encodings # << >> => r.encodings # << >>
<1> DEFINE n == Len(encs)
           Lists == {e \in Seq(Encodings \union {"INVALID"}) :
                       Listed(e) /\ (c.encodings # << >> => e # << >>)}
           C == {[c EXCEPT !.encodings = e] : e \in Lists}
           Eq(h) == h = [S \in SUBSET (DOMAIN encs) |->
                           IF S = {} THEN c ELSE pwdgen_add_encoding(h[S \ {Max(S)}], encs[Max(S)])]
           step == [xi \in C \X (1 .. n) |-> pwdgen_add_encoding(xi[1], encs[xi[2]])]
<1>1. n \in Nat /\ DOMAIN encs = 1 .. n
  OBVIOUS
<1>2. ASSUME NEW x \in C
      PROVE  Shaped(x) /\ Changes(c, x, {"encodings"}) /\ x.encodings \in Lists
             /\ \A e \in Lists : [x EXCEPT !.encodings = e] \in C
  <2>1. PICK e \in Lists : x = [c EXCEPT !.encodings = e]
    OBVIOUS
  <2> HIDE DEF Lists
  <2>2. Shaped(x) /\ Changes(c, x, {"encodings"}) /\ x.encodings = e
    BY <2>1 DEF Shaped, Changes, ConfFields
  <2>3. ASSUME NEW f \in Lists PROVE [x EXCEPT !.encodings = f] = [c EXCEPT !.encodings = f]
    BY <2>1 DEF Shaped, ConfFields
  <2> QED BY <2>2, <2>3
<1>3. c \in C
  <2>1. c.encodings \in Lists
    BY DEF Listed
  <2>2. c = [c EXCEPT !.encodings = c.encodings]
    BY DEF Shaped, ConfFields
  <2> QED BY <2>1, <2>2
<1>4. ASSUME NEW x \in C, NEW i \in 1 .. n PROVE pwdgen_add_encoding(x, encs[i]) \in C
  <2> DEFINE old == x.encodings
             enc == encs[i]
  <2>1. old \in Lists /\ enc \in Encodings
    BY <1>2
  <2>2. CASE Len(old) >= 32 \/ enc \in ToSet(old)
    BY <2>2 DEF pwdgen_add_encoding
  <2>3. CASE ~(Len(old) >= 32 \/ enc \in ToSet(old))
    <3> DEFINE new == Append(old, enc)
    <3>1. /\ old \in Seq(Encodings \union {"INVALID"}) /\ Listed(old)
          /\ Len(old) \in Nat /\ DOMAIN old = 1 .. Len(old)
      BY <2>1
    <3>2. /\ new \in Seq(Encodings \union {"INVALID"}) /\ DOMAIN new = 1 .. Len(old) + 1
          /\ new[Len(old) + 1] = enc /\ \A j \in 1 .. Len(old) : new[j] = old[j]
      BY <2>1, <3>1
    <3>3. new # << >>
      <4>1. Len(old) + 1 \in DOMAIN new
        BY <3>1, <3>2
      <4> QED BY <4>1
    <3>4. \A j \in 1 .. Len(old) : old[j] # enc
      BY <2>3, <3>1 DEF ToSet
    <3>5. \A j \in 1 .. Len(old) + 1 : j \in 1 .. Len(old) \/ j = Len(old) + 1
      BY <3>1
    <3>6. pwdgen_add_encoding(x, enc) = [x EXCEPT !.encodings = new]
      BY <2>3 DEF pwdgen_add_encoding
    <3> HIDE DEF new, old, enc
    <3>7. Listed(new)
      <4>1. \A j, k \in DOMAIN new : new[j] = new[k] => j = k
        BY <3>1, <3>2, <3>4, <3>5 DEF Listed
      <4>2. \A j \in DOMAIN new : j > 1 => new[j] \in Encodings
        BY <2>1, <3>1, <3>2, <3>5 DEF Listed
      <4> QED BY <3>2, <4>1, <4>2 DEF Listed
    <3>8. new \in Lists
      BY <3>2, <3>3, <3>7
    <3> HIDE DEF Lists, C
    <3>9. [x EXCEPT !.encodings = new] \in C
      BY <1>2, <3>8
    <3> QED BY <3>6, <3>9 DEF enc
  <2> QED BY <2>2, <2>3
<1> HIDE DEF C, n
<1>5. step \in [C \X (1 .. n) -> C]
  BY <1>4
<1>6. ASSUME NEW x \in C, NEW i \in 1 .. n PROVE step[<<x, i>>] = pwdgen_add_encoding(x, encs[i])
  <2>1. <<x, i>> \in C \X (1 .. n)
    OBVIOUS
  <2>2. step[<<x, i>>] = pwdgen_add_encoding(<<x, i>>[1], encs[<<x, i>>[2]])
    BY <2>1, Zenon
  <2> QED BY <2>2
<1> HIDE DEF step
<1>7. PICK g \in [SUBSET (1 .. n) -> C] : Folds(g, n, c, step)
  BY <1>1, <1>3, <1>5, FoldExists
<1>8. ASSUME NEW S \in SUBSET (1 .. n), S # {}
      PROVE  Max(S) \in 1 .. n /\ S \ {Max(S)} \in SUBSET (1 .. n)
  BY <1>1, <1>8, MaxOf
<1>9. Eq(g)
  <2>1. ASSUME NEW S \in SUBSET (1 .. n)
        PROVE  g[S] = IF S = {} THEN c ELSE pwdgen_add_encoding(g[S \ {Max(S)}], encs[Max(S)])
    <3>1. CASE S = {}
      BY <1>7, <3>1 DEF Folds
    <3>2. CASE S # {}
      <4>1. Max(S) \in 1 .. n /\ g[S \ {Max(S)}] \in C
        BY <1>7, <1>8, <3>2
      <4> QED BY <1>6, <1>7, <3>2, <4>1 DEF Folds
    <3> QED BY <3>1, <3>2
  <2> QED BY <1>1, <1>7, <2>1
<1> DEFINE h == CHOOSE h : Eq(h)
<1>10. Eq(h)
  BY <1>9
<1>11. r = h[DOMAIN encs]
  BY DEF pwdgen_use_encodings, FoldLeft, MapThenFoldSet
<1> HIDE DEF h
<1>12. h[{}] \in C
  <2>1. {} \in SUBSET (DOMAIN encs)
    OBVIOUS
  <2> QED BY <1>3, <1>10, <2>1
<1>13. ASSUME NEW S \in SUBSET (1 .. n), S # {}, h[S \ {Max(S)}] \in C
       PROVE  h[S] \in C
  <2>1. h[S] = pwdgen_add_encoding(h[S \ {Max(S)}], encs[Max(S)])
    BY <1>1, <1>10, <1>13
  <2> QED BY <1>4, <1>8, <1>13, <2>1
<1>14. h[1 .. n] \in C
  BY <1>1, <1>12, <1>13, FoldKeeps
<1>15. r \in C
  BY <1>1, <1>11, <1>14
<1> QED BY <1>2, <1>15
-----------------------------------------------------------------------------
(***************************************************************************)
(* The search for the first mutation, and what is known from the first     *)
(* password on.                                                            *)
(***************************************************************************)
Late == {"first", "user", "finalize", "ready"}

Lowest ==
  conf.first - 1 \in conf.mutations /\ \A bit \in conf.mutations : conf.first - 1 <= bit

\* What is still to be shifted through are the mutations less the shifts done.
SearchInv ==
  /\ phase \in Reading \union {"find", "tables", "mutations"} => conf.first = 1
  /\ phase = "tables" => conf.type \in {"simple", "grouped"}
  /\ phase \in {"mutations", "shift"} => conf.type \in {"dictionary", "extract"}
  /\ phase \in {"dictionary", "extract"} => conf.type = phase /\ Lowest
  /\ phase = "shift" =>
       /\ conf.first \in Nat \ {0} /\ conf.mutations # {}
       /\ conf.todo = {bit - (conf.first - 1) : bit \in conf.mutations}
       /\ \A bit \in conf.mutations : conf.first - 1 <= bit

TableLegal ==
  \A w \in {h2a(call.start), h2a(call.end)} : K(table.sets, ChosenSet(conf.id))!Legal(w)

StartInv ==
  phase \in Late =>
    /\ conf.encodings # << >>
    /\ conf.type \in {"simple", "grouped"} => TableLegal
    /\ conf.type \in {"dictionary", "extract"} => Lowest
    /\ phase \in {"finalize", "ready"} => ~conf.error
    /\ phase = "ready" => conf.encodings[1] \in Encodings

ReadyInv == SettingsInv /\ SearchInv /\ StartInv

LEMMA ChosenType ==
  ASSUME TableInv, NEW id, NEW set, set = ChosenSet(id), set # Null
  PROVE  set.type \in ToSet(Types)
<1> DEFINE at == pwdgen_find_set(table.sets, id)
<1>1. CASE set = pwdgen_virtual_set(id)
  <2>1. id \in -4 .. -1
    BY <1>1 DEF pwdgen_virtual_set
  <2> DEFINE type == Types[-id]
             new  == NewSet(id, type)
             chars == IF type = "simple" THEN [i \in 1 .. 256 |-> i - 1] ELSE new.chars
  <2>2. set = [new EXCEPT !.chars = chars]
    BY <1>1, <2>1 DEF pwdgen_virtual_set
  <2>3. type \in ToSet(Types)
    <3>1. -id \in {1, 2, 3, 4} /\ DOMAIN Types = {1, 2, 3, 4}
      BY <2>1 DEF Types
    <3> QED BY <3>1 DEF ToSet
  <2> HIDE DEF type, chars
  <2>4. set.type = type
    BY <2>2 DEF NewSet
  <2> QED BY <2>3, <2>4
<1>2. CASE set = table.sets[at] /\ at # 0
  <2>1. table.sets \in Seq(SetsRead)
    BY DEF TableInv
  <2>2. at \in 1 .. Len(table.sets)
    BY <1>2, <2>1, Found
  <2>3. set \in SetsRead
    BY <1>2, <2>1, <2>2
  <2> QED BY <2>3 DEF SetsRead
<1> QED BY <1>1, <1>2 DEF ChosenSet

LEMMA MembersOfSeq ==
  ASSUME NEW W, NEW d \in Seq(W)
  PROVE  \A j \in 1 .. Len(d) : d[j] \in W
BY SMT

LEMMA BytesOfHex == ASSUME NEW d \in HexDigits PROVE h2a(d) \in Seq(0 .. 255)
<1>1. d \in Seq(0 .. 15) /\ Len(d) \in Nat
  BY DEF HexDigits
<1>2. ASSUME NEW i \in 1 .. Len(d) \div 2 PROVE d[2 * i - 1] * 16 + d[2 * i] \in 0 .. 255
  <2>1. 2 * i - 1 \in 1 .. Len(d) /\ 2 * i \in 1 .. Len(d)
    BY <1>1
  <2>2. \A j \in 1 .. Len(d) : d[j] \in Int /\ 0 <= d[j] /\ d[j] <= 15
    <3>1. \A j \in 1 .. Len(d) : d[j] \in 0 .. 15
      BY <1>1, MembersOfSeq
    <3>2. \A x \in 0 .. 15 : x \in Int /\ 0 <= x /\ x <= 15
      OBVIOUS
    <3> QED BY <3>1, <3>2, Zenon
  <2> DEFINE a == d[2 * i - 1]
             b == d[2 * i]
  <2>3. a \in Int /\ 0 <= a /\ a <= 15 /\ b \in Int /\ 0 <= b /\ b <= 15
    BY <2>1, <2>2
  <2> HIDE DEF a, b
  <2> DEFINE c == a * 16 + b
  <2>4. c \in Int /\ 0 <= c /\ c <= 255
    BY <2>3
  <2> HIDE DEF c
  <2>5. c \in 0 .. 255
    BY <2>4
  <2> QED BY <2>5 DEF a, b, c
<1>3. Len(d) \div 2 \in Nat
  BY <1>1
<1> QED BY <1>2, <1>3 DEF h2a

LEMMA DefaultListed ==
  ASSUME SettingsInv, NEW enc \in Encodings, NEW r, r = DefaultEncoding(enc)
  PROVE  /\ Shaped(r) /\ Changes(conf, r, {"encodings"}) /\ Listed(r.encodings)
         /\ r.encodings # << >>
<1> DEFINE e == IF conf.encodings = << >> THEN << enc >> ELSE conf.encodings
<1>1. r = [conf EXCEPT !.encodings = e]
  BY DEF DefaultEncoding
<1>2. Listed(e) /\ e # << >>
  BY ListedOne DEF SettingsInv
<1> HIDE DEF e
<1>3. Shaped(conf)
  BY DEF SettingsInv
<1>4. Shaped(r) /\ Changes(conf, r, {"encodings"}) /\ r.encodings = e
  BY <1>1, <1>3 DEF Shaped, Changes, ConfFields
<1> QED BY <1>2, <1>4

LEMMA LegalKept ==
  ASSUME TableLegal, UNCHANGED << table, call >>, conf'.id = conf.id
  PROVE  TableLegal'
BY DEF TableLegal, ChosenSet

LEMMA LowestKept ==
  ASSUME Lowest, conf'.first = conf.first, conf'.mutations = conf.mutations
  PROVE  Lowest'
BY DEF Lowest

LEMMA Bounds == MaxBit \in Nat /\ 10 < MaxBit
<1>1. MaxBit \in Nat /\ DICT_ORIGINAL < MaxBit
  BY ConfigAssumption, Zenon DEF ConfigAssumption
<1> QED BY <1>1 DEF DICT_ORIGINAL

\* Steps by which nothing is made ready.
LEMMA Quiet ==
  ASSUME ReadyInv, UNCHANGED << call, conf, job >>,
         \/ phase' \in {"refused", "exited"}
         \/ phase \in {"args", "charsets"} /\ phase' \in {"charsets", "keys"}
  PROVE  ReadyInv'
<1>1. SettingsInv'
  BY DEF ReadyInv, SettingsInv, Reading
<1>2. SearchInv'
  BY DEF ReadyInv, SearchInv, Reading
<1>3. StartInv'
  BY DEF StartInv, Late
<1> QED BY <1>1, <1>2, <1>3 DEF ReadyInv

LEMMA ReadyInit == Init => ReadyInv
<1> SUFFICES ASSUME Init PROVE ReadyInv
  OBVIOUS
<1>1. phase = "args" /\ conf = NewConf("ASCII")
  BY DEF Init
<1>2. conf.first = 1
  BY <1>1, NewSettings
<1>3. SearchInv /\ StartInv
  BY <1>1, <1>2 DEF SearchInv, StartInv, Late
<1> QED BY <1>3, SettingsInit DEF ReadyInv

LEMMA ReadyCall == ASSUME ReadyInv, CallWithFile \/ CallDirect PROVE ReadyInv'
<1>1. ASSUME call'.start \in HexDigits, call'.end \in HexDigits, Scanned(call'.keys),
             phase = "args", phase' = "charsets", UNCHANGED << job, conf >>
      PROVE  ReadyInv'
  <2>1. SettingsInv'
    BY <1>1 DEF ReadyInv, SettingsInv, Reading
  <2>2. SearchInv'
    BY <1>1 DEF ReadyInv, SearchInv, Reading
  <2>3. StartInv'
    BY <1>1 DEF StartInv, Late
  <2> QED BY <2>1, <2>2, <2>3 DEF ReadyInv
<1>2. CASE CallDirect
  <2>1. PICK i \in DOMAIN CommandLines :
          call' = [start |-> CommandLines[i].start, end |-> CommandLines[i].end,
                   set |-> CommandLines[i].set, keys |-> Null]
    BY <1>2 DEF CallDirect
  <2>2. call'.start = CommandLines[i].start /\ call'.end = CommandLines[i].end /\ call'.keys = Null
    BY <2>1
  <2>3. CommandLines[i].start \in HexDigits /\ CommandLines[i].end \in HexDigits
    BY ConfigAssumption DEF ConfigAssumption
  <2>4. phase = "args" /\ phase' = "charsets" /\ UNCHANGED << job, conf >>
    BY <1>2 DEF CallDirect, Goto
  <2>5. Scanned(call'.keys)
    BY <2>2 DEF Scanned
  <2> QED BY <1>1, <2>2, <2>3, <2>4, <2>5
<1>3. CASE CallWithFile
  <2>1. PICK i \in DOMAIN ChunkFiles :
          LET keys == pwdcfg_read(ChunkFiles[i])
          IN  IF keys = Null THEN Refuse /\ UNCHANGED call
              ELSE /\ call' = [start |-> Setting(keys, "start", << >>), end |-> Setting(keys, "end", << >>),
                               set |-> SetOf(keys), keys |-> keys]
                   /\ Goto("charsets")
    BY <1>3 DEF CallWithFile
  <2> DEFINE keys == pwdcfg_read(ChunkFiles[i])
  <2>2. phase = "args" /\ UNCHANGED << job, conf >>
    BY <1>3 DEF CallWithFile
  <2>3. Scanned(keys)
    BY ConfigAssumption DEF ConfigAssumption
  <2> HIDE DEF keys
  <2>4. CASE keys = Null
    <3>1. phase' = "refused" /\ UNCHANGED call
      BY <2>1, <2>4 DEF Refuse, keys
    <3> QED BY <2>2, <3>1, Quiet
  <2>5. CASE keys # Null
    <3>1. /\ call' = [start |-> Setting(keys, "start", << >>), end |-> Setting(keys, "end", << >>),
                      set |-> SetOf(keys), keys |-> keys]
          /\ phase' = "charsets"
      BY <2>1, <2>5 DEF Goto, keys
    <3>2. call'.start \in HexDigits /\ call'.end \in HexDigits /\ call'.keys = keys
      BY <2>3, <2>5, <3>1 DEF Scanned
    <3> QED BY <1>1, <2>2, <2>3, <3>1, <3>2
  <2> QED BY <2>4, <2>5
<1> QED BY <1>2, <1>3

LEMMA ReadyKeys == ASSUME ReadyInv, ReadKeys PROVE ReadyInv'
<1>1. PICK locale \in Locales :
        conf' = pwdgen_set_cfg_keys(NewConf(pwdgen_query_locale(locale)), call.keys)
  BY DEF ReadKeys
<1> DEFINE c == NewConf(pwdgen_query_locale(locale))
<1>2. phase = "keys" /\ phase' = "set" /\ UNCHANGED << call, job >>
  BY DEF ReadKeys, Goto
<1>3. /\ Shaped(c) /\ ShapedPrefix(c) /\ c.error = FALSE /\ c.gen \in Encodings
      /\ Listed(c.encodings) /\ c.mutations = {} /\ c.first = 1
      /\ \A cfg, r : ReadFrom(c, cfg, r) => ReadFrom(NewConf("ASCII"), cfg, r)
  BY NewSettings
<1>4. conf' = pwdgen_set_cfg_keys(c, call.keys)
  BY <1>1
<1> HIDE DEF c
<1>5. /\ Shaped(conf') /\ ShapedPrefix(conf') /\ Changes(c, conf', KeyFields)
      /\ conf'.error \in BOOLEAN
      /\ conf'.gen \in Encodings \/ conf'.error
      /\ Listed(conf'.encodings)
      /\ conf'.mutations \in {c.mutations, Setting(call.keys, "dictionary_mutations", c.mutations)}
      /\ ~conf'.error => ReadFrom(c, call.keys, conf')
  BY <1>3, <1>4, KeysRead
<1>6. conf'.mutations \subseteq 0 .. MaxBit - 1
  <2>1. Scanned(call.keys)
    BY DEF ReadyInv, SettingsInv
  <2> QED BY <1>3, <1>5, <2>1 DEF Scanned, Setting, Has
<1>7. conf'.first = 1
  BY <1>3, <1>5 DEF Changes, ConfFields, KeyFields
<1>8. SettingsInv'
  BY <1>2, <1>3, <1>5, <1>6 DEF ReadyInv, SettingsInv, Reading
<1>9. SearchInv' /\ StartInv'
  BY <1>2, <1>7 DEF SearchInv, StartInv, Late, Reading
<1> QED BY <1>8, <1>9 DEF ReadyInv

LEMMA ReadyJob == ASSUME ReadyInv, PlainSet \/ ReadJob PROVE ReadyInv'
<1>1. /\ Shaped(conf) /\ ShapedPrefix(conf) /\ conf.error \in BOOLEAN
      /\ conf.gen \in Encodings \/ conf.error
      /\ Listed(conf.encodings) /\ conf.mutations \subseteq 0 .. MaxBit - 1 /\ conf.first = 1
      /\ phase = "set" /\ UNCHANGED << table, call >>
  BY DEF PlainSet, ReadJob, ReadyInv, SettingsInv, SearchInv, Reading
<1>2. ASSUME NEW id, NEW c, c = [conf EXCEPT !.id = id]
      PROVE  Shaped(c) /\ Changes(conf, c, {"id"}) /\ ShapedPrefix(c)
  <2>1. Shaped(c) /\ Changes(conf, c, {"id"})
    BY <1>1, <1>2 DEF Shaped, Changes, ConfFields
  <2>2. c.prefix = conf.prefix
    BY <2>1 DEF Changes, ConfFields
  <2> QED BY <1>1, <2>1, <2>2 DEF ShapedPrefix
<1>3. ASSUME phase' = "find", SettingsInv', conf'.first = 1 PROVE ReadyInv'
  BY <1>3 DEF ReadyInv, SearchInv, StartInv, Late
<1>4. CASE PlainSet
  <2>1. conf' = [conf EXCEPT !.id = call.set.id] /\ phase' = "find"
    BY <1>4 DEF PlainSet, Goto
  <2>2. Shaped(conf') /\ Changes(conf, conf', {"id"})
    BY <1>2, <2>1
  <2>3. /\ conf'.error = conf.error /\ conf'.gen = conf.gen /\ conf'.encodings = conf.encodings
        /\ conf'.mutations = conf.mutations /\ conf'.first = conf.first
    BY <2>2 DEF Changes, ConfFields
  <2>4. SettingsInv'
    BY <1>1, <2>1, <2>2, <2>3 DEF ReadyInv, SettingsInv, Reading
  <2> QED BY <1>1, <1>3, <2>1, <2>3, <2>4
<1>5. CASE ReadJob
  <2>1. PICK i \in DOMAIN JobFiles :
          LET keys == pwdcfg_read(JobFiles[i])
              read == pwdgen_readset(conf, keys)
          IN  IF read = Null THEN Refuse /\ UNCHANGED << job, conf >>
              ELSE conf' = read /\ job' = keys /\ Goto("find")
    BY <1>5 DEF ReadJob
  <2> DEFINE keys == pwdcfg_read(JobFiles[i])
             c    == [conf EXCEPT !.id = Setting(keys, "charset_id", @)]
  <2>2. CASE pwdgen_readset(conf, keys) = Null
    <3>1. phase' = "refused" /\ UNCHANGED << job, conf, call >>
      BY <1>1, <2>1, <2>2 DEF Refuse
    <3> QED BY <3>1, Quiet
  <2>3. CASE pwdgen_readset(conf, keys) # Null
    <3>1. conf' = pwdgen_set_cfg_keys(c, keys) /\ phase' = "find"
      BY <2>1, <2>3 DEF Goto, pwdgen_readset
    <3>2. Shaped(c) /\ Changes(conf, c, {"id"}) /\ ShapedPrefix(c)
      BY <1>2
    <3>3. Scanned(keys)
      BY ConfigAssumption DEF ConfigAssumption
    <3> HIDE DEF c, keys
    <3>4. /\ c.error = conf.error /\ c.gen = conf.gen /\ c.encodings = conf.encodings
          /\ c.mutations = conf.mutations /\ c.first = conf.first
      BY <3>2 DEF Changes, ConfFields
    <3>5. /\ Shaped(conf') /\ Changes(c, conf', KeyFields)
          /\ conf'.error \in BOOLEAN
          /\ conf'.gen \in Encodings \/ conf'.error
          /\ Listed(conf'.encodings)
          /\ conf'.mutations \in {c.mutations, Setting(keys, "dictionary_mutations", c.mutations)}
      BY <1>1, <3>1, <3>2, <3>4, KeysRead
    <3>6. conf'.first = 1
      BY <1>1, <3>4, <3>5 DEF Changes, ConfFields, KeyFields
    <3>7. conf'.mutations \subseteq 0 .. MaxBit - 1
      BY <1>1, <3>3, <3>4, <3>5 DEF Scanned, Setting, Has
    <3>8. SettingsInv'
      BY <1>1, <3>1, <3>5, <3>7 DEF ReadyInv, SettingsInv, Reading
    <3> QED BY <1>3, <3>1, <3>6, <3>8
  <2> QED BY <2>2, <2>3
<1> QED BY <1>4, <1>5

LEMMA ReadyFind == ASSUME TableInv, ReadyInv, FindSet PROVE ReadyInv'
<1> DEFINE set == ChosenSet(conf.id)
<1>1. phase = "find" /\ UNCHANGED << table, call, job >>
  BY DEF FindSet
<1>2. conf.first = 1 /\ Shaped(conf)
  BY <1>1 DEF ReadyInv, SearchInv, SettingsInv
<1>3. CASE set = Null
  <2>1. phase' = "refused" /\ UNCHANGED conf
    BY <1>3 DEF FindSet, Refuse
  <2> QED BY <1>1, <2>1, Quiet
<1>4. CASE set # Null
  <2>1. /\ conf' = [conf EXCEPT !.type = set.type]
        /\ phase' = IF set.type \in {"simple", "grouped"} THEN "tables" ELSE "mutations"
    BY <1>4 DEF FindSet, Goto
  <2>2. set.type \in {"simple", "grouped", "dictionary", "extract"}
    BY <1>4, ChosenType, TypesAre
  <2> HIDE DEF set
  <2>3. Shaped(conf') /\ Changes(conf, conf', {"type"}) /\ conf'.type = set.type
    BY <1>2, <2>1 DEF Shaped, Changes, ConfFields
  <2>4. /\ conf'.error = conf.error /\ conf'.gen = conf.gen /\ conf'.encodings = conf.encodings
        /\ conf'.mutations = conf.mutations /\ conf'.first = 1
    BY <1>2, <2>3 DEF Changes, ConfFields
  <2>5. phase' \in {"tables", "mutations"}
    BY <2>1
  <2>6. SettingsInv'
    BY <1>1, <2>3, <2>4, <2>5, SettingsKept DEF ReadyInv, SettingsInv, Reading
  <2>7. SearchInv'
    BY <2>1, <2>2, <2>3, <2>4 DEF SearchInv, Reading
  <2>8. StartInv'
    BY <2>5 DEF StartInv, Late
  <2> QED BY <2>6, <2>7, <2>8 DEF ReadyInv
<1> QED BY <1>3, <1>4

LEMMA ReadyTables == ASSUME ReadyInv, CheckPasswords PROVE ReadyInv'
<1> DEFINE start == h2a(call.start)
           end   == h2a(call.end)
           set   == ChosenSet(conf.id)
           wrong == \/ Len(end) < Len(start)
                    \/ ~K(table.sets, set)!Legal(end) \/ ~K(table.sets, set)!Legal(start)
<1>1. /\ phase = "tables" /\ UNCHANGED << table, call, job >>
      /\ conf' = DefaultEncoding("ISO_8859_1")
      /\ IF wrong THEN Refuse ELSE Goto("first")
  BY DEF CheckPasswords
<1>2. "ISO_8859_1" \in Encodings /\ SettingsInv
  BY DEF ReadyInv, Encodings, SingleByte
<1>3. Shaped(conf') /\ Changes(conf, conf', {"encodings"}) /\ Listed(conf'.encodings) /\ conf'.encodings # << >>
  BY <1>1, <1>2, DefaultListed
<1>4. /\ conf'.error = conf.error /\ conf'.gen = conf.gen /\ conf'.mutations = conf.mutations
      /\ conf'.type = conf.type /\ conf'.id = conf.id
  BY <1>3 DEF Changes, ConfFields
<1>5. conf.type \in {"simple", "grouped"}
  BY <1>1 DEF ReadyInv, SearchInv
<1>6. TableLegal \/ wrong
  BY DEF TableLegal
<1> HIDE DEF wrong
<1>7. phase' = "refused" \/ (phase' = "first" /\ TableLegal)
  BY <1>1, <1>6 DEF Refuse, Goto
<1>8. SettingsInv'
  BY <1>1, <1>2, <1>3, <1>4, <1>7, SettingsKept DEF SettingsInv, Reading
<1>9. SearchInv'
  BY <1>7 DEF SearchInv, Reading
<1>10. StartInv'
  <2>1. TableLegal => TableLegal'
    BY <1>1, <1>4, LegalKept
  <2> QED BY <1>3, <1>4, <1>5, <1>7, <2>1 DEF StartInv, Late
<1> QED BY <1>8, <1>9, <1>10 DEF ReadyInv

LEMMA ReadyMutations == ASSUME ReadyInv, StartMutations PROVE ReadyInv'
<1> DEFINE stages == IF conf.stages = {} THEN {0} ELSE conf.stages
           all    == TodoMutations(conf.mutations)
<1>1. /\ phase = "mutations" /\ phase' = "shift" /\ UNCHANGED << table, call, job >>
      /\ conf' = [conf EXCEPT !.stages = stages, !.mutations = all, !.todo = all]
  BY DEF StartMutations, Goto
<1>2. /\ Shaped(conf) /\ conf.first = 1 /\ conf.type \in {"dictionary", "extract"}
      /\ conf.mutations \subseteq 0 .. MaxBit - 1
  BY <1>1 DEF ReadyInv, SettingsInv, SearchInv
<1>3. all # {} /\ all \subseteq 0 .. MaxBit - 1
  BY <1>2, Bounds DEF TodoMutations, DICT_ORIGINAL
<1> HIDE DEF stages, all
<1>4. Shaped(conf') /\ Changes(conf, conf', {"stages", "mutations", "todo"})
      /\ conf'.mutations = all /\ conf'.todo = all
  BY <1>1, <1>2 DEF Shaped, Changes, ConfFields
<1>5. /\ conf'.error = conf.error /\ conf'.gen = conf.gen /\ conf'.encodings = conf.encodings
      /\ conf'.type = conf.type /\ conf'.first = 1
  BY <1>2, <1>4 DEF Changes, ConfFields
<1>6. SettingsInv'
  BY <1>1, <1>3, <1>4, <1>5, SettingsKept DEF ReadyInv, SettingsInv, Reading
<1>7. SearchInv'
  <2>1. all = {bit - (1 - 1) : bit \in all}
    <3>1. \A bit \in all : bit \in Int /\ bit - (1 - 1) = bit
      BY <1>3
    <3> QED BY <3>1
  <2>2. \A bit \in all : 1 - 1 <= bit
    BY <1>3
  <2> QED BY <1>1, <1>2, <1>3, <1>4, <1>5, <2>1, <2>2 DEF SearchInv, Reading
<1>8. StartInv'
  BY <1>1 DEF StartInv, Late
<1> QED BY <1>6, <1>7, <1>8 DEF ReadyInv

LEMMA ReadyShift == ASSUME ReadyInv, ShiftBit \/ ShiftDone PROVE ReadyInv'
<1>1. /\ phase = "shift" /\ UNCHANGED << table, call, job >>
      /\ Shaped(conf) /\ conf.type \in {"dictionary", "extract"}
      /\ conf.first \in Nat \ {0} /\ conf.mutations # {} /\ conf.mutations \subseteq 0 .. MaxBit - 1
      /\ conf.todo = {bit - (conf.first - 1) : bit \in conf.mutations}
      /\ \A bit \in conf.mutations : conf.first - 1 <= bit
  BY DEF ShiftBit, ShiftDone, ReadyInv, SettingsInv, SearchInv
<1>2. \A bit \in conf.mutations : bit \in Int /\ bit < MaxBit
  BY <1>1, Bounds
<1>3. CASE ShiftBit
  <2> DEFINE n == conf.first
             todo == {bit - 1 : bit \in conf.todo}
  <2>1. 0 \notin conf.todo /\ phase' = "shift"
        /\ conf' = [conf EXCEPT !.first = Min({n + 1, MaxBit}), !.todo = todo]
    BY <1>1, <1>3 DEF ShiftBit
  <2>2. \A bit \in conf.mutations : n <= bit
    BY <1>1, <1>2, <2>1
  <2>3. n + 1 <= MaxBit
    <3>1. PICK bit \in conf.mutations : TRUE
      BY <1>1
    <3> QED BY <1>1, <1>2, <2>2, <3>1, Bounds
  <2>4. Min({n + 1, MaxBit}) = n + 1
    <3>1. n + 1 \in Nat /\ MaxBit \in Nat
      BY <1>1, Bounds
    <3>2. {n + 1, MaxBit} \in SUBSET Nat /\ {n + 1, MaxBit} # {}
      BY <3>1
    <3>3. Min({n + 1, MaxBit}) \in {n + 1, MaxBit} /\ Min({n + 1, MaxBit}) <= n + 1
      BY <3>1, <3>2, MinOf
    <3> QED BY <2>3, <3>1, <3>3
  <2>5. todo = {bit - n : bit \in conf.mutations}
    <3>1. \A bit \in conf.mutations : bit - (n - 1) - 1 = bit - n
      BY <1>1, <1>2
    <3> QED BY <1>1, <3>1
  <2> HIDE DEF todo
  <2>6. /\ Shaped(conf') /\ Changes(conf, conf', {"first", "todo"})
        /\ conf'.first = n + 1 /\ conf'.todo = todo
    BY <1>1, <2>1, <2>4 DEF Shaped, Changes, ConfFields
  <2>7. /\ conf'.error = conf.error /\ conf'.gen = conf.gen /\ conf'.encodings = conf.encodings
        /\ conf'.type = conf.type /\ conf'.mutations = conf.mutations
    BY <2>6 DEF Changes, ConfFields
  <2>8. SettingsInv'
    BY <1>1, <2>1, <2>6, <2>7, SettingsKept DEF ReadyInv, SettingsInv, Reading
  <2>9. SearchInv'
    <3>1. n + 1 \in Nat \ {0} /\ n + 1 - 1 = n
      BY <1>1
    <3> HIDE DEF n
    <3> DEFINE new == n + 1
    <3>2. conf'.first = new
      BY <2>6
    <3> HIDE DEF new
    <3>3. new \in Nat \ {0} /\ new - 1 = n
      BY <1>1 DEF n, new
    <3>4. conf'.first \in Nat \ {0} /\ conf'.first - 1 = n
      BY <3>2, <3>3
    <3>5. conf'.todo = {bit - (conf'.first - 1) : bit \in conf'.mutations}
      BY <2>5, <2>6, <2>7, <3>4
    <3>6. \A bit \in conf'.mutations : conf'.first - 1 <= bit
      BY <2>2, <2>7, <3>4
    <3>7. conf'.mutations # {} /\ conf'.type \in {"dictionary", "extract"}
      BY <1>1, <2>7
    <3> QED BY <2>1, <3>4, <3>5, <3>6, <3>7 DEF SearchInv, Reading
  <2>10. StartInv'
    BY <2>1 DEF StartInv, Late
  <2> QED BY <2>8, <2>9, <2>10 DEF ReadyInv
<1>4. CASE ShiftDone
  <2>1. 0 \in conf.todo /\ phase' = conf.type /\ UNCHANGED conf
    BY <1>4 DEF ShiftDone, Goto
  <2>2. conf.first - 1 \in conf.mutations
    <3>1. PICK bit \in conf.mutations : bit - (conf.first - 1) = 0
      BY <1>1, <2>1
    <3>2. bit = conf.first - 1
      BY <1>1, <1>2, <3>1
    <3> QED BY <3>2
  <2>3. Lowest'
    BY <1>1, <2>1, <2>2 DEF Lowest
  <2>4. SettingsInv'
    BY <1>1, <2>1, SettingsKept DEF ReadyInv, SettingsInv, Reading
  <2>5. SearchInv'
    BY <1>1, <2>1, <2>3 DEF SearchInv, Reading
  <2>6. StartInv'
    BY <1>1, <2>1 DEF StartInv, Late
  <2> QED BY <2>4, <2>5, <2>6 DEF ReadyInv
<1> QED BY <1>3, <1>4

\* The steps that follow the search for the first mutation.
LEMMA ReadyExtract == ASSUME ReadyInv, InitExtract PROVE ReadyInv'
<1> DEFINE named == Has(call.keys, "extractset_id")
           at    == pwdgen_find_set(table.sets, pwdcfg_as_int(call.keys, "extractset_id"))
           utf8  == pwdcfg_as_int(call.keys, "extract_utf8") = 1
           enc   == IF utf8 THEN "UTF_8" ELSE "ISO_8859_1"
           c     == DefaultEncoding(enc)
<1>1. /\ phase = "extract" /\ UNCHANGED << table, call, job >>
      /\ conf' = [c EXCEPT !.gen = enc]
      /\ CASE ~utf8 /\ ~named -> Exit(1)
           [] ~utf8 /\ named /\ (at = 0 \/ table.sets[at].type # "simple") -> Refuse
           [] OTHER -> Goto("first")
  BY DEF InitExtract
<1>2. enc \in Encodings
  BY DEF Encodings, SingleByte, Unicode
<1> HIDE DEF named, at, utf8
<1>3. phase' \in {"exited", "refused", "first"}
  BY <1>1 DEF Exit, Refuse, Goto
<1> HIDE DEF enc
<1>4. Shaped(c) /\ Changes(conf, c, {"encodings"}) /\ Listed(c.encodings) /\ c.encodings # << >>
  BY <1>2, DefaultListed DEF ReadyInv
<1> HIDE DEF c
<1>5. /\ Shaped(conf') /\ Changes(c, conf', {"gen"}) /\ conf'.gen = enc
  BY <1>1, <1>4 DEF Shaped, Changes, ConfFields
<1>6. /\ conf'.error = conf.error /\ conf'.mutations = conf.mutations /\ conf'.type = conf.type
      /\ conf'.first = conf.first /\ conf'.encodings = c.encodings
  BY <1>4, <1>5 DEF Changes, ConfFields
<1>7. conf.type = "extract" /\ Lowest
  BY <1>1 DEF ReadyInv, SearchInv
<1>8. SettingsInv'
  BY <1>1, <1>2, <1>3, <1>4, <1>5, <1>6, SettingsKept DEF ReadyInv, SettingsInv, Reading
<1>9. SearchInv'
  BY <1>3 DEF SearchInv, Reading
<1>10. StartInv'
  <2>1. Lowest'
    BY <1>6, <1>7, LowestKept
  <2> QED BY <1>3, <1>4, <1>6, <1>7, <2>1 DEF StartInv, Late
<1> QED BY <1>8, <1>9, <1>10 DEF ReadyInv

LEMMA ReadyDictionary == ASSUME ReadyInv, InitDictionary PROVE ReadyInv'
<1> DEFINE c == DefaultEncoding("UTF_8")
<1>1. /\ phase = "dictionary" /\ UNCHANGED << table, call, job >>
      /\ conf' = [c EXCEPT !.gen = "UTF_8"]
      /\ phase' \in {"refused", "first"}
  BY DEF InitDictionary, Refuse, Goto
<1>2. "UTF_8" \in Encodings
  BY DEF Encodings, Unicode
<1>3. Shaped(c) /\ Changes(conf, c, {"encodings"}) /\ Listed(c.encodings) /\ c.encodings # << >>
  BY <1>2, DefaultListed DEF ReadyInv
<1> HIDE DEF c
<1>4. /\ Shaped(conf') /\ Changes(c, conf', {"gen"}) /\ conf'.gen = "UTF_8"
  BY <1>1, <1>3 DEF Shaped, Changes, ConfFields
<1>5. /\ conf'.error = conf.error /\ conf'.mutations = conf.mutations /\ conf'.type = conf.type
      /\ conf'.first = conf.first /\ conf'.encodings = c.encodings
  BY <1>3, <1>4 DEF Changes, ConfFields
<1>6. conf.type = "dictionary" /\ Lowest
  BY <1>1 DEF ReadyInv, SearchInv
<1>7. SettingsInv'
  BY <1>1, <1>2, <1>3, <1>4, <1>5, SettingsKept DEF ReadyInv, SettingsInv, Reading
<1>8. SearchInv'
  BY <1>1 DEF SearchInv, Reading
<1>9. StartInv'
  <2>1. Lowest'
    BY <1>5, <1>6, LowestKept
  <2> QED BY <1>1, <1>3, <1>4, <1>5, <1>6, <2>1 DEF StartInv, Late
<1> QED BY <1>7, <1>8, <1>9 DEF ReadyInv

\* From the first password on only these fields change.
LEMMA LateStep ==
  ASSUME ReadyInv, phase \in Late, UNCHANGED << table, call >>, phase' \in Late \union {"refused"},
         Shaped(conf'), Changes(conf, conf', {"prefix", "cur", "error", "encodings"}),
         conf'.error \in BOOLEAN, conf.error => conf'.error,
         Listed(conf'.encodings), conf'.encodings # << >>,
         phase' \in {"finalize", "ready"} => ~conf'.error,
         phase' = "ready" => conf'.encodings[1] \in Encodings
  PROVE  ReadyInv'
<1>1. /\ conf'.gen = conf.gen /\ conf'.mutations = conf.mutations /\ conf'.type = conf.type
      /\ conf'.first = conf.first /\ conf'.id = conf.id
  BY DEF Changes, ConfFields
<1>2. SettingsInv'
  BY <1>1, SettingsKept DEF ReadyInv, SettingsInv, Reading, Late
<1>3. SearchInv'
  BY DEF SearchInv, Reading, Late
<1>4. StartInv'
  <2>1. TableLegal => TableLegal'
    BY <1>1, LegalKept
  <2>2. Lowest => Lowest'
    BY <1>1, LowestKept
  <2> QED BY <1>1, <2>1, <2>2 DEF ReadyInv, StartInv
<1> QED BY <1>2, <1>3, <1>4 DEF ReadyInv

\* A conversion on the way: what it does to the settings.
LEMMA PrefixSet ==
  ASSUME NEW c, Shaped(c), NEW cv, NEW r, r = WithPrefix(c, cv)
  PROVE  /\ Shaped(r) /\ Changes(c, r, {"prefix", "cur", "error"})
         /\ r.error \in BOOLEAN /\ (c.error => r.error) /\ (cv.err => r.error)
<1> DEFINE e == c.error \/ cv.err
<1>1. r = [c EXCEPT !.prefix = cv.str, !.error = e]
  BY DEF WithPrefix
<1>2. e \in BOOLEAN /\ (c.error => e) /\ (cv.err => e)
  BY Zenon
<1> HIDE DEF e
<1>3. Shaped(r) /\ Changes(c, r, {"prefix", "cur", "error"}) /\ r.error = e
  BY <1>1 DEF Shaped, Changes, ConfFields
<1> QED BY <1>2, <1>3, Zenon

LEMMA CurSet ==
  ASSUME NEW c, Shaped(c), NEW cv, NEW failed, NEW r, r = WithCur(c, cv, failed)
  PROVE  /\ Shaped(r) /\ Changes(c, r, {"prefix", "cur", "error"})
         /\ r.error \in BOOLEAN /\ (c.error => r.error) /\ (cv.err => r.error)
<1> DEFINE e == (c.error \/ failed) \/ cv.err
<1>1. r = [c EXCEPT !.cur = cv.str, !.error = e]
  BY DEF WithCur
<1>2. e \in BOOLEAN /\ (c.error => e) /\ (cv.err => e)
  BY Zenon
<1> HIDE DEF e
<1>3. Shaped(r) /\ Changes(c, r, {"prefix", "cur", "error"}) /\ r.error = e
  BY <1>1 DEF Shaped, Changes, ConfFields
<1> QED BY <1>2, <1>3, Zenon

LEMMA ReadyFirst == ASSUME ReadyInv, FirstString PROVE ReadyInv'
<1> DEFINE cv  == Convert(conf.prefix, conf.locale, FALSE)
           c   == IF conf.error THEN conf ELSE Printed(conf)
           txt == pwdgen_string(h2a(call.start), conf.gen, 1028)
<1>1. /\ phase = "first" /\ UNCHANGED << table, call, job >>
      /\ conf' = [c EXCEPT !.cur = txt]
      /\ IF conf.error THEN Refuse ELSE Goto("user")
  BY DEF FirstString
<1>2. /\ Shaped(conf) /\ conf.error \in BOOLEAN /\ Listed(conf.encodings) /\ conf.encodings # << >>
  BY <1>1 DEF ReadyInv, SettingsInv, StartInv, Late
<1>3. c = conf \/ c = WithPrefix(conf, cv)
  BY DEF Printed
<1> HIDE DEF cv, txt, c
<1>4. Shaped(c) /\ Changes(conf, c, {"prefix", "cur", "error"}) /\ c.error \in BOOLEAN /\ (conf.error => c.error)
  <2>1. CASE c = conf
    BY <1>2, <2>1 DEF Changes
  <2>2. CASE c = WithPrefix(conf, cv)
    BY <1>2, <2>2, PrefixSet
  <2> QED BY <1>3, <2>1, <2>2
<1>5. Shaped(c) /\ Changes(conf, c, {"prefix", "cur", "error"})
  BY <1>4
<1>6. Shaped(conf') /\ Changes(c, conf', {"cur"})
  BY <1>1, <1>5 DEF Shaped, Changes, ConfFields
<1>7. /\ Changes(conf, conf', {"prefix", "cur", "error", "encodings"})
      /\ conf'.error = c.error /\ conf'.encodings = conf.encodings
  BY <1>5, <1>6 DEF Changes, ConfFields
<1>8. conf'.error \in BOOLEAN /\ (conf.error => conf'.error)
  BY <1>4, <1>7
<1>9. phase' \in {"refused", "user"}
  BY <1>1 DEF Refuse, Goto
<1> QED BY <1>1, <1>2, <1>6, <1>7, <1>8, <1>9, LateStep DEF Late

LEMMA ReadyUser == ASSUME ReadyInv, InitFunction PROVE ReadyInv'
<1>1. /\ phase = "user" /\ UNCHANGED << table, call, job >>
      /\ Shaped(conf) /\ conf.error \in BOOLEAN /\ Listed(conf.encodings) /\ conf.encodings # << >>
  BY DEF InitFunction, ReadyInv, SettingsInv, StartInv, Late
<1>2. PICK i \in DOMAIN InitFunctions :
        LET f == InitFunctions[i]
        IN  /\ conf' = CASE f.does = "one" -> pwdgen_use_encoding(conf, f.encs[1])
                         [] f.does = "more" -> pwdgen_use_encodings(conf, f.encs)
                         [] f.does \in {"nothing", "fails"} -> conf
            /\ IF f.does = "fails" \/ conf.error THEN Refuse ELSE Goto("finalize")
  BY DEF InitFunction
<1> DEFINE does == InitFunctions[i].does
           encs == InitFunctions[i].encs
<1>3. /\ conf' = CASE does = "one" -> pwdgen_use_encoding(conf, encs[1])
                   [] does = "more" -> pwdgen_use_encodings(conf, encs)
                   [] does \in {"nothing", "fails"} -> conf
      /\ IF does = "fails" \/ conf.error THEN Refuse ELSE Goto("finalize")
  BY <1>2
<1>4. /\ does \in {"nothing", "fails", "one", "more"}
      /\ encs \in Seq(Encodings)
      /\ does = "one" => encs # << >>
  BY ConfigAssumption, Zenon DEF ConfigAssumption
<1> HIDE DEF does, encs
<1>5. /\ Shaped(conf') /\ Changes(conf, conf', {"encodings"})
      /\ Listed(conf'.encodings) /\ conf'.encodings # << >>
  <2>1. CASE does = "one"
    <3>1. encs[1] \in Encodings
      BY <1>4, <2>1
    <3>2. conf' = [conf EXCEPT !.encodings = << encs[1] >>]
      BY <1>3, <2>1 DEF pwdgen_use_encoding
    <3>3. /\ Shaped(conf') /\ Changes(conf, conf', {"encodings"}) /\ conf'.encodings = << encs[1] >>
      BY <1>1, <3>2 DEF Shaped, Changes, ConfFields
    <3>4. Listed(<< encs[1] >>) /\ << encs[1] >> # << >>
      BY <3>1, ListedOne
    <3> QED BY <3>3, <3>4
  <2>2. CASE does = "more"
    <3>1. conf' = pwdgen_use_encodings(conf, encs)
      BY <1>3, <2>2
    <3> QED BY <1>1, <1>4, <3>1, EncodingsAsked
  <2>3. CASE does \in {"nothing", "fails"}
    <3>1. conf' = conf
      BY <1>3, <2>3
    <3> QED BY <1>1, <3>1 DEF Changes
  <2> QED BY <1>4, <2>1, <2>2, <2>3
<1>6. conf'.error = conf.error /\ Changes(conf, conf', {"prefix", "cur", "error", "encodings"})
  BY <1>5 DEF Changes, ConfFields
<1>7. phase' = "refused" \/ (phase' = "finalize" /\ ~conf.error)
  BY <1>3 DEF Refuse, Goto
<1> QED BY <1>1, <1>5, <1>6, <1>7, LateStep DEF Late

LEMMA ReadyFinal == ASSUME ReadyInv, pwdgen_finalize PROVE ReadyInv'
<1>1. /\ phase = "finalize" /\ UNCHANGED << table, call, job >>
      /\ conf' = First(OnePrefix(conf))
      /\ IF ~conf'.error THEN Goto("ready") ELSE Refuse
  BY DEF pwdgen_finalize, Ended
<1>2. /\ Shaped(conf) /\ conf.error = FALSE /\ Listed(conf.encodings) /\ conf.encodings # << >>
      /\ conf.gen \in Encodings
  BY <1>1 DEF ReadyInv, SettingsInv, StartInv, Late
<1> DEFINE pre == Convert(conf.prefix, conf.gen, conf.error)
           c   == OnePrefix(conf)
<1>3. c = conf \/ c = WithPrefix(conf, pre)
  BY DEF OnePrefix
<1> HIDE DEF pre, c
<1>5. Shaped(c) /\ Changes(conf, c, {"prefix", "cur", "error"}) /\ c.error \in BOOLEAN
  <2>1. CASE c = conf
    BY <1>2, <2>1 DEF Changes
  <2>2. CASE c = WithPrefix(conf, pre)
    BY <1>2, <2>2, PrefixSet
  <2> QED BY <1>3, <2>1, <2>2
<1>6. c.encodings = conf.encodings /\ c.gen = conf.gen
  BY <1>5 DEF Changes, ConfFields
<1> DEFINE joined == IF c.prefix.units # << >>
                     THEN PutBehind(c, pwdgen_strdup(c.cur, c.prefix).str, h2a(call.start))
                     ELSE Done([c.cur EXCEPT !.units = h2a(call.start), !.chars = -1, !.enc = c.gen])
           final == Convert(joined.str, c.encodings[1], c.error \/ joined.err)
<1>7. \/ conf' = c /\ c.gen = c.encodings[1]
      \/ conf' = WithCur(c, final, joined.err)
  <2>1. CASE c.prefix.units = << >> /\ c.gen = c.encodings[1]
    BY <1>1, <2>1, SMTT(30) DEF First, c
  <2>2. CASE ~(c.prefix.units = << >> /\ c.gen = c.encodings[1])
    BY <1>1, <2>2, SMTT(30) DEF First, c, pwdgen_update_cur, Encoded
  <2> QED BY <2>1, <2>2
<1>8. final.err \/ c.encodings[1] # "INVALID"
  BY DEF Convert, pwdgen_convert_to, Refused, Answer
<1> DEFINE failed == joined.err
<1> HIDE DEF final, failed
<1>10. /\ Shaped(conf') /\ Changes(c, conf', {"prefix", "cur", "error"}) /\ conf'.error \in BOOLEAN
       /\ ~conf'.error => (c.gen = c.encodings[1] \/ c.encodings[1] # "INVALID")
  <2>1. CASE conf' = c /\ c.gen = c.encodings[1]
    BY <1>5, <2>1 DEF Changes
  <2>2. CASE conf' = WithCur(c, final, failed)
    <3>1. /\ Shaped(conf') /\ Changes(c, conf', {"prefix", "cur", "error"})
          /\ conf'.error \in BOOLEAN /\ (final.err => conf'.error)
      BY <1>5, <2>2, CurSet
    <3> QED BY <1>8, <3>1
  <2> QED BY <1>7, <2>1, <2>2 DEF failed
<1>11. /\ Changes(conf, conf', {"prefix", "cur", "error", "encodings"})
       /\ conf'.encodings = conf.encodings
  BY <1>5, <1>10 DEF Changes, ConfFields
<1>12. conf.encodings[1] \in Encodings \union {"INVALID"}
  BY <1>2 DEF Listed
<1>13. ~conf'.error => conf'.encodings[1] \in Encodings
  BY <1>2, <1>6, <1>10, <1>11, <1>12
<1>14. phase' = "refused" \/ (phase' = "ready" /\ ~conf'.error)
  BY <1>1 DEF Refuse, Goto
<1> QED BY <1>1, <1>2, <1>10, <1>11, <1>13, <1>14, LateStep DEF Late

LEMMA ReadyNext == ASSUME TableInv, ReadyInv, [Next]_vars PROVE ReadyInv'
<1>1. CASE CallWrong \/ Identify
  <2>1. phase' \in {"refused", "exited"} /\ UNCHANGED << call, conf, job >>
    BY <1>1 DEF CallWrong, Identify, Refuse, Exit
  <2> QED BY <2>1, Quiet
<1>2. CASE ReadLine \/ EndOfSets
  <2>1. phase = "charsets" /\ phase' \in {"refused", "charsets", "keys"} /\ UNCHANGED << call, conf, job >>
    BY <1>2 DEF ReadLine, EndOfSets, Refuse, Goto
  <2> QED BY <2>1, Quiet
<1>3. CASE UNCHANGED vars
  <2>1. UNCHANGED << phase, table, call, conf, job >>
    BY <1>3 DEF vars
  <2>2. SettingsInv'
    BY <2>1 DEF ReadyInv, SettingsInv
  <2>3. SearchInv'
    BY <2>1 DEF ReadyInv, SearchInv, Lowest
  <2>4. TableLegal => TableLegal'
    BY <2>1, LegalKept
  <2>5. StartInv'
    BY <2>1, <2>4 DEF ReadyInv, StartInv, Lowest
  <2> QED BY <2>2, <2>3, <2>5 DEF ReadyInv
<1> QED BY <1>1, <1>2, <1>3, ReadyCall, ReadyKeys, ReadyJob, ReadyFind, ReadyTables,
           ReadyMutations, ReadyShift, ReadyExtract, ReadyDictionary, ReadyFirst, ReadyUser,
           ReadyFinal DEF Next

LEMMA ReadyIsSound == ASSUME TableInv, ReadyInv PROVE StartsSound
<1> SUFFICES ASSUME phase = "ready"
             PROVE  /\ ~conf.error
                    /\ conf.gen \in Encodings
                    /\ conf.encodings # << >> /\ ToSet(conf.encodings) \subseteq Encodings
                    /\ Cardinality(ToSet(conf.encodings)) = Len(conf.encodings)
                    /\ conf.type \in {"simple", "grouped"} =>
                         \A w \in {h2a(call.start), h2a(call.end)} :
                           w \in Seq(0 .. 255) /\ K(table.sets, ChosenSet(conf.id))!Legal(w)
                    /\ conf.type \in {"dictionary", "extract"} =>
                         conf.first - 1 \in conf.mutations /\ \A bit \in conf.mutations : conf.first - 1 <= bit
  BY DEF StartsSound
<1>1. /\ conf.encodings # << >> /\ ~conf.error /\ conf.encodings[1] \in Encodings
      /\ conf.type \in {"simple", "grouped"} => TableLegal
      /\ conf.type \in {"dictionary", "extract"} => Lowest
      /\ conf.gen \in Encodings /\ Listed(conf.encodings)
      /\ call.start \in HexDigits /\ call.end \in HexDigits
  BY DEF ReadyInv, SettingsInv, StartInv, Late
<1> DEFINE s == conf.encodings
           n == Len(s)
<1>2. /\ s \in Seq(Encodings \union {"INVALID"}) /\ n \in Nat /\ DOMAIN s = 1 .. n
      /\ s \in [1 .. n -> Encodings \union {"INVALID"}]
      /\ \A i, j \in 1 .. n : s[i] = s[j] => i = j
      /\ \A i \in 1 .. n : i > 1 => s[i] \in Encodings
  BY <1>1 DEF Listed
<1>3. ToSet(s) \subseteq Encodings
  <2>1. \A i \in 1 .. n : i = 1 \/ i > 1
    BY <1>2
  <2>2. \A i \in 1 .. n : s[i] \in Encodings
    BY <1>1, <1>2, <2>1
  <2> QED BY <1>2, <2>2 DEF ToSet
<1>4. Cardinality(ToSet(s)) = n
  <2> HIDE DEF s
  <2>1. ToSet(s) = {s[i] : i \in 1 .. n}
    BY <1>2 DEF ToSet
  <2>2. s \in [1 .. n -> ToSet(s)]
    BY <1>2, <2>1
  <2>3. s \in Surjection(1 .. n, ToSet(s))
    BY <2>1, <2>2 DEF Surjection
  <2>4. s \in Injection(1 .. n, ToSet(s))
    BY <1>2, <2>2 DEF Injection, IsInjective
  <2>5. IsFiniteSet(1 .. n) /\ Cardinality(1 .. n) = n
    <3>1. 1 \in Int /\ n \in Int /\ (1 > n => n = 0) /\ n - 1 + 1 = n
      BY <1>2
    <3>2. /\ IsFiniteSet(1 .. n)
          /\ Cardinality(1 .. n) = IF 1 > n THEN 0 ELSE n - 1 + 1
      BY <3>1, FS_Interval
    <3> QED BY <3>1, <3>2
  <2>6. Cardinality(ToSet(s)) = Cardinality(1 .. n)
    BY <2>3, <2>4, <2>5, FS_Surjection
  <2> QED BY <2>5, <2>6
<1>5. h2a(call.start) \in Seq(0 .. 255) /\ h2a(call.end) \in Seq(0 .. 255)
  BY <1>1, BytesOfHex
<1>6. conf.type \in {"simple", "grouped"} =>
        \A w \in {h2a(call.start), h2a(call.end)} :
          w \in Seq(0 .. 255) /\ K(table.sets, ChosenSet(conf.id))!Legal(w)
  BY <1>1, <1>5 DEF TableLegal
<1> QED BY <1>1, <1>3, <1>4, <1>6 DEF Lowest

\* Whatever the files and the worker ask for: what is ready knows its encodings,
\* each once, and the passwords it starts from are of its set.
THEOREM StartSound == Spec => []StartsSound
<1>1. Init => TableInv /\ ReadyInv
  BY TableInit, ReadyInit
<1>2. (TableInv /\ ReadyInv) /\ [Next]_vars => (TableInv /\ ReadyInv)'
  BY TableNext, ReadyNext
<1>3. TableInv /\ ReadyInv => StartsSound
  BY ReadyIsSound
<1> QED BY <1>1, <1>2, <1>3, PTL DEF Spec

-----------------------------------------------------------------------------
(***************************************************************************)
(* Which file a setting is from.                                           *)
(***************************************************************************)
LEMMA FirstFile ==
  ASSUME NEW keys, NEW c, ReadFrom(NewConf("ASCII"), keys, c)
  PROVE  /\ << c.prefix.units, c.prefix.enc >> = PrefixIn(keys)
         /\ c.mutations = Setting(keys, "dictionary_mutations", {})
         /\ c.stages = Setting(keys, "dictionary_stages", {})
         /\ c.dictionary = Setting(keys, "dictionary", Setting(keys, "dictionary_file", "not set"))
         /\ c.gen = pwdgen_encoding_from_name(Setting(keys, "input_encoding", "ISO-8859-1"))
         /\ c.encodings = IF Has(keys, "output_encoding")
                          THEN << pwdgen_encoding_from_name(keys["output_encoding"]) >> ELSE << >>
<1> DEFINE d == NewConf("ASCII")
<1>1. /\ << d.prefix.units, d.prefix.enc >> = << << >>, "UTF_8" >> /\ d.mutations = {} /\ d.stages = {}
      /\ d.dictionary = "not set" /\ d.gen = "ISO_8859_1"
  BY NewConfIs, Zenon
<1> HIDE DEF d
<1>2. ReadFrom(d, keys, c)
  BY DEF d
<1>3. << c.prefix.units, c.prefix.enc >> = PrefixIn(keys)
  BY <1>1, <1>2 DEF ReadFrom, PrefixIn
<1>4. c.gen = pwdgen_encoding_from_name(Setting(keys, "input_encoding", "ISO-8859-1"))
  BY <1>1, <1>2, Latin1Named DEF ReadFrom, Setting
<1> QED BY <1>1, <1>2, <1>3, <1>4 DEF ReadFrom

\* The file that is read later sets every key that it has; it alone, the output
\* encoding.
InOrder ==
  (phase = "find" /\ ~conf.error) =>
    /\ << conf.prefix.units, conf.prefix.enc >> = GivenPrefix
    /\ conf.mutations = Latest("dictionary_mutations", {})
    /\ conf.stages = Latest("dictionary_stages", {})
    /\ conf.dictionary = Setting(job, "dictionary_file", DictionaryIn("not set"))
    /\ conf.gen = pwdgen_encoding_from_name(Latest("input_encoding", "ISO-8859-1"))
    /\ LET last == IF job = Null THEN call.keys ELSE job
       IN  conf.encodings = IF Has(last, "output_encoding")
                            THEN << pwdgen_encoding_from_name(last["output_encoding"]) >> ELSE << >>

LEMMA InOrderJob == ASSUME ReadyInv, ReadJob, phase' = "find", ~conf'.error PROVE InOrder'
<1>1. /\ Shaped(conf) /\ ShapedPrefix(conf) /\ conf.error \in BOOLEAN
      /\ conf.gen \in Encodings \/ conf.error
      /\ Listed(conf.encodings) /\ phase = "set" /\ UNCHANGED << table, call >>
      /\ ~conf.error => ReadFrom(NewConf("ASCII"), call.keys, conf)
  BY DEF ReadJob, ReadyInv, SettingsInv, Reading
<1>2. PICK i \in DOMAIN JobFiles :
        LET keys == pwdcfg_read(JobFiles[i])
            read == pwdgen_readset(conf, keys)
        IN  IF read = Null THEN Refuse /\ UNCHANGED << job, conf >>
            ELSE conf' = read /\ job' = keys /\ Goto("find")
  BY DEF ReadJob
<1> DEFINE keys == pwdcfg_read(JobFiles[i])
           c    == [conf EXCEPT !.id = Setting(keys, "charset_id", @)]
<1>3. pwdgen_readset(conf, keys) # Null
  BY <1>2 DEF Refuse
<1>4. /\ conf' = pwdgen_set_cfg_keys(c, keys) /\ job' = keys /\ keys # Null
      /\ pwdcfg_valid_keys(keys, JobKeys) = 0
  BY <1>2, <1>3 DEF Goto, pwdgen_readset
<1>5. Scanned(keys)
  BY ConfigAssumption DEF ConfigAssumption
<1> HIDE DEF keys
<1>6. Shaped(c) /\ Changes(conf, c, {"id"})
  BY <1>1 DEF Shaped, Changes, ConfFields
<1> HIDE DEF c
<1>7. /\ c.prefix = conf.prefix /\ c.error = conf.error /\ c.gen = conf.gen
      /\ c.encodings = conf.encodings /\ c.mutations = conf.mutations /\ c.stages = conf.stages
      /\ c.dictionary = conf.dictionary
  BY <1>6 DEF Changes, ConfFields
<1>8. ShapedPrefix(c)
  BY <1>1, <1>7 DEF ShapedPrefix
<1>9. (c.error => conf'.error) /\ ReadFrom(c, keys, conf')
  BY <1>1, <1>4, <1>6, <1>7, <1>8, KeysRead
<1>10. ReadFrom(NewConf("ASCII"), call.keys, conf)
  BY <1>1, <1>7, <1>9
<1>11. ~Has(keys, "dictionary")
  <2>1. IsFiniteSet(DOMAIN keys \ JobKeys)
    BY <1>4, <1>5, FS_Subset DEF Scanned
  <2>2. DOMAIN keys \ JobKeys = {}
    BY <1>4, <2>1, FS_EmptySet DEF pwdcfg_valid_keys
  <2> QED BY <2>2 DEF Has, JobKeys
<1>12. /\ << conf.prefix.units, conf.prefix.enc >> = PrefixIn(call.keys)
       /\ conf.mutations = Setting(call.keys, "dictionary_mutations", {})
       /\ conf.stages = Setting(call.keys, "dictionary_stages", {})
       /\ conf.dictionary = Setting(call.keys, "dictionary", Setting(call.keys, "dictionary_file", "not set"))
       /\ conf.gen = pwdgen_encoding_from_name(Setting(call.keys, "input_encoding", "ISO-8859-1"))
  BY <1>10, FirstFile
<1>13. << conf'.prefix.units, conf'.prefix.enc >> = GivenPrefix'
  BY <1>1, <1>4, <1>7, <1>9, <1>12 DEF ReadFrom, GivenPrefix, HasPrefix
<1>14. /\ conf'.mutations = Latest("dictionary_mutations", {})'
       /\ conf'.stages = Latest("dictionary_stages", {})'
  BY <1>1, <1>4, <1>7, <1>9, <1>12 DEF ReadFrom, Latest, Setting
<1>15. conf'.gen = pwdgen_encoding_from_name(Latest("input_encoding", "ISO-8859-1")')
  BY <1>1, <1>4, <1>7, <1>9, <1>12 DEF ReadFrom, Latest
<1>16. conf'.dictionary =
         IF Has(job', "dictionary_file") THEN job'["dictionary_file"]
         ELSE Setting(call'.keys, "dictionary", Setting(call'.keys, "dictionary_file", "not set"))
  BY <1>1, <1>4, <1>7, <1>9, <1>11, <1>12 DEF ReadFrom, Setting
<1>17. /\ job' # Null
       /\ conf'.encodings = IF Has(job', "output_encoding")
                            THEN << pwdgen_encoding_from_name(job'["output_encoding"]) >> ELSE << >>
  BY <1>4, <1>9 DEF ReadFrom
<1> QED BY <1>13, <1>14, <1>15, <1>16, <1>17 DEF InOrder, DictionaryIn, Setting

LEMMA InOrderPlain == ASSUME ReadyInv, PlainSet, ~conf'.error PROVE InOrder'
<1>1. /\ Shaped(conf) /\ job = Null /\ phase = "set" /\ UNCHANGED << table, call, job >>
      /\ conf' = [conf EXCEPT !.id = call.set.id]
      /\ ~conf.error => ReadFrom(NewConf("ASCII"), call.keys, conf)
  BY DEF PlainSet, ReadyInv, SettingsInv, Reading
<1>2. Shaped(conf') /\ Changes(conf, conf', {"id"})
  BY <1>1 DEF Shaped, Changes, ConfFields
<1>3. /\ conf'.prefix = conf.prefix /\ conf'.error = conf.error /\ conf'.gen = conf.gen
      /\ conf'.encodings = conf.encodings /\ conf'.mutations = conf.mutations
      /\ conf'.stages = conf.stages /\ conf'.dictionary = conf.dictionary
  BY <1>2 DEF Changes, ConfFields
<1>4. ReadFrom(NewConf("ASCII"), call.keys, conf)
  BY <1>1, <1>3
<1>5. /\ << conf.prefix.units, conf.prefix.enc >> = PrefixIn(call.keys)
      /\ conf.mutations = Setting(call.keys, "dictionary_mutations", {})
      /\ conf.stages = Setting(call.keys, "dictionary_stages", {})
      /\ conf.dictionary = Setting(call.keys, "dictionary", Setting(call.keys, "dictionary_file", "not set"))
      /\ conf.gen = pwdgen_encoding_from_name(Setting(call.keys, "input_encoding", "ISO-8859-1"))
      /\ conf.encodings = IF Has(call.keys, "output_encoding")
                          THEN << pwdgen_encoding_from_name(call.keys["output_encoding"]) >> ELSE << >>
  BY <1>4, FirstFile
<1>6. job' = Null /\ call' = call /\ \A key : ~Has(job', key)
  BY <1>1 DEF Has
<1>7. << conf'.prefix.units, conf'.prefix.enc >> = GivenPrefix'
  BY <1>3, <1>5, <1>6 DEF GivenPrefix, HasPrefix
<1>8. /\ conf'.mutations = Latest("dictionary_mutations", {})'
      /\ conf'.stages = Latest("dictionary_stages", {})'
      /\ conf'.gen = pwdgen_encoding_from_name(Latest("input_encoding", "ISO-8859-1")')
  BY <1>3, <1>5, <1>6 DEF Latest
<1>9. conf'.dictionary = Setting(job, "dictionary_file", DictionaryIn("not set"))'
  BY <1>3, <1>5, <1>6 DEF DictionaryIn, Setting
<1> QED BY <1>3, <1>5, <1>6, <1>7, <1>8, <1>9 DEF InOrder

LEMMA InOrderNext == ASSUME ReadyInv, InOrder, [Next]_vars PROVE InOrder'
<1>1. CASE phase' # "find" \/ conf'.error
  BY <1>1 DEF InOrder
<1>2. CASE phase' = "find" /\ ~conf'.error
  <2>1. PlainSet \/ ReadJob \/ UNCHANGED vars
    <3>1. ASSUME ShiftDone PROVE FALSE
      BY <1>2, <3>1 DEF ShiftDone, Goto, ReadyInv, SearchInv
    <3>2. ASSUME CallWithFile PROVE FALSE
      BY <1>2, <3>2 DEF CallWithFile, Goto, Refuse
    <3>3. ASSUME FindSet PROVE FALSE
      BY <1>2, <3>3 DEF FindSet, Goto, Refuse
    <3>4. ASSUME InitExtract PROVE FALSE
      BY <1>2, <3>4 DEF InitExtract, Goto, Refuse, Exit
    <3>5. ASSUME InitFunction PROVE FALSE
      BY <1>2, <3>5 DEF InitFunction, Goto, Refuse
    <3> QED BY <1>2, <3>1, <3>2, <3>3, <3>4, <3>5
          DEF Next, CallDirect, CallWrong, Identify, ReadLine, EndOfSets, ReadKeys, CheckPasswords,
              StartMutations, ShiftBit, InitDictionary, FirstString, pwdgen_finalize, Goto, Refuse, Exit
  <2>2. CASE UNCHANGED vars
    BY <2>2 DEF vars, InOrder, GivenPrefix, HasPrefix, Latest, DictionaryIn
  <2> QED BY <1>2, <2>1, <2>2, InOrderJob, InOrderPlain
<1> QED BY <1>1, <1>2

\* For all files: every setting is that of a file that has it.
THEOREM SettingsLayered == Spec => []Layered
<1>1. Init => TableInv /\ ReadyInv /\ InOrder
  <2>1. Init => InOrder
    BY DEF Init, InOrder
  <2> QED BY <2>1, TableInit, ReadyInit
<1>2. (TableInv /\ ReadyInv /\ InOrder) /\ [Next]_vars => (TableInv /\ ReadyInv /\ InOrder)'
  BY TableNext, ReadyNext, InOrderNext
<1>3. InOrder => Layered
  BY DEF InOrder, Layered, Either, GivenPrefixes
<1> QED BY <1>1, <1>2, <1>3, PTL DEF Spec
=============================================================================
