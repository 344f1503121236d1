---------------------------- MODULE TimerProofs ----------------------------
(***************************************************************************)
(* Proofs about PwdTimer, for every timeout, every width of the counter    *)
(* and any number of jumps of the clock; and, at the end, what the proofs  *)
(* of the modules above it need to know of recursive functions and folds.  *)
(***************************************************************************)
EXTENDS PwdTimer, FiniteSetsExt, FiniteSetTheorems, WellFoundedInduction, TLAPS

LEMMA ModFacts ==
  ASSUME NEW x \in Nat, NEW m \in Nat \ {0}
  PROVE  x % m \in 0 .. m - 1 /\ x % m <= x
BY SMT

LEMMA DoubledType ==
  ASSUME max_pwds \in 0 .. ULongMod - 1
  PROVE  Doubled \in 0 .. ULongMod - 1 /\ Doubled <= 2 * max_pwds
<1>1. 2 * max_pwds \in Nat /\ ULongMod \in Nat \ {0}
  BY TimerAssumption DEF TimerAssumption
<1> QED BY <1>1, ModFacts DEF Doubled
-----------------------------------------------------------------------------
(***************************************************************************)
(* What one password does to the counter, and what a check does.           *)
(***************************************************************************)
LEMMA CheckTypes ==
  ASSUME TimerTypeOK, pwdgen_time_check
  PROVE  /\ tstart' \in Int /\ tlast' \in Int /\ tlast_report' \in Int /\ took' \in Int
         /\ report_status' \in Nat
         /\ max_pwds' \in 0 .. ULongMod - 1
         /\ max_pwds' <= 2 * max_pwds
         /\ timedOut' \in BOOLEAN
<1>1. tlast_report' \in Int /\ report_status' \in Nat
  BY DEF TimerTypeOK, pwdgen_time_check, StatusReport, ReportDue
<1>2. CASE Timeout # 0
  <2>1. TimeoutCheck
    BY <1>2 DEF pwdgen_time_check
  <2>2. CorrectedStart \in Int
    BY DEF TimerTypeOK, CorrectedStart
  <2>3. tstart' \in Int /\ tlast' \in Int /\ took' \in Int
    BY <2>1, <2>2 DEF TimerTypeOK, TimeoutCheck
  <2>4. max_pwds' \in 0 .. ULongMod - 1 /\ max_pwds' <= 2 * max_pwds
    <3>1. max_pwds \in 0 .. ULongMod - 1 /\ ULongMod \in Nat
      BY TimerAssumption DEF TimerTypeOK, TimerAssumption
    <3>2. max_pwds' = Doubled \/ max_pwds' = max_pwds
      BY <2>1 DEF TimeoutCheck
    <3> QED BY <3>1, <3>2, DoubledType
  <2>5. timedOut' \in BOOLEAN
    BY <2>1 DEF TimeoutCheck, TimeExceeded
  <2> QED BY <1>1, <2>3, <2>4, <2>5
<1>3. CASE Timeout = 0
  <2>1. took' = (IF report_status # 0 THEN Took ELSE took)
        /\ UNCHANGED <<tstart, tlast, max_pwds, timedOut>>
    BY <1>3 DEF pwdgen_time_check
  <2>2. max_pwds \in Nat
    BY TimerAssumption DEF TimerTypeOK, TimerAssumption
  <2> QED BY <1>1, <2>1, <2>2 DEF TimerTypeOK, Took
<1> QED BY <1>2, <1>3

LEMMA AddUpType ==
  ASSUME TimerTypeOK, NEW n \in Nat
  PROVE  AddUp(n) \in Nat /\ (AddUp(n) < MaxPwds => AddUp(n) = pwds + n)
BY TimerAssumption DEF TimerTypeOK, TimerAssumption, AddUp

LEMMA CountPwdTypes ==
  ASSUME TimerTypeOK, CountPwd
  PROVE  TimerTypeOK'
<1>1. CASE CheckDue
  <2>1. pwds' = AddUp(pwds_done + 1) /\ pwds_done' = 0 /\ pwdgen_time_check
    BY <1>1 DEF CountPwd
  <2>2. pwds' \in Nat
    BY <2>1, AddUpType DEF TimerTypeOK
  <2> QED BY <2>1, <2>2, CheckTypes DEF CountPwd, TimerTypeOK, clockVars
<1>2. CASE ~CheckDue
  BY <1>2 DEF CountPwd, TimerTypeOK, clockVars, checkVars
<1> QED BY <1>1, <1>2

LEMMA EnvironmentTypes ==
  ASSUME TimerTypeOK, Tick \/ SetBack
  PROVE  TimerTypeOK'
<1>1. CASE Tick
  BY <1>1 DEF Tick, TimerTypeOK, checkVars, countVars
<1>2. CASE SetBack
  <2>1. PICK s \in Warps : now' = now - s
    BY <1>2 DEF SetBack
  <2>2. now' \in Int
    BY <2>1, TimerAssumption DEF TimerAssumption, TimerTypeOK
  <2>3. warps' \in 0 .. MaxWarps
    BY <1>2, TimerAssumption DEF SetBack, TimerTypeOK, TimerAssumption
  <2> QED BY <1>2, <2>2, <2>3 DEF SetBack, TimerTypeOK, checkVars, countVars
<1> QED BY <1>1, <1>2

LEMMA InitTypes == TimerInit => TimerTypeOK
<1> SUFFICES ASSUME TimerInit PROVE TimerTypeOK
  OBVIOUS
<1>1. max_pwds \in 0 .. ULongMod - 1 /\ report_status \in Nat /\ warps \in 0 .. MaxWarps
  BY TimerAssumption DEF TimerInit, TimerInitWith, TimerAssumption
<1>2. timedOut \in BOOLEAN
  BY DEF TimerInit, TimerInitWith
<1>3. /\ now \in Int /\ real \in Nat /\ tstart \in Int /\ tlast \in Int
      /\ tlast_report \in Int /\ took \in Int /\ pwds_done \in Nat /\ pwds \in Nat
  BY DEF TimerInit, TimerInitWith
<1> QED BY <1>1, <1>2, <1>3 DEF TimerTypeOK

\* The counters, the clock and what is remembered of it keep their types; in
\* particular max_pwds stays within the width of an unsigned long.
THEOREM TypeCorrect == TimerSpec => []TimerTypeOK
<1>1. TimerInit => TimerTypeOK
  BY InitTypes
<1>2. TimerTypeOK /\ [TimerNext]_timerVars => TimerTypeOK'
  <2> SUFFICES ASSUME TimerTypeOK, [TimerNext]_timerVars PROVE TimerTypeOK'
    OBVIOUS
  <2>1. CASE Tick \/ SetBack
    BY <2>1, EnvironmentTypes
  <2>2. CASE Generate
    BY <2>2, CountPwdTypes DEF Generate
  <2>3. CASE UNCHANGED timerVars
    BY <2>3 DEF timerVars, clockVars, checkVars, countVars, TimerTypeOK
  <2> QED BY <2>1, <2>2, <2>3 DEF TimerNext
<1> QED BY <1>1, <1>2, PTL DEF TimerSpec

-----------------------------------------------------------------------------
(***************************************************************************)
(* The argument for NeverTooEarly: tstart only moves forward, so the time  *)
(* since tstart, as the clock shows it, is never more than the time that   *)
(* really passed.  A clock that is set back makes it less.                 *)
(***************************************************************************)
NotAhead == now - tstart <= real

EarlyInv == TimerTypeOK /\ NotAhead /\ NeverTooEarly

\* A worker is never stopped before its time, whatever the clock does.
THEOREM NeverStoppedEarly == TimerSpec => []NeverTooEarly
<1>1. TimerInit => EarlyInv
  BY InitTypes DEF EarlyInv, TimerInit, TimerInitWith, NotAhead, NeverTooEarly
<1>2. EarlyInv /\ [TimerNext]_timerVars => EarlyInv'
  <2> SUFFICES ASSUME EarlyInv, [TimerNext]_timerVars PROVE EarlyInv'
    OBVIOUS
  <2> USE DEF EarlyInv
  <2>1. CASE Tick
    <3>1. TimerTypeOK'
      BY <2>1, EnvironmentTypes
    <3> QED BY <2>1, <3>1, TimerAssumption
            DEF Tick, checkVars, TimerTypeOK, NotAhead, NeverTooEarly, TimerAssumption
  <2>2. CASE SetBack
    <3>1. TimerTypeOK'
      BY <2>2, EnvironmentTypes
    <3>2. PICK s \in Warps : now' = now - s
      BY <2>2 DEF SetBack
    <3>3. s \in Nat
      BY TimerAssumption DEF TimerAssumption
    <3> QED BY <2>2, <3>1, <3>2, <3>3
            DEF SetBack, checkVars, TimerTypeOK, NotAhead, NeverTooEarly
  <2>3. CASE Generate
    <3>1. TimerTypeOK'
      BY <2>3, CountPwdTypes DEF Generate
    <3>2. UNCHANGED <<now, real>>
      BY <2>3 DEF Generate, CountPwd, clockVars
    <3>3. CASE CheckDue /\ Timeout # 0
      <4>1. TimeoutCheck
        BY <2>3, <3>3 DEF Generate, CountPwd, pwdgen_time_check
      <4>2. CorrectedStart \in Int /\ CorrectedStart >= tstart
        BY DEF TimerTypeOK, CorrectedStart
      <4>3. took' = now - CorrectedStart /\ tstart' = CorrectedStart
        BY <4>1 DEF TimeoutCheck
      <4>4. took' <= real /\ NotAhead'
        BY <3>2, <4>2, <4>3 DEF TimerTypeOK, NotAhead
      <4>5. timedOut' => took' > Timeout
        BY <4>1 DEF TimeoutCheck, TimeExceeded
      <4>6. took' \in Int /\ real \in Nat /\ Timeout \in Nat
        BY <3>1, TimerAssumption DEF TimerTypeOK, TimerAssumption
      <4> QED BY <3>1, <3>2, <4>4, <4>5, <4>6 DEF NeverTooEarly
    <3>4. CASE ~(CheckDue /\ Timeout # 0)
      <4>1. UNCHANGED <<tstart, timedOut>>
        BY <2>3, <3>4 DEF Generate, CountPwd, pwdgen_time_check, checkVars
      <4> QED BY <3>1, <3>2, <4>1 DEF NotAhead, NeverTooEarly
    <3> QED BY <3>3, <3>4
  <2>4. CASE UNCHANGED timerVars
    BY <2>4 DEF timerVars, clockVars, checkVars, countVars, TimerTypeOK, NotAhead, NeverTooEarly
  <2> QED BY <2>1, <2>2, <2>3, <2>4 DEF TimerNext
<1>3. EarlyInv => NeverTooEarly
  BY DEF EarlyInv
<1> QED BY <1>1, <1>2, <1>3, PTL DEF TimerSpec

-----------------------------------------------------------------------------
(***************************************************************************)
(* The checks come in time: a check is made as soon as more than max_pwds  *)
(* passwords were counted, and before it doubles max_pwds it adds them to  *)
(* pwds.                                                                   *)
(***************************************************************************)
PaceInv == TimerTypeOK /\ CheckInterval /\ CheckedInTime

LEMMA PaceOfCountPwd ==
  ASSUME PaceInv, CountPwd
  PROVE  PaceInv'
<1> USE DEF PaceInv
<1>1. TimerTypeOK'
  BY CountPwdTypes
<1>2. pwds \in Nat /\ pwds_done \in Nat /\ max_pwds \in Nat /\ MaxPwds \in Nat
      /\ max_pwds' \in Nat /\ FirstMaxPwds \in Nat
  BY <1>1, TimerAssumption DEF TimerTypeOK, TimerAssumption
<1>3. CASE CheckDue
  <2>1. pwds' = AddUp(pwds_done + 1) /\ pwds_done' = 0 /\ max_pwds' <= 2 * max_pwds
    BY <1>3, CheckTypes DEF CountPwd
  <2>2. pwds' < MaxPwds => pwds' = pwds + (pwds_done + 1)
    BY <1>2, <2>1, AddUpType
  <2>3. pwds_done + 1 > max_pwds
    BY <1>3 DEF CheckDue
  <2> QED BY <1>1, <1>2, <2>1, <2>2, <2>3 DEF CheckInterval, CheckedInTime
<1>4. CASE ~CheckDue
  <2>1. pwds_done' = pwds_done + 1 /\ pwds' = pwds /\ max_pwds' = max_pwds
    BY <1>4 DEF CountPwd, checkVars
  <2> QED BY <1>1, <1>2, <1>4, <2>1 DEF CheckInterval, CheckedInTime, CheckDue
<1> QED BY <1>3, <1>4

\* The timeout is looked for often enough: never more than max_pwds passwords
\* without a check, and max_pwds never more than what was made before.
THEOREM ChecksInTime == TimerSpec => [](CheckInterval /\ CheckedInTime)
<1>1. TimerInit => PaceInv
  BY InitTypes, TimerAssumption
     DEF PaceInv, TimerInit, TimerInitWith, CheckInterval, CheckedInTime, TimerAssumption
<1>2. PaceInv /\ [TimerNext]_timerVars => PaceInv'
  <2> SUFFICES ASSUME PaceInv, [TimerNext]_timerVars PROVE PaceInv'
    OBVIOUS
  <2>1. CASE Tick \/ SetBack
    <3>1. TimerTypeOK'
      BY <2>1, EnvironmentTypes DEF PaceInv
    <3> QED BY <2>1, <3>1
            DEF PaceInv, Tick, SetBack, checkVars, countVars, CheckInterval, CheckedInTime
  <2>2. CASE Generate
    BY <2>2, PaceOfCountPwd DEF Generate
  <2>3. CASE UNCHANGED timerVars
    BY <2>3 DEF PaceInv, timerVars, clockVars, checkVars, countVars, TimerTypeOK,
                CheckInterval, CheckedInTime
  <2> QED BY <2>1, <2>2, <2>3 DEF TimerNext
<1>3. PaceInv => CheckInterval /\ CheckedInTime
  BY DEF PaceInv
<1> QED BY <1>1, <1>2, <1>3, PTL DEF TimerSpec

\* A worker that makes passwords looks at the clock again in time, also after
\* max_pwds has wrapped around.
THEOREM NeverUnchecked == TimerSpec => []CheckedInTime
<1>1. CheckInterval /\ CheckedInTime => CheckedInTime
  OBVIOUS
<1> QED BY <1>1, ChecksInTime, PTL

-----------------------------------------------------------------------------
(***************************************************************************)
(* Least and greatest numbers, and functions that are defined by recursion.*)
(***************************************************************************)
LEMMA LeastNumber ==
  ASSUME NEW S \in SUBSET Nat, S # {}
  PROVE  \E m \in S : \A x \in S : m <= x
<1> DEFINE Smaller == OpToRel(<, Nat)
<1>1. IsWellFoundedOn(Smaller, Nat)
  BY NatLessThanWellFounded
<1>2. \A x, y \in Nat : <<x, y>> \in Smaller <=> x < y
  BY Zenon DEF OpToRel
<1> HIDE DEF Smaller
<1>3. PICK m \in S : \A x \in S : ~(<<x, m>> \in Smaller)
  BY <1>1, WFMin, Zenon
<1>4. ASSUME NEW x \in S PROVE m <= x
  <2>1. x \in Nat /\ m \in Nat
    OBVIOUS
  <2>2. ~(x < m)
    BY <1>2, <1>3, <2>1, Zenon
  <2> QED BY <2>1, <2>2
<1> QED BY <1>4

LEMMA MinOf ==
  ASSUME NEW S \in SUBSET Nat, S # {}
  PROVE  Min(S) \in S /\ \A x \in S : Min(S) <= x
BY LeastNumber DEF Min

LEMMA MaxOf ==
  ASSUME NEW n \in Nat, NEW S \in SUBSET (0 .. n), S # {}
  PROVE  Max(S) \in S /\ \A x \in S : x <= Max(S)
<1> DEFINE Rest == {n - x : x \in S}
<1>1. Rest \in SUBSET Nat /\ Rest # {}
  <2>1. \A x \in S : n - x \in Nat
    OBVIOUS
  <2>2. PICK x \in S : TRUE
    OBVIOUS
  <2> QED BY <2>1, <2>2
<1>2. PICK r \in Rest : \A y \in Rest : r <= y
  BY <1>1, LeastNumber
<1>3. PICK m \in S : r = n - m
  OBVIOUS
<1>4. ASSUME NEW x \in S PROVE m >= x
  <2>1. n - m <= n - x
    BY <1>2, <1>3
  <2> QED BY <2>1
<1> HIDE DEF Rest
<1>5. /\ (CHOOSE x \in S : \A y \in S : x >= y) \in S
      /\ \A y \in S : (CHOOSE x \in S : \A z \in S : x >= z) >= y
  BY <1>4
<1>6. Max(S) \in S /\ \A y \in S : Max(S) >= y
  BY <1>5 DEF Max
<1> QED BY <1>6

LEMMA GreatestNumber ==
  ASSUME NEW n \in Nat, NEW S \in SUBSET (1 .. n), S # {}
  PROVE  \E m \in S : \A x \in S : x <= m
<1>1. S \in SUBSET (0 .. n)
  OBVIOUS
<1>2. Max(S) \in S /\ \A x \in S : x <= Max(S)
  BY <1>1, MaxOf
<1> QED BY <1>2

\* Of those that fail a claim one is least, by whatever is counted.
LEMMA LeastOf ==
  ASSUME NEW D, NEW m \in [D -> Nat], NEW S \in SUBSET D, S # {}
  PROVE  \E x \in S : \A y \in S : m[x] <= m[y]
<1>1. {m[x] : x \in S} \in SUBSET Nat /\ {m[x] : x \in S} # {}
  OBVIOUS
<1>2. PICK k \in {m[x] : x \in S} : \A j \in {m[x] : x \in S} : k <= j
  BY <1>1, LeastNumber
<1> QED BY <1>2

Agree(D, m, f, g, x) == \A y \in D : m[y] < m[x] => f[y] = g[y]

\* What F[f] says of x depends on f at what is less than x only.
GoesDown(D, C, n, m, F) ==
  /\ C # {} /\ n \in Nat /\ m \in [D -> 0 .. n] /\ F \in [[D -> C] -> [D -> C]]
  /\ \A f, g \in [D -> C], x \in D : Agree(D, m, f, g, x) => F[f][x] = F[g][x]

\* Such a recursive definition has a function.
LEMMA Recursion ==
  ASSUME NEW D, NEW C, NEW n, NEW m, NEW F, GoesDown(D, C, n, m, F)
  PROVE  \E f \in [D -> C] : f = F[f]
<1> USE DEF GoesDown
<1> DEFINE Fixed(f, k) == \A x \in D : m[x] < k => f[x] = F[f][x]
           Bad == {k \in 0 .. n + 1 : ~\E f \in [D -> C] : Fixed(f, k)}
<1>0. \A x \in D : m[x] \in 0 .. n
  OBVIOUS
<1>1. 0 \notin Bad
  <2> PICK c \in C : TRUE
    OBVIOUS
  <2>1. [x \in D |-> c] \in [D -> C] /\ Fixed([x \in D |-> c], 0)
    BY <1>0
  <2> QED BY <2>1
<1>2. ASSUME NEW k \in 0 .. n, NEW f \in [D -> C], Fixed(f, k)
      PROVE  Fixed(F[f], k + 1)
  <2>1. F[f] \in [D -> C]
    OBVIOUS
  <2>2. SUFFICES ASSUME NEW x \in D, m[x] < k + 1 PROVE F[f][x] = F[F[f]][x]
    OBVIOUS
  <2>3. ASSUME NEW y \in D, m[y] < m[x] PROVE f[y] = F[f][y]
    <3>1. m[y] < k
      BY <1>0, <2>2, <2>3
    <3> QED BY <1>2, <3>1
  <2>4. Agree(D, m, f, F[f], x)
    BY <2>3 DEF Agree
  <2> QED BY <2>1, <2>4
<1>3. Bad = {}
  <2> SUFFICES ASSUME Bad # {} PROVE FALSE
    OBVIOUS
  <2>1. PICK k \in Bad : \A j \in Bad : k <= j
    BY LeastNumber, Bad \in SUBSET Nat
  <2>2. k # 0 /\ k \in 0 .. n + 1
    BY <1>1
  <2>3. k - 1 \in 0 .. n /\ k - 1 \notin Bad
    BY <2>1, <2>2
  <2>4. PICK f \in [D -> C] : Fixed(f, k - 1)
    BY <2>3
  <2> HIDE DEF Fixed
  <2>5. Fixed(F[f], (k - 1) + 1)
    BY <1>2, <2>3, <2>4
  <2>6. (k - 1) + 1 = k /\ F[f] \in [D -> C]
    BY <2>2
  <2>7. Fixed(F[f], k)
    BY <2>5, <2>6
  <2> QED BY <2>1, <2>6, <2>7
<1>4. PICK f \in [D -> C] : Fixed(f, n + 1)
  <2> HIDE DEF Fixed
  <2>1. n + 1 \in 0 .. n + 1
    OBVIOUS
  <2>2. ~(n + 1 \in Bad)
    BY <1>3, Zenon
  <2> QED BY <2>1, <2>2, Zenon
<1>5. \A x \in D : f[x] = F[f][x]
  BY <1>0, <1>4
<1>6. F[f] \in [D -> C]
  OBVIOUS
<1> QED BY <1>5, <1>6

-----------------------------------------------------------------------------
(***************************************************************************)
(* Folds go down from a set of positions to the set without its last one.  *)
(***************************************************************************)
Top(S) == IF S = {} THEN 0 ELSE Max(S)

Tops(n) == [S \in SUBSET (1 .. n) |-> Top(S)]

Folding(n, base, step, g) ==
  g = [S \in SUBSET (1 .. n) |-> IF S = {} THEN base ELSE step[<<g[S \ {Max(S)}], Max(S)>>]]

LEMMA WithoutTop ==
  ASSUME NEW n \in Nat, NEW S \in SUBSET (1 .. n)
  PROVE  /\ Top(S) \in 0 .. n /\ Tops(n)[S] = Top(S)
         /\ S # {} => /\ Max(S) \in S /\ Max(S) \in 1 .. n /\ Top(S) = Max(S)
                      /\ S \ {Max(S)} \in SUBSET (1 .. n)
                      /\ Top(S \ {Max(S)}) < Top(S)
                      /\ Tops(n)[S \ {Max(S)}] < Tops(n)[S]
<1>1. CASE S = {}
  BY <1>1 DEF Top, Tops
<1>2. CASE S # {}
  <2>0. \A T \in SUBSET (1 .. n) : T # {} => Max(T) \in T /\ \A x \in T : x <= Max(T)
    <3>1. \A T \in SUBSET (1 .. n) : T \in SUBSET (0 .. n)
      OBVIOUS
    <3> QED BY <3>1, MaxOf
  <2>1. Max(S) \in S /\ Max(S) \in 1 .. n /\ \A x \in S : x <= Max(S)
    BY <1>2, <2>0
  <2>2. S \ {Max(S)} \in SUBSET (1 .. n)
    OBVIOUS
  <2>3. Top(S \ {Max(S)}) < Max(S)
    <3>1. CASE S \ {Max(S)} = {}
      BY <2>1, <3>1 DEF Top
    <3>2. CASE S \ {Max(S)} # {}
      <4>1. Max(S \ {Max(S)}) \in S \ {Max(S)}
        BY <2>0, <2>2, <3>2
      <4>2. Max(S \ {Max(S)}) \in 1 .. n /\ Max(S \ {Max(S)}) <= Max(S) /\ Max(S \ {Max(S)}) # Max(S)
        BY <2>1, <4>1
      <4> QED BY <2>1, <3>2, <4>2 DEF Top
    <3> QED BY <3>1, <3>2
  <2>4. Top(S) = Max(S) /\ Tops(n)[S] = Top(S) /\ Tops(n)[S \ {Max(S)}] = Top(S \ {Max(S)})
    BY <1>2, <2>2 DEF Top, Tops
  <2>5. Top(S) \in 0 .. n
    BY <2>1, <2>4
  <2> QED BY <1>2, <2>1, <2>2, <2>3, <2>4, <2>5
<1> QED BY <1>1, <1>2

LEMMA TopsType ==
  ASSUME NEW n \in Nat
  PROVE  Tops(n) \in [SUBSET (1 .. n) -> 0 .. n] /\ Tops(n) \in [SUBSET (1 .. n) -> Nat]
<1>1. \A S \in SUBSET (1 .. n) : Top(S) \in 0 .. n /\ Top(S) \in Nat
  <2>1. \A S \in SUBSET (1 .. n) : Top(S) \in 0 .. n
    BY WithoutTop
  <2> QED BY <2>1
<1> QED BY <1>1 DEF Tops

LEMMA FoldExists ==
  ASSUME NEW n \in Nat, NEW C, NEW base \in C, NEW step \in [C \X (1 .. n) -> C]
  PROVE  \E g \in [SUBSET (1 .. n) -> C] : Folding(n, base, step, g)
<1> DEFINE D == SUBSET (1 .. n)
           m == Tops(n)
           Body(g, S) == IF S = {} THEN base ELSE step[<<g[S \ {Max(S)}], Max(S)>>]
           F == [g \in [D -> C] |-> [S \in D |-> Body(g, S)]]
<1>1. ASSUME NEW g \in [D -> C], NEW S \in D PROVE Body(g, S) \in C
  <2>1. S # {} => <<g[S \ {Max(S)}], Max(S)>> \in C \X (1 .. n)
    BY WithoutTop
  <2> QED BY <2>1
<1>2. F \in [[D -> C] -> [D -> C]]
  <2> HIDE DEF Body
  <2> QED BY <1>1
<1>3. ASSUME NEW g \in [D -> C], NEW h \in [D -> C], NEW S \in D, Agree(D, m, g, h, S)
      PROVE  Body(g, S) = Body(h, S)
  <2>1. S # {} => g[S \ {Max(S)}] = h[S \ {Max(S)}]
    BY <1>3, WithoutTop DEF Agree
  <2> QED BY <2>1
<1>4. \A g, h \in [D -> C], S \in D : Agree(D, m, g, h, S) => F[g][S] = F[h][S]
  <2> HIDE DEF Body
  <2> QED BY <1>3
<1>5. PICK g \in [D -> C] : g = F[g]
  <2>1. m \in [D -> 0 .. n] /\ C # {}
    BY TopsType
  <2> HIDE DEF F, D, m
  <2>2. GoesDown(D, C, n, m, F)
    BY <2>1, <1>2, <1>4 DEF GoesDown
  <2> QED BY <2>2, Recursion
<1> QED BY <1>5 DEF Folding
=============================================================================
