---------------------------- MODULE WorkerProofs ----------------------------
(***************************************************************************)
(* Proofs about Worker, for every set of characters, every chunk, every    *)
(* timeout and every behaviour of the clock and of the worker's functions: *)
(* which passwords are given (CoverInv), that the worker stays in its      *)
(* chunk, that its exit code and its counter can be trusted, and that it   *)
(* walks the key room as KeyRoom says.                                     *)
(***************************************************************************)
EXTENDS Worker, GeneratorProofs

(***************************************************************************)
(* Coverage.  While the worker has a key, the key is a legal one at or     *)
(* after the start of the chunk and pwd shows it; while it goes on, the    *)
(* key is no longer than the end password, which leaves room for one       *)
(* character more.  Without these facts a step could leave the key room,   *)
(* so Coverage is not inductive alone.                                     *)
(***************************************************************************)
AtKey ==
  /\ ChunkAccepted
  /\ pwd_digit \in Keys
  /\ pwd = Word(pwd_digit)
  /\ AtMost(DigitsOf(start), pwd_digit)

CoverInv ==
  /\ ChunkGiven
  /\ phase \in {"init", "first"} => given = {}
  /\ phase \in {"first", "loop", "end"} \/ Made => AtKey
  /\ phase = "first" => pwd_digit = DigitsOf(start)
  /\ phase = "loop" => Len(pwd_digit) <= Len(end) /\ Made
  /\ Coverage

\* What the invariant is about stays as it is, but for the phase.
LEMMA CoverKept ==
  ASSUME CoverInv, UNCHANGED <<chunkVars, pwd, pwd_digit, given>>,
         phase' = phase \/ phase' = "exited"
  PROVE  CoverInv'
<1>1. ChunkGiven' = ChunkGiven /\ Made' = Made /\ Coverage' = Coverage
      /\ AtKey' = AtKey
  BY DEF chunkVars, ChunkGiven, Made, Coverage, SoFar, AtKey, ChunkAccepted
<1>2. UNCHANGED <<start, end, pwd_digit, given>>
  BY DEF chunkVars
<1> QED BY <1>1, <1>2 DEF CoverInv

LEMMA CoverOfStart ==
  ASSUME CoverInv, Start
  PROVE  CoverInv'
<1>1. /\ phase = "init" /\ phase' = "first" /\ ChunkAccepted
      /\ pwd_digit' = DigitsOf(start) /\ pwd' = start
      /\ UNCHANGED <<start, end, sameText, given>>
  BY DEF Start, Begin, pwdgen_init, chunkVars, doneVars
<1>2. ChunkGiven /\ given = {}
  BY <1>1 DEF CoverInv
<1>3. DigitsOf(start) \in Keys /\ Word(DigitsOf(start)) = start
  BY <1>1, <1>2, ChunkFacts
<1>4. AtKey'
  BY <1>1, <1>3 DEF AtKey, ChunkAccepted, AtMost
<1> QED BY <1>1, <1>2, <1>4 DEF CoverInv, Made, Coverage, ChunkGiven

LEMMA CoverOfFirstKey ==
  ASSUME CoverInv, FirstKey
  PROVE  CoverInv'
<1>1. /\ phase = "first" /\ given' = given \union {pwd}
      /\ phase' \in {"loop", "end"}
      /\ UNCHANGED <<start, end, sameText, pwd, pwd_digit>>
  BY DEF FirstKey, dofunction, Collect, chunkVars, genVars
<1>2. ChunkGiven /\ given = {} /\ AtKey /\ pwd_digit = DigitsOf(start)
  BY <1>1 DEF CoverInv
<1>3. given' = {Word(pwd_digit)}
  BY <1>1, <1>2 DEF AtKey
<1>4. Between(DigitsOf(start), pwd_digit) = {pwd_digit}
  BY <1>2, BetweenItself DEF AtKey
<1>5. Coverage'
  BY <1>1, <1>3, <1>4 DEF Coverage, SoFar, Words
<1>6. Len(pwd_digit) <= Len(end)
  BY <1>2, ChunkFacts DEF AtKey
<1>7. AtKey' /\ ChunkGiven' /\ Made'
  BY <1>1, <1>2, <1>3 DEF AtKey, ChunkAccepted, ChunkGiven, Made
<1> QED BY <1>1, <1>5, <1>6, <1>7 DEF CoverInv

\* A step of the loop that is not the last one returned 0 twice.
LEMMA LoopGoesOn ==
  ASSUME NEW rc \in {PWD_OK, 1, PWD_TIMEOUT}, NEW r \in Results, Collect(rc + r)
  PROVE  phase' \in {"loop", "end"} /\ (phase' = "loop" => rc = 0)
<1>1. phase' \in {"loop", "end"}
  BY DEF Collect
<1>2. ASSUME phase' = "loop" PROVE rc + r = 0
  BY <1>2 DEF Collect, PWD_ERROR
<1>3. rc + r = 0 => rc = 0
  BY DEF Results, PWD_OK, PWD_TIMEOUT, PWD_FAIL, PWD_SUCCESS, PWD_ERROR
<1> QED BY <1>1, <1>2, <1>3

LEMMA CoverOfCycle ==
  ASSUME CoverInv, Cycle
  PROVE  CoverInv'
<1>1. PICK rc \in {PWD_OK, 1, PWD_TIMEOUT}, r \in Results :
        pwdgen_next(rc) /\ dofunction(pwd', r) /\ Collect(rc + r)
  BY DEF Cycle
<1>2. /\ phase = "loop" /\ given' = given \union {pwd'}
      /\ UNCHANGED <<start, end, sameText>>
  BY <1>1 DEF Cycle, dofunction, pwdgen_next, chunkVars
<1>3. /\ ChunkGiven /\ Made /\ AtKey /\ given = Words(SoFar)
      /\ Len(pwd_digit) <= Len(end)
  BY <1>2 DEF CoverInv, Coverage
<1>4. ChunkAccepted /\ DigitsOf(start) \in Keys /\ Len(end) \in Nat /\ Len(end) < PWD_LEN
  BY <1>3, ChunkFacts DEF AtKey
<1>5. phase' \in {"loop", "end"} /\ (phase' = "loop" => rc = 0)
  BY <1>1, LoopGoesOn
<1>6. ChunkGiven' /\ Made' /\ ChunkAccepted'
  BY <1>2, <1>3, <1>4 DEF ChunkGiven, Made, ChunkAccepted
<1>7. CASE rc = PWD_TIMEOUT /\ UNCHANGED genVars
  <2>1. UNCHANGED <<pwd, pwd_digit>>
    BY <1>7 DEF genVars
  <2>2. phase' = "end"
    BY <1>5, <1>7 DEF PWD_TIMEOUT
  <2>3. pwd_digit \in SoFar
    BY <1>3 DEF SoFar, Between, AtKey, AtMost
  <2>4. given' = given
    BY <1>2, <1>3, <2>1, <2>3 DEF Words, AtKey
  <2>5. AtKey' /\ Coverage'
    BY <1>2, <1>3, <1>6, <2>1, <2>4 DEF AtKey, Coverage, SoFar
  <2> QED BY <1>6, <2>2, <2>5 DEF CoverInv
<1>8. CASE MakeNext(rc)
  <2>1. Len(pwd_digit) < PWD_LEN /\ Len(pwd_digit) \in Nat
    BY <1>3, <1>4, KeyFacts, CharsetAssumption DEF AtKey, CharsetAssumption
  <2>2. /\ pwd_digit' \in Keys /\ Successor(pwd_digit, pwd_digit')
        /\ Len(pwd_digit') \in {Len(pwd_digit), Len(pwd_digit) + 1}
        /\ pwd' = Word(pwd_digit')
        /\ rc = 0 => Len(pwd_digit') = Len(pwd_digit) \/ ~(Len(pwd_digit') > Len(end))
    BY <1>3, <1>8, <2>1, MakeNextFacts DEF AtKey
  <2>3. /\ AtMost(DigitsOf(start), pwd_digit')
        /\ Between(DigitsOf(start), pwd_digit') = SoFar \union {pwd_digit'}
    BY <1>3, <1>4, <2>2, BetweenGrows DEF AtKey, SoFar
  <2>4. given' = Words(SoFar \union {pwd_digit'})
    BY <1>2, <1>3, <2>2 DEF Words
  <2>5. AtKey' /\ Coverage'
    BY <1>2, <1>6, <2>2, <2>3, <2>4 DEF AtKey, Coverage, SoFar, Words
  <2>6. rc = 0 => Len(pwd_digit') <= Len(end)
    BY <1>3, <1>4, <2>1, <2>2
  <2>7. phase' = "loop" => Len(pwd_digit') <= Len(end)'
    BY <1>2, <1>5, <2>6
  <2> QED BY <1>5, <1>6, <2>5, <2>7 DEF CoverInv
<1> QED BY <1>1, <1>7, <1>8 DEF pwdgen_next

LEMMA CoverOfFinish ==
  ASSUME CoverInv, Finish
  PROVE  CoverInv'
<1>1. UNCHANGED <<pwd, pwd_digit, given>>
  BY DEF Finish, endfunction, genVars, doneVars
<1>2. phase' = "exited" /\ UNCHANGED chunkVars
  BY DEF Finish, Exit
<1> QED BY <1>1, <1>2, CoverKept

LEMMA CoverInduction == WorkerSpec => []CoverInv
<1>1. WorkerInit => CoverInv
  BY DEF WorkerInit, MainInit, EndInit, CoverInv, Made, Coverage
<1>2. CoverInv /\ [WorkerNext]_workerVars => CoverInv'
  <2> SUFFICES ASSUME CoverInv, [WorkerNext]_workerVars PROVE CoverInv'
    OBVIOUS
  <2>1. CASE Start
    BY <2>1, CoverOfStart
  <2>2. CASE Abort
    <3>1. UNCHANGED <<chunkVars, pwd, pwd_digit, given>> /\ phase' = "exited"
      BY <2>2 DEF Abort, Refuse, GiveUp, genVars, doneVars
    <3> QED BY <3>1, CoverKept
  <2>3. CASE FirstKey
    BY <2>3, CoverOfFirstKey
  <2>4. CASE Cycle
    BY <2>4, CoverOfCycle
  <2>5. CASE Finish
    BY <2>5, CoverOfFinish
  <2>6. CASE PassTime
    <3>1. UNCHANGED <<chunkVars, pwd, pwd_digit, given, phase>>
      BY <2>6 DEF PassTime, Clock, ClockTicks, genVars, mainVars, doneVars
    <3> QED BY <3>1, CoverKept
  <2>7. CASE UNCHANGED workerVars
    <3>1. UNCHANGED <<chunkVars, pwd, pwd_digit, given, phase>>
      BY <2>7 DEF workerVars, commonVars, genVars, mainVars, doneVars
    <3> QED BY <3>1, CoverKept
  <2> QED BY <2>1, <2>2, <2>3, <2>4, <2>5, <2>6, <2>7 DEF WorkerNext, Work
<1> QED BY <1>1, <1>2, PTL DEF WorkerSpec

\* The worker leaves no key of the chunk out and makes none that is not due:
\* the passwords given to dofunction() are always exactly those of the keys
\* from the start of the chunk to the current one.
THEOREM NoKeyLeftOut == WorkerSpec => []Coverage
<1>1. CoverInv => Coverage
  BY DEF CoverInv
<1> QED BY <1>1, CoverInduction, PTL

-----------------------------------------------------------------------------
(***************************************************************************)
(* The overflow of a step.                                                 *)
(***************************************************************************)
LEMMA OverflowOfCycle ==
  ASSUME CoverInv, Cycle
  PROVE  \A i \in 1 .. Len(pwd') - overflow' : pwd'[i] = pwd[i]
<1>1. PICK rc \in {PWD_OK, 1, PWD_TIMEOUT} : pwdgen_next(rc)
  BY DEF Cycle
<1>2. CASE UNCHANGED genVars
  BY <1>2 DEF genVars
<1>3. CASE MakeNext(rc)
  <2>1. /\ ChunkGiven /\ AtKey /\ Len(pwd_digit) <= Len(end)
    BY DEF CoverInv, Cycle
  <2>2. Len(end) \in Nat /\ Len(end) < PWD_LEN
    BY <2>1, ChunkFacts DEF AtKey
  <2>3. Len(pwd_digit) < PWD_LEN
    BY <2>1, <2>2, KeyFacts, CharsetAssumption DEF AtKey, CharsetAssumption
  <2> QED BY <1>3, <2>1, <2>3, MakeNextFacts DEF AtKey
<1> QED BY <1>1, <1>2, <1>3 DEF pwdgen_next

\* What overflow says is unchanged is unchanged: the first length - overflow
\* characters of a password are those of the one before.
THEOREM OverflowIsRight == WorkerSpec => OverflowTells
<1> DEFINE Kept == \A i \in 1 .. Len(pwd') - overflow' : pwd'[i] = pwd[i]
<1>1. CoverInv /\ [WorkerNext]_workerVars => [phase = "loop" => Kept]_workerVars
  <2> SUFFICES ASSUME CoverInv, WorkerNext, phase = "loop" PROVE Kept
    OBVIOUS
  <2>1. CASE Cycle
    BY <2>1, OverflowOfCycle
  <2>2. CASE PassTime
    BY <2>2 DEF PassTime, Clock, ClockTicks, genVars
  <2> QED BY <2>1, <2>2
          DEF WorkerNext, Work, Start, Begin, Abort, Refuse, FirstKey, Finish
<1> QED BY <1>1, CoverInduction, PTL DEF WorkerSpec, OverflowTells

-----------------------------------------------------------------------------
(***************************************************************************)
(* The end of the chunk.  The loop goes on only from keys that are not the *)
(* end's own, but for a first key that is; from there a successor cannot   *)
(* leave the chunk.                                                        *)
(***************************************************************************)
Begun == phase \in {"first", "loop", "end"} \/ Made

ReachInv ==
  /\ Begun => end_digit = DigitsOf(end) /\ once = (IF sameText THEN 1 ELSE 0)
  /\ phase \in {"loop", "end"} => Made
  /\ Made /\ sameText => pwd_digit = DigitsOf(start) /\ phase # "loop"
  /\ phase = "loop" /\ pwd_digit = end_digit => pwd_digit = DigitsOf(start)
  /\ Made /\ Precedes(DigitsOf(start), end_digit) => AtMost(pwd_digit, end_digit)

LEMMA ReachKept ==
  ASSUME ReachInv, UNCHANGED <<chunkVars, pwd_digit, end_digit, once, given>>,
         phase' = phase \/ phase' = "exited"
  PROVE  ReachInv'
<1>1. UNCHANGED <<start, end, sameText, pwd_digit, end_digit, once, given>>
  BY DEF chunkVars
<1>2. Made' = Made /\ (Begun' => Begun)
  BY <1>1 DEF Made, Begun
<1> QED BY <1>1, <1>2 DEF ReachInv

\* What a call of pwdgen_next() in the loop makes, and what its result says.
LEMMA StepOfLoop ==
  ASSUME CoverInv, ReachInv, phase = "loop", NEW rc, MakeNext(rc)
  PROVE  /\ pwd_digit' \in Keys /\ Successor(pwd_digit, pwd_digit')
         /\ pwd' = Word(pwd_digit')
         /\ rc = 0 => pwd_digit' # end_digit
         /\ rc = 1 => Word(pwd_digit') = end \/ Len(pwd_digit') > Len(end)
         /\ rc \in {0, 1}
         /\ UNCHANGED <<end_digit, once>>
<1>1. /\ ChunkGiven /\ AtKey /\ Len(pwd_digit) <= Len(end)
      /\ end_digit = DigitsOf(end)
  BY DEF CoverInv, ReachInv, Begun
<1>2. Len(end) \in Nat /\ Len(end) < PWD_LEN /\ Len(end_digit) = Len(end) /\ Word(end_digit) = end
  BY <1>1, ChunkFacts DEF AtKey
<1>3. Len(pwd_digit) < PWD_LEN
  BY <1>1, <1>2, KeyFacts, CharsetAssumption DEF AtKey, CharsetAssumption
<1>4. /\ pwd_digit' \in Keys /\ Successor(pwd_digit, pwd_digit')
      /\ pwd' = Word(pwd_digit')
      /\ rc = 1 => pwd' = end \/ Len(pwd_digit') > Len(end)
      /\ rc = 0 /\ pwd' = end /\ Len(end_digit) = Len(end) => pwd_digit' # end_digit
      /\ rc \in {0, 1}
      /\ UNCHANGED <<end_digit, once>>
  BY <1>1, <1>3, MakeNextFacts DEF AtKey
<1>5. pwd_digit' = end_digit => pwd' = end
  BY <1>2, <1>4
<1> QED BY <1>2, <1>4, <1>5

LEMMA ReachOfStart ==
  ASSUME CoverInv, ReachInv, Start
  PROVE  ReachInv'
<1>1. /\ phase = "init" /\ phase' = "first" /\ end_digit' = DigitsOf(end)
      /\ once' = (IF sameText THEN 1 ELSE 0)
      /\ UNCHANGED <<start, end, sameText, given>>
  BY DEF Start, Begin, pwdgen_init, chunkVars, doneVars
<1>2. ~Made'
  BY <1>1 DEF CoverInv, Made
<1> QED BY <1>1, <1>2 DEF ReachInv

LEMMA ReachOfFirstKey ==
  ASSUME CoverInv, ReachInv, FirstKey
  PROVE  ReachInv'
<1>1. /\ phase = "first" /\ given' = given \union {pwd}
      /\ phase' \in {"loop", "end"}
      /\ UNCHANGED <<start, end, sameText, pwd, pwd_digit, end_digit, once>>
  BY DEF FirstKey, dofunction, Collect, chunkVars, genVars
<1>2. /\ pwd_digit = DigitsOf(start) /\ end_digit = DigitsOf(end)
      /\ once = (IF sameText THEN 1 ELSE 0)
  BY <1>1 DEF CoverInv, ReachInv, Begun
<1>3. Made'
  BY <1>1 DEF Made
<1>4. sameText => phase' # "loop"
  <2>1. PICK r \in Results : Collect(r + once)
    BY DEF FirstKey
  <2>2. once = 1 => r + once # 0
    BY DEF Results, PWD_FAIL, PWD_SUCCESS, PWD_ERROR
  <2> QED BY <1>2, <2>1, <2>2 DEF Collect, PWD_ERROR
<1> QED BY <1>1, <1>2, <1>3, <1>4 DEF ReachInv, AtMost

LEMMA ReachOfCycle ==
  ASSUME CoverInv, ReachInv, Cycle
  PROVE  ReachInv'
<1>1. PICK rc \in {PWD_OK, 1, PWD_TIMEOUT}, r \in Results :
        pwdgen_next(rc) /\ dofunction(pwd', r) /\ Collect(rc + r)
  BY DEF Cycle
<1>2. /\ phase = "loop" /\ given' = given \union {pwd'}
      /\ UNCHANGED <<start, end, sameText>>
  BY <1>1 DEF Cycle, dofunction, pwdgen_next, chunkVars
<1>3. phase' \in {"loop", "end"} /\ (phase' = "loop" => rc = 0)
  BY <1>1, LoopGoesOn
<1>4. /\ Made /\ Made' /\ ~sameText
      /\ end_digit = DigitsOf(end) /\ once = (IF sameText THEN 1 ELSE 0)
  BY <1>2 DEF ReachInv, Begun, Made
<1>5. CASE rc = PWD_TIMEOUT /\ UNCHANGED genVars
  <2>1. UNCHANGED <<pwd_digit, end_digit, once>>
    BY <1>5 DEF genVars
  <2>2. phase' = "end"
    BY <1>3, <1>5 DEF PWD_TIMEOUT
  <2> QED BY <1>2, <1>4, <2>1, <2>2 DEF ReachInv
<1>6. CASE MakeNext(rc)
  <2>1. /\ pwd_digit' \in Keys /\ Successor(pwd_digit, pwd_digit')
        /\ rc = 0 => pwd_digit' # end_digit
        /\ UNCHANGED <<end_digit, once>>
    BY <1>2, <1>6, StepOfLoop
  <2>2. /\ pwd_digit \in Keys /\ end_digit \in Keys /\ DigitsOf(start) \in Keys
    <3>1. ChunkGiven /\ AtKey
      BY <1>4 DEF CoverInv
    <3> QED BY <1>4, <3>1, ChunkFacts DEF AtKey
  <2>3. ASSUME Precedes(DigitsOf(start), end_digit) PROVE AtMost(pwd_digit', end_digit)
    <3>1. AtMost(pwd_digit, end_digit)
      BY <1>4, <2>3 DEF ReachInv
    <3>2. pwd_digit # end_digit
      BY <1>2, <2>2, <2>3, Irreflexive DEF ReachInv
    <3> QED BY <2>1, <2>2, <3>1, <3>2 DEF AtMost, Successor
  <2>4. phase' = "loop" => pwd_digit' # end_digit'
    BY <1>3, <2>1
  <2> QED BY <1>2, <1>3, <1>4, <2>1, <2>3, <2>4 DEF ReachInv
<1> QED BY <1>1, <1>5, <1>6 DEF pwdgen_next

LEMMA ReachInduction == WorkerSpec => []ReachInv
<1>1. WorkerInit => ReachInv
  BY DEF WorkerInit, MainInit, EndInit, ReachInv, Begun, Made
<1>2. CoverInv /\ ReachInv /\ [WorkerNext]_workerVars => ReachInv'
  <2> SUFFICES ASSUME CoverInv, ReachInv, [WorkerNext]_workerVars PROVE ReachInv'
    OBVIOUS
  <2>1. CASE Start
    BY <2>1, ReachOfStart
  <2>2. CASE Abort
    <3>1. UNCHANGED <<chunkVars, pwd_digit, end_digit, once, given>> /\ phase' = "exited"
      BY <2>2 DEF Abort, Refuse, GiveUp, genVars, doneVars
    <3> QED BY <3>1, ReachKept
  <2>3. CASE FirstKey
    BY <2>3, ReachOfFirstKey
  <2>4. CASE Cycle
    BY <2>4, ReachOfCycle
  <2>5. CASE Finish
    <3>1. UNCHANGED <<chunkVars, pwd_digit, end_digit, once, given>> /\ phase' = "exited"
      BY <2>5 DEF Finish, endfunction, Exit, genVars, doneVars
    <3> QED BY <3>1, ReachKept
  <2>6. CASE PassTime
    <3>1. UNCHANGED <<chunkVars, pwd_digit, end_digit, once, given, phase>>
      BY <2>6 DEF PassTime, Clock, ClockTicks, genVars, mainVars, doneVars
    <3> QED BY <3>1, ReachKept
  <2>7. CASE UNCHANGED workerVars
    <3>1. UNCHANGED <<chunkVars, pwd_digit, end_digit, once, given, phase>>
      BY <2>7 DEF workerVars, commonVars, genVars, mainVars, doneVars
    <3> QED BY <3>1, ReachKept
  <2> QED BY <2>1, <2>2, <2>3, <2>4, <2>5, <2>6, <2>7 DEF WorkerNext, Work
<1> QED BY <1>1, <1>2, CoverInduction, PTL DEF WorkerSpec

\* The worker never gets a password beyond the end of a chunk whose end does
\* not come before its start.
THEOREM ChunkNotLeft == WorkerSpec => []InsideChunk
<1>1. CoverInv /\ ReachInv => InsideChunk
  <2> SUFFICES ASSUME CoverInv, ReachInv, Made,
                      sameText \/ Precedes(DigitsOf(start), end_digit)
               PROVE  given \subseteq Words(Chunk)
    BY DEF InsideChunk
  <2>1. ChunkGiven /\ AtKey /\ given = Words(SoFar) /\ end_digit = DigitsOf(end)
    BY DEF CoverInv, Coverage, ReachInv, Begun
  <2>2. DigitsOf(start) \in Keys /\ end_digit \in Keys /\ pwd_digit \in Keys
    BY <2>1, ChunkFacts DEF AtKey
  <2>3. AtMost(pwd_digit, end_digit)
    <3>1. CASE sameText
      <4>1. start = end
        BY <2>1, <3>1 DEF ChunkGiven
      <4> QED BY <2>1, <3>1, <4>1 DEF ReachInv, AtMost
    <3>2. CASE Precedes(DigitsOf(start), end_digit)
      BY <3>2 DEF ReachInv
    <3> QED BY <3>1, <3>2
  <2>4. SoFar \subseteq Chunk
    BY <2>2, <2>3, BetweenOrdered DEF SoFar, Chunk
  <2> QED BY <2>1, <2>4 DEF Words
<1> QED BY <1>1, CoverInduction, ReachInduction, PTL

-----------------------------------------------------------------------------
(***************************************************************************)
(* The exit code.  As long as nothing failed, what was compared and what   *)
(* waits in the batch is what was given; the sum of the results says       *)
(* whether the target is in it and why the loop was left.  A batch that    *)
(* has just been compared is empty, so endfunction() cannot find the       *)
(* target a second time.                                                   *)
(***************************************************************************)
Texts == Seq(Chars)

\* What was given so far is compared or waits.
NoFailure == error = FALSE /\ given = checked \union ToSet(batch)

VerdictInv ==
  /\ batch \in Seq(Texts)
  /\ phase \in {"init", "first"} => checked = {} /\ batch = << >> /\ error = FALSE
  /\ phase = "loop" => NoFailure /\ target \notin checked
  /\ phase = "end" =>
       /\ found \in {1, 2, 3, 4, 6, 7, 8, 11}
       /\ found < PWD_ERROR => NoFailure /\ (target \in checked <=> found \in {2, 3, 6})
       /\ found \in {1, 3} => EndOfChunk
       /\ found \in {2, 3} => batch = << >>
       /\ found \in {4, 6} => timedOut
  /\ phase \in {"init", "first", "loop", "end"} => exitcode = -1
  /\ exitcode \in {-1, 0, 1, 2, PWD_ERROR}
  /\ exitcode = 0 => given = checked /\ target \notin checked /\ EndOfChunk /\ Made
  /\ exitcode = 1 => target \in checked /\ Made
  /\ exitcode = 2 => timedOut /\ target \notin checked /\ Made

\* One call of dofunction() that does not fail.
LEMMA CallFacts ==
  ASSUME NoFailure, target \notin checked, batch \in Seq(Texts),
         NEW w \in Texts, NEW r, dofunction(w, r)
  PROVE  /\ batch' \in Seq(Texts)
         /\ \/ error' = TRUE
            \/ r = PWD_ERROR
            \/ /\ NoFailure'
               /\ r \in {0, 2}
               /\ r = 2 <=> target \in checked'
               /\ r = 2 => batch' = << >>
<1>1. given' = given \union {w}
  BY DEF dofunction
<1>2. ToSet(<< >>) = {} /\ << >> \in Seq(Texts)
  BY DEF ToSet
<1>3. CASE Gather(w, r)
  <2>1. batch' \in Seq(Texts) /\ ToSet(batch') = ToSet(batch) \union {w}
    BY <1>3, AppendedSet DEF Gather
  <2> QED BY <1>1, <1>3, <2>1 DEF Gather, NoFailure, PWD_FAIL
<1>4. CASE Compare(ToSet(batch) \union {w}, r)
  BY <1>1, <1>2, <1>4 DEF Compare, NoFailure, PWD_FAIL, PWD_SUCCESS
<1>5. CASE Fail(r)
  BY <1>5 DEF Fail
<1> QED BY <1>3, <1>4, <1>5 DEF dofunction

\* What the loop makes of the result n of the generator and that of dofunction().
LEMMA CollectFacts ==
  ASSUME NoFailure, target \notin checked, batch \in Seq(Texts),
         NEW n \in {0, 1, 4}, NEW w \in Texts, NEW r \in Results,
         dofunction(w, r), Collect(n + r)
  PROVE  /\ batch' \in Seq(Texts)
         /\ phase' \in {"loop", "end"} /\ (phase' = "loop" <=> found' = 0)
         /\ found' \in {0, 1, 2, 3, 4, 6, 7, 8, 11}
         /\ found' < PWD_ERROR =>
              /\ NoFailure'
              /\ target \in checked' <=> found' \in {2, 3, 6}
              /\ found' \in {2, 3} => batch' = << >>
         /\ found' \in {1, 3} => n = 1
         /\ found' \in {4, 6} => n = 4
         /\ UNCHANGED <<target, exitcode>>
<1>1. UNCHANGED <<target, exitcode>> /\ phase' = (IF found' = 0 THEN "loop" ELSE "end")
  BY DEF Collect
<1>2. batch' \in Seq(Texts)
  BY CallFacts
<1>3. CASE error' = TRUE
  <2>1. found' = 7
    BY <1>3 DEF Collect, PWD_ERROR
  <2> QED BY <1>1, <1>2, <2>1 DEF PWD_ERROR
<1>4. CASE ~(error' = TRUE) /\ r = PWD_ERROR
  <2>1. found' = n + 7 \/ found' = 7
    BY <1>4 DEF Collect, PWD_ERROR
  <2> QED BY <1>1, <1>2, <2>1 DEF PWD_ERROR
<1>5. CASE ~(error' = TRUE) /\ r # PWD_ERROR
  <2>1. /\ NoFailure'
        /\ r \in {0, 2}
        /\ r = 2 <=> target \in checked'
        /\ r = 2 => batch' = << >>
    BY <1>5, CallFacts
  <2>2. found' = n + r
    BY <2>1 DEF Collect, NoFailure
  <2> QED BY <1>1, <1>2, <2>1, <2>2 DEF PWD_ERROR
<1> QED BY <1>3, <1>4, <1>5

LEMMA VerdictOfFirstKey ==
  ASSUME CoverInv, ReachInv, VerdictInv, FirstKey
  PROVE  VerdictInv'
<1>1. PICK r \in Results : dofunction(pwd, r) /\ Collect(r + once)
  BY DEF FirstKey
<1>2. /\ phase = "first" /\ given = {}
      /\ UNCHANGED <<start, end, sameText, pwd, pwd_digit>>
  BY DEF FirstKey, CoverInv, chunkVars, genVars
<1>3. /\ ChunkGiven /\ AtKey /\ pwd_digit = DigitsOf(start)
      /\ once = (IF sameText THEN 1 ELSE 0)
  BY <1>2 DEF CoverInv, ReachInv, Begun
<1>4. NoFailure /\ target \notin checked /\ batch \in Seq(Texts) /\ exitcode = -1
  <2>1. checked = {} /\ batch = << >> /\ error = FALSE /\ exitcode = -1
    BY <1>2 DEF VerdictInv
  <2>2. ToSet(batch) = {} /\ batch \in Seq(Texts)
    BY <2>1 DEF ToSet
  <2> QED BY <1>2, <2>1, <2>2 DEF NoFailure
<1>5. pwd \in Texts
  BY <1>3, WordChars DEF AtKey, Texts
<1>6. once \in {0, 1, 4} /\ Collect(once + r)
  <2>1. r + once = once + r
    BY <1>3 DEF Results, PWD_FAIL, PWD_SUCCESS, PWD_ERROR
  <2> QED BY <1>1, <1>3, <2>1
<1>7. /\ batch' \in Seq(Texts)
      /\ phase' \in {"loop", "end"} /\ (phase' = "loop" <=> found' = 0)
      /\ found' \in {0, 1, 2, 3, 4, 6, 7, 8, 11}
      /\ found' < PWD_ERROR =>
           /\ NoFailure'
           /\ target \in checked' <=> found' \in {2, 3, 6}
           /\ found' \in {2, 3} => batch' = << >>
      /\ found' \in {1, 3} => once = 1
      /\ found' \in {4, 6} => once = 4
      /\ UNCHANGED <<target, exitcode>>
  BY <1>1, <1>4, <1>5, <1>6, CollectFacts
<1>8. once = 1 => EndOfChunk'
  BY <1>2, <1>3, ChunkFacts DEF EndOfChunk, AtKey, ChunkGiven
<1>9. once # 4
  BY <1>3
<1> QED BY <1>4, <1>7, <1>8, <1>9 DEF VerdictInv, PWD_ERROR

LEMMA VerdictOfCycle ==
  ASSUME CoverInv, ReachInv, VerdictInv, Cycle
  PROVE  VerdictInv'
<1>1. PICK rc \in {PWD_OK, 1, PWD_TIMEOUT}, r \in Results :
        pwdgen_next(rc) /\ dofunction(pwd', r) /\ Collect(rc + r)
  BY DEF Cycle
<1>2. phase = "loop" /\ UNCHANGED <<start, end, sameText>>
  BY <1>1 DEF Cycle, pwdgen_next, chunkVars
<1>3. NoFailure /\ target \notin checked /\ batch \in Seq(Texts) /\ exitcode = -1
  BY <1>2 DEF VerdictInv
<1>4. AtKey
  BY <1>2 DEF CoverInv
<1>5. /\ pwd' \in Texts
      /\ rc = 1 => EndOfChunk'
      /\ rc = 4 => timedOut'
  <2>1. CASE timedOut' /\ rc = PWD_TIMEOUT /\ UNCHANGED genVars
    <3>1. pwd' = Word(pwd_digit)
      BY <1>4, <2>1 DEF genVars, AtKey
    <3> QED BY <1>4, <2>1, <3>1, WordChars DEF AtKey, Texts, PWD_TIMEOUT
  <2>2. CASE MakeNext(rc)
    <3>1. /\ pwd_digit' \in Keys /\ pwd' = Word(pwd_digit')
          /\ rc = 1 => Word(pwd_digit') = end \/ Len(pwd_digit') > Len(end)
          /\ rc \in {0, 1}
      BY <1>2, <2>2, StepOfLoop
    <3> QED BY <1>2, <3>1, WordChars DEF Texts, EndOfChunk
  <2> QED BY <1>1, <2>1, <2>2 DEF pwdgen_next
<1>6. rc \in {0, 1, 4}
  BY DEF PWD_OK, PWD_TIMEOUT
<1>7. /\ batch' \in Seq(Texts)
      /\ phase' \in {"loop", "end"} /\ (phase' = "loop" <=> found' = 0)
      /\ found' \in {0, 1, 2, 3, 4, 6, 7, 8, 11}
      /\ found' < PWD_ERROR =>
           /\ NoFailure'
           /\ target \in checked' <=> found' \in {2, 3, 6}
           /\ found' \in {2, 3} => batch' = << >>
      /\ found' \in {1, 3} => rc = 1
      /\ found' \in {4, 6} => rc = 4
      /\ UNCHANGED <<target, exitcode>>
  BY <1>1, <1>3, <1>5, <1>6, CollectFacts
<1> QED BY <1>3, <1>5, <1>7 DEF VerdictInv, PWD_ERROR

LEMMA VerdictOfFinish ==
  ASSUME CoverInv, ReachInv, VerdictInv, Finish
  PROVE  VerdictInv'
<1>1. /\ phase = "end" /\ phase' = "exited"
      /\ UNCHANGED <<start, end, pwd, pwd_digit, target, given, timedOut>>
  BY DEF Finish, Exit, endfunction, chunkVars, genVars, doneVars, pwdgen_stop, timerVars, checkVars
<1>2. Made /\ Made' /\ exitcode = -1 /\ batch \in Seq(Texts)
  BY <1>1 DEF ReachInv, VerdictInv, Made
<1>3. /\ found \in {1, 2, 3, 4, 6, 7, 8, 11}
      /\ found < 7 => NoFailure /\ (target \in checked <=> found \in {2, 3, 6})
      /\ found \in {1, 3} => EndOfChunk
      /\ found \in {2, 3} => batch = << >>
      /\ found \in {4, 6} => timedOut
  BY <1>1 DEF VerdictInv, PWD_ERROR
<1>4. EndOfChunk' = EndOfChunk
  BY <1>1 DEF EndOfChunk
<1>5. ToSet(<< >>) = {} /\ << >> \in Seq(Texts)
  BY DEF ToSet
<1>6. ASSUME exitcode' = 7, batch' \in Seq(Texts) PROVE VerdictInv'
  BY <1>1, <1>6 DEF VerdictInv, PWD_ERROR
<1>7. CASE CallsEndfunction
  <2>1. PICK r \in Results : endfunction(r) /\ Exit(found + r)
    BY <1>7 DEF Finish
  <2>2. found \in {1, 2, 3} /\ NoFailure
    BY <1>3, <1>7, Codes DEF CallsEndfunction, PWD_ERROR
  <2>3. CASE Fail(r)
    <3>1. (error' = TRUE \/ found + r >= 7) /\ found + r \in Nat
      BY <2>2, <2>3 DEF Fail, PWD_ERROR, PWD_FAIL
    <3>2. exitcode' = 7
      BY <2>1, <3>1 DEF Exit, PWD_ERROR
    <3>3. batch' = batch
      BY <2>3 DEF Fail
    <3> QED BY <1>2, <1>6, <3>2, <3>3
  <2>4. CASE Compare(ToSet(batch), r)
    <3>1. /\ batch' = << >> /\ error' = FALSE /\ checked' = given
          /\ r = (IF target \in ToSet(batch) THEN 2 ELSE 0)
      BY <2>2, <2>4 DEF Compare, NoFailure, PWD_SUCCESS, PWD_FAIL
    <3>2. CASE found = 1 /\ r = 0
      <4>1. exitcode' = 0 /\ target \notin checked'
        BY <1>3, <2>1, <2>2, <3>1, <3>2, Codes DEF NoFailure, Exit, PWD_ERROR
      <4> QED BY <1>1, <1>2, <1>3, <1>4, <1>5, <3>1, <3>2, <4>1 DEF VerdictInv, PWD_ERROR
    <3>3. CASE found = 1 /\ r = 2
      <4>1. exitcode' = 1 /\ target \in checked'
        BY <2>1, <2>2, <3>1, <3>3, Codes DEF NoFailure, Exit, PWD_ERROR
      <4> QED BY <1>1, <1>2, <1>5, <3>1, <4>1 DEF VerdictInv, PWD_ERROR
    <3>4. CASE found \in {2, 3}
      <4>1. r = 0
        BY <1>3, <1>5, <3>1, <3>4
      <4>2. exitcode' = 1 /\ target \in checked'
        BY <1>3, <2>1, <2>2, <3>1, <3>4, <4>1, Codes DEF NoFailure, Exit, PWD_ERROR
      <4> QED BY <1>1, <1>2, <1>5, <3>1, <4>2 DEF VerdictInv, PWD_ERROR
    <3> QED BY <2>2, <3>1, <3>2, <3>3, <3>4
  <2> QED BY <2>1, <2>3, <2>4 DEF endfunction
<1>8. CASE ~CallsEndfunction
  <2>1. UNCHANGED <<batch, checked, error>> /\ Exit(found)
    BY <1>8 DEF Finish, doneVars
  <2>2. CASE found \in {7, 8, 11}
    <3>1. exitcode' = 7
      BY <2>1, <2>2 DEF Exit, PWD_ERROR
    <3> QED BY <1>2, <1>6, <2>1, <3>1
  <2>3. CASE found = 4
    <3>1. exitcode' = 2
      BY <1>3, <2>1, <2>3, Codes DEF NoFailure, Exit, PWD_ERROR
    <3> QED BY <1>1, <1>2, <1>3, <2>1, <2>3, <3>1 DEF VerdictInv, PWD_ERROR
  <2>4. CASE found = 6
    <3>1. exitcode' = 1
      BY <1>3, <2>1, <2>4, Codes DEF NoFailure, Exit, PWD_ERROR
    <3> QED BY <1>1, <1>2, <1>3, <2>1, <2>4, <3>1 DEF VerdictInv, PWD_ERROR
  <2>5. found \notin {1, 2, 3}
    BY <1>8, Codes DEF CallsEndfunction, PWD_ERROR
  <2> QED BY <1>3, <2>2, <2>3, <2>4, <2>5
<1> QED BY <1>7, <1>8

\* A step that leaves alone what the verdict is about.
LEMMA VerdictKept ==
  ASSUME VerdictInv,
         UNCHANGED <<target, found, error, exitcode, phase, batch, checked, given, timedOut>>,
         UNCHANGED <<end, pwd_digit>>
  PROVE  VerdictInv'
BY DEF VerdictInv, NoFailure, EndOfChunk, Made

LEMMA VerdictInduction == WorkerSpec => []VerdictInv
<1>1. WorkerInit => VerdictInv
  BY DEF WorkerInit, MainInit, EndInit, VerdictInv, PWD_ERROR
<1>2. CoverInv /\ ReachInv /\ VerdictInv /\ [WorkerNext]_workerVars => VerdictInv'
  <2> SUFFICES ASSUME CoverInv, ReachInv, VerdictInv, [WorkerNext]_workerVars
               PROVE  VerdictInv'
    OBVIOUS
  <2>1. CASE Start
    <3>1. /\ phase = "init" /\ phase' = "first"
          /\ UNCHANGED <<target, error, exitcode, batch, checked, given>>
      BY <2>1 DEF Start, Begin, doneVars
    <3> QED BY <3>1 DEF VerdictInv, PWD_ERROR
  <2>2. CASE Abort
    <3>1. /\ phase' = "exited" /\ exitcode' = 7 /\ batch' = batch
      BY <2>2 DEF Abort, Refuse, GiveUp, doneVars, PWD_ERROR
    <3> QED BY <3>1 DEF VerdictInv, PWD_ERROR
  <2>3. CASE FirstKey
    BY <2>3, VerdictOfFirstKey
  <2>4. CASE Cycle
    BY <2>4, VerdictOfCycle
  <2>5. CASE Finish
    BY <2>5, VerdictOfFinish
  <2>6. CASE PassTime
    <3>1. UNCHANGED <<mainVars, doneVars, timedOut, end, pwd_digit>>
      BY <2>6 DEF PassTime, Clock, ClockTicks, Tick, SetBack, checkVars, chunkVars, genVars
    <3> QED BY <3>1, VerdictKept DEF mainVars, doneVars
  <2>7. CASE UNCHANGED workerVars
    BY <2>7, VerdictKept
       DEF workerVars, commonVars, timerVars, checkVars, chunkVars, genVars, mainVars, doneVars
  <2> QED BY <2>1, <2>2, <2>3, <2>4, <2>5, <2>6, <2>7 DEF WorkerNext, Work
<1> QED BY <1>1, <1>2, CoverInduction, ReachInduction, PTL DEF WorkerSpec

\* Code 0 means that all of the chunk was compared in vain, 1 that the target was
\* compared, 2 that the time was up and it was not found so far.
THEOREM CodeTrusted == WorkerSpec => []StopCode
<1>1. CoverInv /\ ReachInv /\ VerdictInv => StopCode
  <2> SUFFICES ASSUME CoverInv, ReachInv, VerdictInv PROVE StopCode
    OBVIOUS
  <2>1. ASSUME exitcode = 0 PROVE Words(Chunk) \subseteq checked
    <3>1. given = checked /\ EndOfChunk /\ Made
      BY <2>1 DEF VerdictInv
    <3>2. ChunkGiven /\ AtKey /\ given = Words(SoFar) /\ end_digit = DigitsOf(end)
      BY <3>1 DEF CoverInv, Coverage, ReachInv, Begun
    <3>3. AtMost(end_digit, pwd_digit)
      BY <3>1, <3>2, EndReached DEF EndOfChunk, AtKey
    <3>4. Chunk \subseteq SoFar
      BY <3>2, <3>3, ChunkFacts, BetweenOrdered DEF AtKey, Chunk, SoFar
    <3> QED BY <3>1, <3>2, <3>4 DEF Words
  <2> QED BY <2>1 DEF VerdictInv, StopCode
<1> QED BY <1>1, CoverInduction, ReachInduction, VerdictInduction, PTL

-----------------------------------------------------------------------------
(***************************************************************************)
(* The counter.  It starts at one for the password that pwdgen_init() made *)
(* and is moved from pwds_done to pwds by checks and by pwdgen_stop().     *)
(***************************************************************************)
CountInv ==
  /\ TimerTypeOK /\ calls \in Nat
  /\ phase \in {"init", "first"} => pwds = 1 /\ pwds_done = 0 /\ calls = 0
  /\ phase \in {"loop", "end"} => Made
  /\ Counted

LEMMA CountOfCycle ==
  ASSUME CountInv, Cycle
  PROVE  CountInv'
<1>1. /\ phase = "loop" /\ phase' \in {"loop", "end"} /\ CountPwd
      /\ calls' = OneMore(calls) /\ Made'
  BY DEF Cycle, pwdgen_next, dofunction, Collect, Made
<1>2. TimerTypeOK /\ calls \in Nat /\ (calls < MaxPwds => pwds + pwds_done = calls)
  BY <1>1 DEF CountInv, Counted
<1>3. /\ TimerTypeOK' /\ calls' \in Nat
      /\ calls' < MaxPwds => calls' = calls + 1 /\ calls < MaxPwds
  BY <1>1, <1>2, CountPwdTypes, OneMoreFacts, TimerAssumption DEF TimerAssumption
<1>4. ASSUME calls' < MaxPwds PROVE pwds' + pwds_done' = calls'
  <2>1. /\ pwds \in Nat /\ pwds_done \in Nat /\ MaxPwds \in Nat
        /\ pwds + (pwds_done + 1) = calls' /\ calls' \in Nat
    BY <1>2, <1>3, <1>4, TimerAssumption DEF TimerTypeOK, TimerAssumption
  <2>2. CASE CheckDue
    <3>1. pwds' = AddUp(pwds_done + 1) /\ pwds_done' = 0
      BY <1>1, <2>2 DEF CountPwd
    <3> QED BY <1>4, <2>1, <3>1 DEF AddUp
  <2>3. CASE ~CheckDue
    <3>1. pwds' = pwds /\ pwds_done' = pwds_done + 1
      BY <1>1, <2>3 DEF CountPwd
    <3> QED BY <2>1, <3>1
  <2> QED BY <2>2, <2>3
<1> QED BY <1>1, <1>3, <1>4 DEF CountInv, Counted

LEMMA CountOfFinish ==
  ASSUME CountInv, Finish
  PROVE  CountInv'
<1>1. phase = "end" /\ phase' = "exited" /\ UNCHANGED <<calls, given>>
  BY DEF Finish, Exit, endfunction, doneVars
<1>2. Made' = Made /\ Made /\ TimerTypeOK /\ calls \in Nat
      /\ (calls < MaxPwds => pwds + pwds_done = calls)
  BY <1>1 DEF CountInv, Made, Counted
<1>3. CASE UNCHANGED timerVars
  BY <1>1, <1>2, <1>3
     DEF CountInv, Counted, TimerTypeOK, timerVars, clockVars, checkVars, countVars
<1>4. CASE pwdgen_stop
  <2>1. /\ pwds' = AddUp(pwds_done) /\ pwds_done' = 0 /\ took' = now - tstart
        /\ UNCHANGED <<clockVars, tstart, tlast, tlast_report, report_status, max_pwds, timedOut>>
    BY <1>4 DEF pwdgen_stop
  <2>2. pwds' \in Nat /\ took' \in Int
    BY <1>2, <2>1, AddUpType DEF TimerTypeOK
  <2>3. TimerTypeOK'
    BY <1>2, <2>1, <2>2 DEF TimerTypeOK, clockVars
  <2>4. calls < MaxPwds => pwds' + pwds_done' = calls
    BY <1>2, <2>1, TimerAssumption DEF AddUp, TimerTypeOK, TimerAssumption
  <2> QED BY <1>1, <1>2, <2>3, <2>4 DEF CountInv, Counted
<1> QED BY <1>3, <1>4 DEF Finish, Exit

LEMMA CountKept ==
  ASSUME CountInv, TimerTypeOK', UNCHANGED <<pwds, pwds_done, calls, given>>,
         phase' = phase \/ phase' = "exited" \/ (phase = "init" /\ phase' = "first")
  PROVE  CountInv'
BY DEF CountInv, Counted, Made

\* The counter that the worker reports is the number of calls of dofunction().
THEOREM CounterRight == WorkerSpec => []Counted
<1>1. WorkerInit => CountInv
  <2> SUFFICES ASSUME WorkerInit PROVE CountInv
    OBVIOUS
  <2>1. TimerInit /\ phase = "init" /\ given = {} /\ calls = 0
    BY DEF WorkerInit, MainInit, EndInit
  <2> QED BY <2>1, InitTypes DEF CountInv, Counted, Made, TimerInit, TimerInitWith
<1>2. CountInv /\ [WorkerNext]_workerVars => CountInv'
  <2> SUFFICES ASSUME CountInv, [WorkerNext]_workerVars PROVE CountInv'
    OBVIOUS
  <2>1. ASSUME UNCHANGED timerVars PROVE TimerTypeOK' /\ UNCHANGED <<pwds, pwds_done>>
    BY <2>1 DEF CountInv, TimerTypeOK, timerVars, clockVars, checkVars, countVars
  <2>2. CASE Start
    BY <2>1, <2>2, CountKept DEF Start, Begin, doneVars
  <2>3. CASE Abort
    BY <2>1, <2>3, CountKept DEF Abort, Refuse, GiveUp, doneVars
  <2>4. CASE FirstKey
    <3>1. /\ phase = "first" /\ phase' \in {"loop", "end"} /\ calls' = OneMore(calls) /\ Made'
          /\ UNCHANGED timerVars
      BY <2>4 DEF FirstKey, dofunction, Collect, Made
    <3>2. pwds = 1 /\ pwds_done = 0 /\ calls = 0
      BY <3>1 DEF CountInv
    <3> QED BY <2>1, <3>1, <3>2, OneMoreFacts DEF CountInv, Counted
  <2>5. CASE Cycle
    BY <2>5, CountOfCycle
  <2>6. CASE Finish
    BY <2>6, CountOfFinish
  <2>7. CASE PassTime
    <3>1. Tick \/ SetBack
      BY <2>7 DEF PassTime, Clock, ClockTicks
    <3>2. UNCHANGED <<pwds, pwds_done>>
      BY <3>1 DEF Tick, SetBack, countVars
    <3>3. UNCHANGED <<phase, calls, given>>
      BY <2>7 DEF PassTime, Clock, ClockTicks, mainVars, doneVars
    <3> QED BY <3>1, <3>2, <3>3, EnvironmentTypes, CountKept DEF CountInv
  <2>8. CASE UNCHANGED workerVars
    BY <2>1, <2>8, CountKept DEF workerVars, commonVars, mainVars, doneVars
  <2> QED BY <2>2, <2>3, <2>4, <2>5, <2>6, <2>7, <2>8 DEF WorkerNext, Work
<1>3. CountInv => Counted
  BY DEF CountInv
<1> QED BY <1>1, <1>2, <1>3, PTL DEF WorkerSpec

-----------------------------------------------------------------------------
(***************************************************************************)
(* The walk through the key room.  Every step of the worker is a step of   *)
(* KeyRoom, or leaves the key and the verdict alone: the call of           *)
(* dofunction() for a new key is a visit, main()'s return the verdict.     *)
(***************************************************************************)
LEMMA RoomWords ==
  /\ Room!Keys = Keys
  /\ \A p, q : Room!Successor(p, q) <=> Successor(p, q)
  /\ \A p : Room!Word(p) = Word(p)
<1>1. Room!Keys = Keys
  BY DEF Room!Keys, Keys, Room!KeysOfLength, KeysOfLength, Room!Digits, Digits,
         Room!Lens, Lens, Room!Column, Column, Room!Matching, Matching
<1>2. \A p, q : Room!Precedes(p, q) <=> Precedes(p, q)
  BY DEF Room!Precedes, Precedes
<1>3. \A p, q : Room!Successor(p, q) <=> Successor(p, q)
  BY <1>1, <1>2 DEF Room!Successor, Successor, Room!AtMost, AtMost
<1>4. \A p : Room!Word(p) = Word(p)
  BY DEF Room!Word, Word, Room!Table, Table, Room!Column, Column, Room!Matching, Matching
<1> QED BY <1>1, <1>3, <1>4

\* What the variables of KeyRoom are mapped to.
First == IF ChunkAccepted THEN DigitsOf(start) ELSE << >>
Final == IF ChunkAccepted THEN DigitsOf(end) ELSE << >>
At == IF given = {} THEN << >> ELSE pwd_digit

LEMMA VerdictIs ==
  /\ exitcode = -1 => Verdict = "none"
  /\ exitcode = 0 => Verdict = "done"
  /\ exitcode = 1 => Verdict = "found"
  /\ exitcode = 2 => Verdict = "timeout"
  /\ exitcode = PWD_ERROR => Verdict = "error"
<1>1. exitcode = -1 => Verdict = "none"
  BY DEF Verdict, PWD_ERROR
<1>2. exitcode = 0 => Verdict = "done"
  BY DEF Verdict, PWD_ERROR
<1>3. exitcode = 1 => Verdict = "found"
  BY DEF Verdict, PWD_ERROR
<1>4. exitcode = 2 => Verdict = "timeout"
  BY DEF Verdict, PWD_ERROR
<1>5. exitcode = PWD_ERROR => Verdict = "error"
  BY DEF Verdict, PWD_ERROR
<1> QED BY <1>1, <1>2, <1>3, <1>4, <1>5

RoomStep == Room!RoomNext \/ UNCHANGED Room!roomVars

LEMMA RoomStutters ==
  ASSUME UNCHANGED <<start, end, pwd_digit, given, exitcode>>
  PROVE  RoomStep
BY DEF RoomStep, Room!roomVars, ChunkAccepted, Verdict

LEMMA ChunkMapped ==
  ASSUME UNCHANGED <<start, end>>
  PROVE  First' = First /\ Final' = Final
BY DEF First, Final, ChunkAccepted

LEMMA FirstVisited ==
  ASSUME CoverInv, ReachInv, VerdictInv, FirstKey
  PROVE  RoomStep
<1>1. /\ phase = "first" /\ given' = given \union {pwd}
      /\ UNCHANGED <<start, end, pwd_digit, exitcode>>
  BY DEF FirstKey, dofunction, Collect, chunkVars, genVars
<1>2. /\ given = {} /\ AtKey /\ pwd_digit = DigitsOf(start) /\ exitcode = -1
  BY <1>1 DEF CoverInv, VerdictInv
<1>3. First = pwd_digit /\ First' = First /\ Final' = Final
  BY <1>1, <1>2, ChunkMapped DEF First, AtKey
<1>4. At = << >> /\ At' = pwd_digit /\ Verdict = "none" /\ Verdict' = Verdict
  BY <1>1, <1>2, VerdictIs DEF At, Verdict
<1>5. Room!Begin
  BY <1>3, <1>4 DEF Room!Begin, First, Final, At
<1> QED BY <1>5 DEF RoomStep, Room!RoomNext

LEMMA NextVisited ==
  ASSUME CoverInv, ReachInv, VerdictInv, Cycle
  PROVE  RoomStep
<1>1. PICK rc \in {PWD_OK, 1, PWD_TIMEOUT}, r \in Results :
        pwdgen_next(rc) /\ dofunction(pwd', r) /\ Collect(rc + r)
  BY DEF Cycle
<1>2. /\ phase = "loop" /\ given' = given \union {pwd'}
      /\ UNCHANGED <<start, end, exitcode>>
  BY <1>1 DEF Cycle, dofunction, pwdgen_next, Collect, chunkVars
<1>3. /\ ChunkGiven /\ AtKey /\ Made /\ exitcode = -1
      /\ Len(pwd_digit) <= Len(end) /\ end_digit = DigitsOf(end)
      /\ pwd_digit = end_digit => pwd_digit = DigitsOf(start)
  BY <1>2 DEF CoverInv, ReachInv, VerdictInv, Begun
<1>4. Len(DigitsOf(end)) = Len(end) /\ pwd_digit # << >>
  BY <1>3, ChunkFacts, KeyFacts DEF AtKey
<1>5. CASE UNCHANGED genVars
  <2>1. UNCHANGED pwd_digit /\ given # {} /\ given' # {}
    BY <1>2, <1>3, <1>5 DEF genVars, Made
  <2>2. At' = At /\ First' = First /\ Final' = Final /\ Verdict' = Verdict
    BY <1>2, <2>1, ChunkMapped DEF At, Verdict
  <2> QED BY <2>2 DEF RoomStep, Room!roomVars, At, First, Final
<1>6. CASE MakeNext(rc)
  <2>1. pwd_digit' \in Keys /\ Successor(pwd_digit, pwd_digit')
    BY <1>2, <1>6, StepOfLoop
  <2>2. /\ First = DigitsOf(start) /\ Final = DigitsOf(end)
        /\ First' = First /\ Final' = Final
    BY <1>2, <1>3, ChunkMapped DEF First, Final, AtKey
  <2>3. At = pwd_digit /\ At' = pwd_digit' /\ Verdict = "none" /\ Verdict' = Verdict
    BY <1>2, <1>3, VerdictIs DEF At, Verdict, Made
  <2>4. At' \in Room!Keys /\ Room!Successor(At, At')
    BY <2>1, <2>3, RoomWords
  <2>5. Room!Visit
    BY <1>3, <1>4, <2>2, <2>3, <2>4 DEF Room!Visit, First, Final, At
  <2> QED BY <2>5 DEF RoomStep, Room!RoomNext
<1> QED BY <1>1, <1>5, <1>6 DEF pwdgen_next

LEMMA GivenUp ==
  ASSUME CoverInv, VerdictInv, Abort
  PROVE  RoomStep
<1>1. /\ phase = "init" /\ exitcode' = 7 /\ UNCHANGED <<start, end, pwd_digit, given>>
  BY DEF Abort, Refuse, GiveUp, chunkVars, genVars, doneVars, PWD_ERROR
<1>2. exitcode = -1 /\ given = {}
  BY <1>1 DEF VerdictInv, CoverInv
<1>3. First' = First /\ Final' = Final
  BY <1>1, ChunkMapped
<1>4. At' = At /\ Verdict = "none" /\ Verdict' = "error"
  BY <1>1, <1>2 DEF At, Verdict, PWD_ERROR
<1>5. Room!GiveUp
  BY <1>3, <1>4 DEF Room!GiveUp, First, Final, At
<1> QED BY <1>5 DEF RoomStep, Room!RoomNext

LEMMA WalkEnds ==
  ASSUME CoverInv, ReachInv, VerdictInv, VerdictInv', Finish
  PROVE  RoomStep
<1>1. phase = "end" /\ UNCHANGED <<start, end, pwd_digit, given>>
  BY DEF Finish, endfunction, chunkVars, genVars, doneVars
<1>2. ChunkGiven /\ AtKey /\ Made /\ exitcode = -1
  BY <1>1 DEF CoverInv, ReachInv, VerdictInv
<1>3. /\ First' = First /\ Final' = Final /\ Final = DigitsOf(end)
      /\ At = pwd_digit /\ At' = At /\ At # << >> /\ Verdict = "none"
  BY <1>1, <1>2, ChunkMapped, KeyFacts, VerdictIs DEF At, Made, AtKey, Final
<1>4. /\ exitcode' \in {-1, 0, 1, 2, 7}
      /\ exitcode' = 0 => Word(pwd_digit) = end \/ Len(pwd_digit) > Len(end)
  BY <1>1 DEF VerdictInv, EndOfChunk, PWD_ERROR
<1>5. Word(DigitsOf(end)) = end /\ Len(DigitsOf(end)) = Len(end)
  BY <1>2, ChunkFacts DEF AtKey
<1>6. CASE exitcode' = -1
  BY <1>1, <1>2, <1>6, RoomStutters
<1>7. CASE exitcode' = 0
  <2>1. Verdict' = "done"
    BY <1>7 DEF Verdict, PWD_ERROR
  <2>2. Room!Word(At) = Room!Word(Final) \/ Len(At) > Len(Final)
    BY <1>3, <1>4, <1>5, <1>7, RoomWords
  <2>3. Room!Done
    BY <1>3, <2>1, <2>2 DEF Room!Done, First, Final, At
  <2> QED BY <2>3 DEF RoomStep, Room!RoomNext
<1>8. CASE exitcode' \in {1, 2, 7}
  <2>1. Verdict' \in {"found", "timeout", "error"}
    BY <1>8 DEF Verdict, PWD_ERROR
  <2>2. Room!GiveUp
    BY <1>3, <2>1 DEF Room!GiveUp, First, Final, At
  <2> QED BY <2>2 DEF RoomStep, Room!RoomNext
<1> QED BY <1>4, <1>6, <1>7, <1>8

\* The worker implements KeyRoom: it visits one key of the room after the other,
\* leaves none out, and ends for no other reason than those that KeyRoom has.
THEOREM WalkIsOfTheRoom == WorkerSpec => WalksTheRoom
<1>1. WorkerInit => Room!RoomInit
  BY VerdictIs DEF WorkerInit, MainInit, EndInit, Room!RoomInit
<1>2. CoverInv /\ ReachInv /\ VerdictInv /\ VerdictInv' /\ [WorkerNext]_workerVars
        => [Room!RoomNext]_(Room!roomVars)
  <2> SUFFICES ASSUME CoverInv, ReachInv, VerdictInv, VerdictInv', [WorkerNext]_workerVars
               PROVE  RoomStep
    BY DEF RoomStep
  <2>1. CASE Start
    <3>1. /\ phase = "init" /\ UNCHANGED <<start, end, exitcode, given>> 
      BY <2>1 DEF Start, Begin, chunkVars, doneVars
    <3>2. given = {} /\ At' = At /\ Verdict' = Verdict
      BY <3>1 DEF CoverInv, At, Verdict
    <3> QED BY <3>1, <3>2, ChunkMapped DEF RoomStep, Room!roomVars, At, First, Final
  <2>2. CASE Abort
    BY <2>2, GivenUp
  <2>3. CASE FirstKey
    BY <2>3, FirstVisited
  <2>4. CASE Cycle
    BY <2>4, NextVisited
  <2>5. CASE Finish
    BY <2>5, WalkEnds
  <2>6. CASE PassTime
    BY <2>6, RoomStutters
       DEF PassTime, Clock, ClockTicks, chunkVars, genVars, mainVars, doneVars
  <2>7. CASE UNCHANGED workerVars
    BY <2>7, RoomStutters DEF workerVars, commonVars, chunkVars, genVars, mainVars, doneVars
  <2> QED BY <2>1, <2>2, <2>3, <2>4, <2>5, <2>6, <2>7 DEF WorkerNext, Work
<1> QED BY <1>1, <1>2, CoverInduction, ReachInduction, VerdictInduction, PTL
        DEF WorkerSpec, WalksTheRoom, Room!RoomSpec
=============================================================================
