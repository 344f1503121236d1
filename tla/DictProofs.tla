----------------------------- MODULE DictProofs -----------------------------
(***************************************************************************)
(* Proofs about a worker that goes through a dictionary: its exit code and *)
(* its counter can be trusted for every dictionary, every job and any      *)
(* failures; each word of the chunk is begun once; and each is put through *)
(* all the stages, mutations and pairs of the job before the next one is   *)
(* read.  For the last there are first the facts about the generators of   *)
(* pairs, masks and words, then the two kinds of steps of pwddict_next(),  *)
(* then the word as a whole, then the chunk.                               *)
(***************************************************************************)
EXTENDS WorkerDict, TimerProofs

LEMMA OneMoreOnce ==
  ASSUME NEW n \in Nat
  PROVE  OneMore(n) \in Nat /\ (OneMore(n) < MaxPwds => OneMore(n) = n + 1 /\ n < MaxPwds)
BY TimerAssumption DEF OneMore, TimerAssumption

-----------------------------------------------------------------------------
(***************************************************************************)
(* What a call of the generator leaves alone, and what its result says:    *)
(* of the clock and the counter it changes at most what a check changes.   *)
(***************************************************************************)
OnlyChecked == CheckTime \/ UNCHANGED timerVars

ResultOf(rc) ==
  /\ rc \in {PWD_OK, 1, PWD_TIMEOUT, CRASH}
  /\ rc = PWD_TIMEOUT => timedOut'
  /\ OnlyChecked

LEMMA ReadWordFacts ==
  ASSUME NEW rc, pwddict_nextword(rc)
  PROVE  ResultOf(rc)
<1>1. CheckTime
  BY DEF pwddict_nextword
<1>2. CASE timedOut' /\ rc = PWD_TIMEOUT
  BY <1>1, <1>2 DEF ResultOf, OnlyChecked
<1>3. CASE rc = 1
  BY <1>1, <1>3 DEF ResultOf, OnlyChecked, PWD_TIMEOUT
<1>4. CASE ReadLine(rc)
  <2>1. rc \in {0, 1, CRASH}
    BY <1>4 DEF ReadLine
  <2> QED BY <1>1, <2>1 DEF ResultOf, OnlyChecked, PWD_OK, PWD_TIMEOUT, CRASH
<1> QED BY <1>2, <1>3, <1>4 DEF pwddict_nextword

LEMMA TryNextFacts ==
  ASSUME NEW todo, NEW mask, NEW rc, pwddict_trynext(todo, mask, rc)
  PROVE  ResultOf(rc)
<1>1. CASE rc = 0 /\ UNCHANGED timerVars
  BY <1>1 DEF ResultOf, OnlyChecked, PWD_OK, PWD_TIMEOUT
<1>2. CASE NextWord(rc)
  BY <1>2, ReadWordFacts DEF NextWord
<1> QED BY <1>1, <1>2 DEF pwddict_trynext, NextMutation, NextStage

LEMMA NextFacts ==
  ASSUME NEW rc, pwddict_next(rc)
  PROVE  ResultOf(rc)
<1>1. CASE rc = 0 /\ UNCHANGED timerVars
  BY <1>1 DEF ResultOf, OnlyChecked, PWD_OK, PWD_TIMEOUT
<1>2. CASE AddPair(rc)
  <2>1. \/ rc = 0 /\ UNCHANGED timerVars
        \/ pwddict_trynext(done_mutations, cur_mutation, rc)
    BY <1>2 DEF AddPair
  <2> QED BY <1>1, <2>1, TryNextFacts
<1>3. CASE NextVariant(rc)
  <2>1. \/ rc = 0 /\ UNCHANGED timerVars
        \/ \E todo, mask : pwddict_trynext(todo, mask, rc)
    BY <1>3 DEF NextVariant
  <2> QED BY <1>1, <2>1, TryNextFacts
<1> QED BY <1>2, <1>3 DEF pwddict_next

-----------------------------------------------------------------------------
(***************************************************************************)
(* The counter.  A check moves pwds_done to pwds; the sum follows the      *)
(* calls until one of them sets pwd->error, which ends the loop.           *)
(***************************************************************************)
SumRight == ~error /\ calls < MaxPwds => pwds + pwds_done = calls + 1

TallyInv == TimerTypeOK /\ calls \in Nat /\ SumRight

LEMMA CheckTally ==
  ASSUME TallyInv, OnlyChecked, UNCHANGED calls, error' = error
  PROVE  TallyInv'
<1>1. CASE UNCHANGED timerVars
  BY <1>1 DEF TallyInv, SumRight, TimerTypeOK, timerVars, clockVars, checkVars, countVars
<1>2. CASE CheckTime /\ pwds_done > max_pwds
  <2>1. pwds' = AddUp(pwds_done) /\ pwds_done' = 0 /\ pwdgen_time_check /\ UNCHANGED clockVars
    BY <1>2 DEF CheckTime
  <2>2. /\ pwds \in Nat /\ pwds_done \in Nat /\ MaxPwds \in Nat /\ calls \in Nat
        /\ now \in Int /\ real \in Nat /\ warps \in 0 .. MaxWarps
    BY TimerAssumption DEF TallyInv, TimerTypeOK, TimerAssumption
  <2>3. pwds' \in Nat
    BY <2>1, <2>2, AddUpType DEF TallyInv
  <2>4. TimerTypeOK'
    BY <2>1, <2>2, <2>3, CheckTypes DEF TallyInv, TimerTypeOK, clockVars
  <2>5. SumRight'
    BY <2>1, <2>2 DEF TallyInv, SumRight, AddUp
  <2> QED BY <2>2, <2>4, <2>5 DEF TallyInv
<1> QED BY <1>1, <1>2 DEF OnlyChecked, CheckTime

LEMMA SameTally ==
  ASSUME TallyInv, UNCHANGED <<timerVars, calls>>, error' = error
  PROVE  TallyInv'
BY CheckTally DEF OnlyChecked

(***************************************************************************)
(* The exit code.  Between two rounds the target was not given yet; the    *)
(* sum of the two results says whether it was in the last one and why the  *)
(* loop was left.  A password that is skipped adds nothing.                *)
(***************************************************************************)
Before == {"init", "skip", "ready", "loop"}

WordInv ==
  /\ TallyInv
  /\ phase \in Before \union {"made"} => error = FALSE /\ target \notin given
  /\ phase = "made" => found \in {0, 1, 4} /\ (found = 4 => timedOut)
  /\ phase = "end" =>
       /\ found \in {1, 2, 3, 4, 6, 7, 8, 11}
       /\ found < PWD_ERROR => (target \in given <=> found \in {2, 3, 6})
       /\ found \in {4, 6} => timedOut
  /\ phase # "exited" => exitcode = -1
  /\ exitcode \in {-1, 0, 1, 2, PWD_ERROR}
  /\ exitcode = 0 => target \notin given
  /\ exitcode = 1 => target \in given
  /\ exitcode = 2 => timedOut /\ target \notin given

LEMMA WordsOfInit == WorkerDictInit => WordInv
<1> SUFFICES ASSUME WorkerDictInit PROVE WordInv
  OBVIOUS
<1>1. /\ TimerInit /\ phase = "init" /\ error = FALSE /\ exitcode = -1
      /\ given = {} /\ calls = 0
  BY DEF WorkerDictInit, EndInit
<1>2. TallyInv
  BY <1>1, InitTypes DEF TallyInv, SumRight, TimerInit, TimerInitWith
<1> QED BY <1>1, <1>2 DEF WordInv, Before

\* A step that does not call dofunction(): to another phase before the end,
\* or into the arms of GiveUp.
LEMMA WordsKept ==
  ASSUME WordInv, TallyInv', phase \in Before, phase' \in Before \union {"crashed"},
         UNCHANGED <<target, given, exitcode, error>>
  PROVE  WordInv'
BY DEF WordInv, Before

LEMMA WordsGivenUp ==
  ASSUME WordInv, TallyInv', phase \in Before, GiveUp, UNCHANGED given
  PROVE  WordInv'
<1>1. /\ phase' = "exited" /\ exitcode' = PWD_ERROR
      /\ UNCHANGED <<target, found, error>>
  BY DEF GiveUp
<1> QED BY <1>1 DEF WordInv, Before, PWD_ERROR

LEMMA WordsOfSearch ==
  ASSUME WordInv, Seek \/ Skip
  PROVE  WordInv'
<1>1. PICK rc : /\ NextLine(rc)
                /\ \/ phase' \in Before \union {"crashed"}
                      /\ UNCHANGED <<target, found, error, exitcode>>
                   \/ GiveUp
  BY DEF Seek, Skip, FirstStage, GoOnIn, NotFound, Before
<1>2. phase \in Before
  BY DEF Seek, Skip, Before
<1>3. CheckTime /\ UNCHANGED <<given, calls>>
  BY <1>1 DEF NextLine, pwddict_nextword
<1>4. TallyInv'
  BY <1>1, <1>3, CheckTally DEF WordInv, OnlyChecked, GiveUp
<1> QED BY <1>1, <1>2, <1>3, <1>4, WordsKept, WordsGivenUp

LEMMA WordsOfMake ==
  ASSUME WordInv, MakeWord
  PROVE  WordInv'
<1>1. PICK rc \in {PWD_OK, 1, PWD_TIMEOUT, CRASH} :
        /\ pwddict_next(rc)
        /\ IF rc = CRASH THEN phase' = "crashed" /\ UNCHANGED found
                         ELSE phase' = "made" /\ found' = rc
  BY DEF MakeWord
<1>2. phase = "loop" /\ UNCHANGED <<target, error, exitcode, given, calls>>
  BY DEF MakeWord
<1>3. ResultOf(rc)
  BY <1>1, NextFacts
<1>4. TallyInv'
  BY <1>2, <1>3, CheckTally DEF WordInv, ResultOf
<1>5. CASE rc = CRASH
  BY <1>1, <1>2, <1>4, <1>5, WordsKept DEF Before
<1>6. CASE rc # CRASH
  <2>1. phase' = "made" /\ found' \in {0, 1, 4} /\ (found' = 4 => timedOut')
    BY <1>1, <1>3, <1>6 DEF ResultOf, PWD_OK, PWD_TIMEOUT
  <2> QED BY <1>2, <1>4, <2>1 DEF WordInv, Before
<1> QED BY <1>5, <1>6

LEMMA WordsOfCheck ==
  ASSUME WordInv, Check
  PROVE  WordInv'
<1>1. /\ phase = "made" /\ exitcode' = exitcode /\ target' = target
      /\ UNCHANGED <<clockVars, checkVars, pwds>>
  BY DEF Check, Collect
<1>2. /\ error = FALSE /\ target \notin given /\ exitcode = -1
      /\ found \in {0, 1, 4} /\ (found = 4 => timedOut)
      /\ timedOut' = timedOut
  BY <1>1 DEF WordInv, checkVars
<1>3. ASSUME NEW r \in Results, dofunction(r), Collect(Added(found, r)),
             pwds_done' = IF error' THEN pwds_done ELSE pwds_done + 1
      PROVE  WordInv'
  <2>1. calls' = OneMore(calls) /\ given' = given \union {pwd}
    BY <1>3 DEF dofunction
  <2>2. TallyInv'
    <3>1. TimerTypeOK /\ calls \in Nat /\ SumRight /\ pwds \in Nat /\ pwds_done \in Nat
      BY DEF WordInv, TallyInv, TimerTypeOK
    <3>2. pwds_done' \in Nat /\ UNCHANGED <<clockVars, checkVars, pwds>>
      BY <1>1, <1>3, <3>1
    <3>3. TimerTypeOK'
      BY <3>1, <3>2 DEF TimerTypeOK, clockVars, checkVars
    <3>4. calls' \in Nat /\ (calls' < MaxPwds => calls' = calls + 1 /\ calls < MaxPwds)
      BY <2>1, <3>1, OneMoreOnce
    <3>5. SumRight'
      BY <1>1, <1>2, <1>3, <3>1, <3>4 DEF SumRight
    <3> QED BY <3>3, <3>4, <3>5 DEF TallyInv
  <2>3. CASE error'
    <3>1. found' = PWD_ERROR /\ phase' = "end"
      BY <1>3, <2>3 DEF Collect, PWD_ERROR
    <3> QED BY <1>1, <1>2, <2>2, <3>1 DEF WordInv, Before, PWD_ERROR
  <2>4. CASE r = PWD_ERROR /\ ~error'
    <3>1. found' \in {7, 8, 11} /\ phase' = "end"
      BY <1>2, <1>3, <2>4 DEF Collect, Added, PWD_ERROR
    <3> QED BY <1>1, <1>2, <2>2, <3>1 DEF WordInv, Before, PWD_ERROR
  <2>5. CASE r # PWD_ERROR /\ ~error'
    <3>1. r = (IF pwd = target THEN PWD_SUCCESS ELSE PWD_FAIL) /\ error' = error
      BY <1>3, <2>5 DEF dofunction
    <3>2. found' = found + r /\ phase' = (IF found' = 0 THEN "loop" ELSE "end")
      BY <1>3, <2>5 DEF Collect, Added
    <3>3. target' \in given' <=> r = 2
      BY <1>1, <1>2, <2>1, <3>1 DEF PWD_SUCCESS, PWD_FAIL
    <3>4. r \in {0, 2}
      BY <3>1 DEF PWD_SUCCESS, PWD_FAIL
    <3>5. /\ found' \in {0, 1, 2, 3, 4, 6}
          /\ r = 2 <=> found' \in {2, 3, 6}
          /\ found' \in {4, 6} => found = 4
      BY <1>2, <3>2, <3>4
    <3> QED BY <1>1, <1>2, <2>2, <3>1, <3>2, <3>3, <3>5 DEF WordInv, Before, PWD_ERROR
  <2> QED BY <2>3, <2>4, <2>5
<1>4. ASSUME Collect(found), UNCHANGED <<error, given, calls, pwds_done>>
      PROVE  WordInv'
  <2>1. TallyInv'
    BY <1>1, <1>4, SameTally DEF WordInv, timerVars, countVars
  <2>2. found' = found /\ phase' = (IF found' = 0 THEN "loop" ELSE "end")
    BY <1>2, <1>4 DEF Collect
  <2> QED BY <1>1, <1>2, <1>4, <2>1, <2>2 DEF WordInv, Before, PWD_ERROR
<1> QED BY <1>3, <1>4 DEF Check

LEMMA WordsOfFinish ==
  ASSUME WordInv, Finish
  PROVE  WordInv'
<1>1. /\ phase = "end" /\ Exit(found) /\ UNCHANGED <<error, given, calls>>
      /\ phase' = "exited" /\ found' = found /\ target' = target
  BY DEF Finish, Exit, doneVars
<1>2. /\ found \in {1, 2, 3, 4, 6, 7, 8, 11}
      /\ found < PWD_ERROR => (target \in given <=> found \in {2, 3, 6})
      /\ found \in {4, 6} => timedOut
  BY <1>1 DEF WordInv
<1>3. CASE exitcode' = PWD_ERROR /\ UNCHANGED timerVars
  <2>1. TallyInv'
    BY <1>1, <1>3, SameTally DEF WordInv
  <2> QED BY <1>1, <1>3, <2>1 DEF WordInv, Before, PWD_ERROR
<1>4. CASE found < PWD_ERROR /\ exitcode' = ExitCode(found) /\ pwdgen_stop
  <2>1. /\ pwds' = AddUp(pwds_done) /\ pwds_done' = 0 /\ took' = now - tstart
        /\ UNCHANGED <<clockVars, tstart, tlast, tlast_report, report_status, max_pwds, timedOut>>
    BY <1>4 DEF pwdgen_stop
  <2>2. /\ TimerTypeOK /\ calls \in Nat /\ SumRight /\ pwds \in Nat /\ pwds_done \in Nat
        /\ now \in Int /\ tstart \in Int /\ MaxPwds \in Nat
    BY TimerAssumption DEF WordInv, TallyInv, TimerTypeOK, TimerAssumption
  <2>3. pwds' \in Nat /\ took' \in Int
    BY <2>1, <2>2, AddUpType
  <2>4. TimerTypeOK'
    BY <2>1, <2>2, <2>3 DEF TimerTypeOK, clockVars
  <2>5. SumRight'
    BY <1>1, <2>1, <2>2 DEF SumRight, AddUp
  <2>6. TallyInv'
    BY <1>1, <2>2, <2>4, <2>5 DEF TallyInv
  <2>7. /\ found = 1 => exitcode' = 0
        /\ found \in {2, 3, 6} => exitcode' = 1
        /\ found = 4 => exitcode' = 2
        /\ found \in {1, 2, 3, 4, 6}
    BY <1>2, <1>4 DEF ExitCode, PWD_ERROR
  <2> QED BY <1>1, <1>2, <1>4, <2>1, <2>6, <2>7 DEF WordInv, Before, PWD_ERROR
<1> QED BY <1>1, <1>3, <1>4 DEF Exit

LEMMA WordsOfTime ==
  ASSUME WordInv, PassTime
  PROVE  WordInv'
<1>1. (Tick \/ SetBack) /\ UNCHANGED <<target, phase, found, error, exitcode, given, calls>>
  BY DEF PassTime, ClockTicks, mainVars, doneVars
<1>2. UNCHANGED <<pwds, pwds_done, timedOut>>
  BY <1>1 DEF Tick, SetBack, countVars, checkVars
<1>3. TallyInv'
  BY <1>1, <1>2, EnvironmentTypes DEF WordInv, TallyInv, SumRight
<1> QED BY <1>1, <1>2, <1>3 DEF WordInv, Before

LEMMA WordInduction == WorkerDictSpec => []WordInv
<1>1. WordInv /\ [WorkerDictNext]_workerDictVars => WordInv'
  <2> SUFFICES ASSUME WordInv, [WorkerDictNext]_workerDictVars PROVE WordInv'
    OBVIOUS
  <2>1. CASE Seek \/ Skip
    BY <2>1, WordsOfSearch
  <2>2. CASE Start
    <3>1. TallyInv'
      BY <2>2, SameTally DEF Start, WordInv, doneVars
    <3> QED BY <2>2, <3>1, WordsKept DEF Start, Before, doneVars
  <2>3. CASE Abort
    <3>1. TallyInv'
      BY <2>3, SameTally DEF Abort, GiveUp, WordInv, doneVars
    <3> QED BY <2>3, <3>1, WordsGivenUp DEF Abort, Before, doneVars
  <2>4. CASE MakeWord
    BY <2>4, WordsOfMake
  <2>5. CASE Check
    BY <2>5, WordsOfCheck
  <2>6. CASE Finish
    BY <2>6, WordsOfFinish
  <2>7. CASE PassTime
    BY <2>7, WordsOfTime
  <2>8. CASE UNCHANGED workerDictVars
    <3>1. /\ UNCHANGED <<timerVars, calls, given, target, phase, found, error, exitcode>>
          /\ timedOut' = timedOut
      BY <2>8 DEF workerDictVars, mainVars, doneVars, timerVars, checkVars
    <3>2. TallyInv'
      BY <3>1, SameTally DEF WordInv
    <3> QED BY <3>1, <3>2 DEF WordInv, Before
  <2> QED BY <2>1, <2>2, <2>3, <2>4, <2>5, <2>6, <2>7, <2>8 DEF WorkerDictNext, Work
<1> QED BY <1>1, WordsOfInit, PTL DEF WorkerDictSpec

\* A worker that goes through a dictionary reports what it found: "in vain" only
\* if the target was none of the passwords it gave, "found" only if it was one,
\* "timeout" only after a timeout, and as many passwords as it gave, and one.
THEOREM DictCodeTrusted == WorkerDictSpec => []DictStopCode
<1>1. WordInv => DictStopCode
  BY DEF WordInv, TallyInv, SumRight, DictStopCode
<1> QED BY <1>1, WordInduction, PTL

-----------------------------------------------------------------------------
(***************************************************************************)
(* The place in the file.  The end of the file is met with the last line,  *)
(* or, when a newline follows that one, by a read that brings nothing.     *)
(***************************************************************************)
Place ==
  /\ job \in Jobs
  /\ dict_line \in job.ofs .. Len(job.words)
  /\ dict_eof => dict_line = Len(job.words)
  /\ dict_line > job.ofs /\ dict_line = Len(job.words) /\ ~job.newline => dict_eof

LEMMA JobFacts ==
  ASSUME job \in Jobs
  PROVE  /\ Len(job.words) \in Nat /\ job.ofs \in Nat /\ job.ofs <= Len(job.words)
         /\ IndicesOf(job.start) \subseteq Nat
BY DictAssumption DEF DictAssumption, IndicesOf, Lines

LEMMA SameJob ==
  ASSUME job' = job
  PROVE  FirstDue' = FirstDue /\ IndicesOf(job.start)' = IndicesOf(job.start)
BY DEF FirstDue, IndicesOf, Lines

\* What a read does: it brings the next line, or meets the end.
NewLine ==
  /\ dict_line < Len(job.words)
  /\ dict_line' = dict_line + 1
  /\ org_word' = job.words[dict_line + 1]
  /\ ~LastLineAgain'

EndMet ==
  /\ dict_line = Len(job.words)
  /\ dict_line' = dict_line
  /\ org_word' = org_word
  /\ dict_eof'

LEMMA PlaceFacts ==
  ASSUME Place
  PROVE  /\ dict_line \in Nat /\ job.ofs \in Nat /\ Len(job.words) \in Nat
         /\ job.ofs <= dict_line /\ dict_line <= Len(job.words)
BY JobFacts DEF Place

LEMMA ReadFacts ==
  ASSUME Place, NEW rc, ReadLine(rc), job' = job
  PROVE  Place' /\ (NewLine \/ EndMet) /\ (rc = 0 => org_word' # << >>)
<1>1. /\ dict_line \in Nat /\ job.ofs \in Nat /\ Len(job.words) \in Nat
      /\ job.ofs <= dict_line /\ dict_line <= Len(job.words)
  BY PlaceFacts
<1>2. rc = 0 => org_word' # << >>
  BY DEF ReadLine, CRASH
<1>3. CASE dict_line < Len(job.words)
  <2>1. /\ dict_line' = dict_line + 1
        /\ org_word' = job.words[dict_line + 1]
        /\ dict_eof' = (~job.newline /\ dict_line' = Len(job.words))
    BY <1>3 DEF ReadLine
  <2>2. NewLine
    BY <1>3, <2>1 DEF NewLine, LastLineAgain
  <2>3. job' \in Jobs /\ dict_line' \in job'.ofs .. Len(job'.words)
    BY <1>1, <1>3, <2>1 DEF Place
  <2>4. Place'
    BY <2>1, <2>3 DEF Place
  <2> QED BY <1>2, <2>2, <2>4
<1>4. CASE dict_line = Len(job.words)
  <2>1. ~(dict_line < Len(job.words))
    BY <1>1, <1>4
  <2>2. dict_line' = dict_line /\ org_word' = org_word /\ dict_eof' = TRUE
    BY <2>1 DEF ReadLine
  <2>3. EndMet
    BY <1>4, <2>2 DEF EndMet
  <2>4. Place'
    BY <1>4, <2>2 DEF Place
  <2> QED BY <1>2, <2>3, <2>4
<1> QED BY <1>1, <1>3, <1>4

\* A word that is asked for is read, or nothing is, as the time is up or the chunk.
LEMMA AskFacts ==
  ASSUME Place, NEW rc, pwddict_nextword(rc), job' = job
  PROVE  /\ Place'
         /\ \/ rc # 0 /\ UNCHANGED fileVars
            \/ ~dict_eof /\ (NewLine \/ EndMet) /\ (rc = 0 => org_word' # << >>)
<1>1. CASE rc # 0 /\ UNCHANGED fileVars
  BY <1>1 DEF Place, fileVars
<1>2. CASE ~NoMoreWords /\ ReadLine(rc)
  BY <1>2, ReadFacts DEF NoMoreWords
<1>3. PWD_TIMEOUT # 0
  BY DEF PWD_TIMEOUT
<1> QED BY <1>1, <1>2, <1>3 DEF pwddict_nextword

LEMMA SamePlace ==
  ASSUME Place, UNCHANGED <<job, fileVars>>
  PROVE  Place' /\ (LastLineAgain <=> LastLineAgain') /\ dict_line' = dict_line /\ org_word' = org_word
BY DEF Place, fileVars, LastLineAgain

-----------------------------------------------------------------------------
(***************************************************************************)
(* Each word once.  Until the start word is met it is among no line read;  *)
(* from the first word that is due the rounds and the lines go together.   *)
(***************************************************************************)
Again == IF LastLineAgain THEN 1 ELSE 0

Reached == dict_line + Again

Searching ==
  /\ rounds = 0
  /\ \A i \in IndicesOf(job.start) : i > dict_line
  /\ job.start = << >> => dict_line = job.ofs
  /\ dict_line = job.ofs => org_word = << >>
  /\ org_word = job.start => job.start = << >>

StartSkipped ==
  /\ rounds = 0
  /\ FirstDue \in Int /\ FirstDue = dict_line + 1
  /\ dict_line > job.ofs
  /\ ~LastLineAgain

InStep ==
  /\ rounds \in Nat \ {0}
  /\ FirstDue \in Int
  /\ dict_line > job.ofs
  /\ rounds + FirstDue = Reached + 1

OnceInv ==
  /\ Place
  /\ phase = "init" => Searching
  /\ phase = "skip" => StartSkipped
  /\ phase \in {"ready", "loop", "made", "end"} => InStep
  /\ phase \in {"init", "skip", "ready", "loop", "made", "end", "exited", "crashed"}
  /\ phase = "exited" => rounds = 0 \/ InStep

LEMMA LeastIndex ==
  ASSUME NEW n \in Nat, NEW S \in SUBSET Nat, n \in S, \A i \in S : i >= n
  PROVE  Min(S) = n
<1>1. \A y \in S : n <= y
  OBVIOUS
<1>2. \A x \in S : (\A y \in S : x <= y) => x = n
  BY <1>1
<1> QED BY <1>1, <1>2 DEF Min

\* The line that has just been read is the first that is the start word.
LEMMA StartLine ==
  ASSUME Place, Searching, ~dict_eof, NewLine \/ EndMet, org_word' # << >>, job' = job,
         StartFound
  PROVE  /\ NewLine
         /\ job.start = << >> => FirstDue = dict_line'
         /\ job.start # << >> =>
              FirstDue = (IF dict_line' = 1 THEN 1 ELSE dict_line' + 1)
<1>1. /\ dict_line \in Nat /\ job.ofs \in Nat /\ Len(job.words) \in Nat
      /\ job.ofs <= dict_line /\ dict_line <= Len(job.words)
  BY PlaceFacts
<1>2. NewLine
  <2>1. ASSUME EndMet PROVE FALSE
    <3>1. org_word # << >> /\ job.start \in {<< >>, org_word}
      BY <2>1 DEF EndMet, StartFound
    <3> QED BY <3>1 DEF Searching
  <2> QED BY <2>1
<1>3. ASSUME job.start # << >>
      PROVE  FirstDue = (IF dict_line' = 1 THEN 1 ELSE dict_line' + 1)
  <2>1. job.words[dict_line + 1] = job.start /\ dict_line' = dict_line + 1
    BY <1>2, <1>3 DEF StartFound, NewLine
  <2>2. dict_line + 1 \in IndicesOf(job.start)
    BY <1>1, <1>2, <2>1 DEF IndicesOf, Lines, NewLine
  <2>3. \A i \in IndicesOf(job.start) : i >= dict_line + 1
    BY <1>1, JobFacts DEF Searching, Place
  <2>4. Min(IndicesOf(job.start)) = dict_line + 1
    BY <1>1, <2>2, <2>3, LeastIndex, JobFacts DEF Place
  <2> QED BY <1>3, <2>1, <2>4 DEF FirstDue
<1>4. ASSUME job.start = << >> PROVE FirstDue = dict_line'
  BY <1>2, <1>4 DEF FirstDue, Searching, NewLine
<1> QED BY <1>2, <1>3, <1>4

LEMMA OnceOfSeek ==
  ASSUME OnceInv, Seek
  PROVE  OnceInv'
<1>1. phase = "init" /\ Place /\ Searching
  BY DEF Seek, OnceInv
<1>2. PICK rc : /\ NextLine(rc)
                /\ \/ rc = 0 /\ StartFound /\ ~MustSkip /\ FirstStage
                   \/ rc = 0 /\ StartFound /\ MustSkip /\ GoOnIn("skip")
                   \/ rc = 0 /\ ~StartFound /\ GoOnIn("init")
                   \/ rc = 1 /\ NotFound
                   \/ GoOnIn("crashed")
  BY DEF Seek
<1>3. pwddict_nextword(rc) /\ job' = job
  BY <1>2 DEF NextLine
<1>4. /\ Place'
      /\ \/ rc # 0 /\ UNCHANGED fileVars
         \/ ~dict_eof /\ (NewLine \/ EndMet) /\ (rc = 0 => org_word' # << >>)
  BY <1>1, <1>3, AskFacts
<1>5. FirstDue' = FirstDue /\ IndicesOf(job.start)' = IndicesOf(job.start)
  BY <1>3, SameJob
<1>6. /\ dict_line \in Nat /\ job.ofs \in Nat /\ Len(job.words) \in Nat
      /\ job.ofs <= dict_line /\ dict_line <= Len(job.words)
  BY <1>1, PlaceFacts
<1>7. CASE rc = 0 /\ StartFound
  <2>1. /\ NewLine
        /\ job.start = << >> => FirstDue = dict_line'
        /\ job.start # << >> => FirstDue = (IF dict_line' = 1 THEN 1 ELSE dict_line' + 1)
    BY <1>1, <1>3, <1>4, <1>7, StartLine
  <2>2. dict_line' = dict_line + 1 /\ ~LastLineAgain'
    BY <2>1 DEF NewLine
  <2>3. CASE ~MustSkip /\ FirstStage
    <3>1. FirstDue' = dict_line' /\ rounds' = 1 /\ phase' = "ready"
      BY <1>1, <1>5, <1>6, <2>1, <2>2, <2>3 DEF MustSkip, FirstStage, Searching
    <3>2. InStep'
      BY <1>3, <1>6, <2>2, <3>1 DEF InStep, Reached, Again
    <3> QED BY <1>4, <3>1, <3>2 DEF OnceInv
  <2>4. CASE MustSkip /\ GoOnIn("skip")
    <3>1. FirstDue' = dict_line' + 1 /\ rounds' = 0 /\ phase' = "skip"
      BY <1>1, <1>5, <1>6, <2>1, <2>2, <2>4 DEF MustSkip, GoOnIn, Searching
    <3>2. StartSkipped'
      BY <1>3, <1>6, <2>2, <3>1 DEF StartSkipped
    <3> QED BY <1>4, <3>1, <3>2 DEF OnceInv
  <2>5. CASE GoOnIn("crashed")
    BY <1>4, <2>5 DEF OnceInv, GoOnIn
  <2> QED BY <1>2, <1>7, <2>3, <2>4, <2>5
<1>8. CASE rc = 0 /\ ~StartFound /\ GoOnIn("init")
  <2>1. ~dict_eof /\ (NewLine \/ EndMet) /\ job.start # << >> /\ org_word' # job.start
    BY <1>4, <1>8 DEF StartFound
  <2>2. ASSUME NEW i \in IndicesOf(job.start) PROVE i > dict_line'
    <3>1. i > dict_line /\ i \in Nat /\ job.words[i] = job.start
      BY <1>1, <2>2, JobFacts DEF Searching, Place, IndicesOf
    <3>2. i <= Len(job.words)
      BY <1>6, <2>2 DEF IndicesOf, Lines
    <3>3. CASE NewLine
      BY <1>6, <2>1, <3>1, <3>3 DEF NewLine
    <3>4. CASE EndMet
      BY <1>6, <3>1, <3>2, <3>4 DEF EndMet
    <3> QED BY <2>1, <3>3, <3>4
  <2>3. dict_line' = job'.ofs => org_word' = << >>
    BY <1>1, <1>3, <1>6, <2>1 DEF NewLine, EndMet, Searching
  <2>4. Searching'
    BY <1>1, <1>3, <1>5, <1>8, <2>1, <2>2, <2>3 DEF Searching, GoOnIn
  <2> QED BY <1>4, <1>8, <2>4 DEF OnceInv, GoOnIn
<1>9. CASE NotFound
  BY <1>1, <1>4, <1>9 DEF OnceInv, NotFound, GiveUp, Searching
<1>10. CASE GoOnIn("crashed")
  BY <1>4, <1>10 DEF OnceInv, GoOnIn
<1> QED BY <1>2, <1>7, <1>8, <1>9, <1>10

\* A line that was read, or the end that was met after a last line with a newline.
LEMMA OneRound ==
  ASSUME Place, Place', ~dict_eof, NewLine \/ EndMet, job' = job, dict_line > job.ofs
  PROVE  /\ ~LastLineAgain
         /\ dict_line' > job.ofs /\ dict_line' \in Nat
         /\ Reached = dict_line /\ Reached' = dict_line + 1
<1>1. dict_line \in Nat /\ job.ofs \in Nat
  BY PlaceFacts
<1>2. ~LastLineAgain
  BY DEF LastLineAgain
<1>3. CASE NewLine
  BY <1>1, <1>2, <1>3 DEF NewLine, Reached, Again
<1>4. CASE EndMet
  <2>1. job.newline
    BY <1>4 DEF Place, EndMet
  <2>2. LastLineAgain'
    BY <1>4, <2>1 DEF LastLineAgain, EndMet
  <2> QED BY <1>1, <1>2, <1>4, <2>2 DEF EndMet, Reached, Again
<1> QED BY <1>3, <1>4

LEMMA OnceOfSkip ==
  ASSUME OnceInv, Skip
  PROVE  OnceInv'
<1>1. phase = "skip" /\ Place /\ StartSkipped
  BY DEF Skip, OnceInv
<1>2. PICK rc : /\ NextLine(rc)
                /\ \/ rc = 0 /\ FirstStage
                   \/ rc = 1 /\ NotFound
                   \/ GoOnIn("crashed")
  BY DEF Skip
<1>3. pwddict_nextword(rc) /\ job' = job /\ FirstDue' = FirstDue
  BY <1>2, SameJob DEF NextLine
<1>4. /\ Place'
      /\ \/ rc # 0 /\ UNCHANGED fileVars
         \/ ~dict_eof /\ (NewLine \/ EndMet) /\ (rc = 0 => org_word' # << >>)
  BY <1>1, <1>3, AskFacts
<1>5. CASE rc = 0 /\ FirstStage
  <2>1. /\ dict_line' > job.ofs /\ dict_line' \in Nat
        /\ Reached' = dict_line + 1
    BY <1>1, <1>3, <1>4, <1>5, OneRound DEF StartSkipped
  <2>2. rounds' = 1 /\ phase' = "ready"
    BY <1>1, <1>5 DEF FirstStage, StartSkipped
  <2>3. FirstDue \in Int /\ FirstDue = dict_line + 1
    BY <1>1 DEF StartSkipped
  <2>4. InStep'
    BY <1>3, <2>1, <2>2, <2>3 DEF InStep
  <2> QED BY <1>4, <2>2, <2>4 DEF OnceInv
<1>6. CASE NotFound
  BY <1>1, <1>4, <1>6 DEF OnceInv, NotFound, GiveUp, StartSkipped
<1>7. CASE GoOnIn("crashed")
  BY <1>4, <1>7 DEF OnceInv, GoOnIn
<1> QED BY <1>2, <1>5, <1>6, <1>7

\* A call of the generator reads a word when the last stage is done, or not at all.
LEMMA TryNextReads ==
  ASSUME NEW todo, NEW mask, NEW rc, pwddict_trynext(todo, mask, rc)
  PROVE  UNCHANGED fileVars \/ (done_stages = {} /\ pwddict_nextword(rc))
BY DEF pwddict_trynext, NextMutation, NextStage, NextWord

LEMMA NextReads ==
  ASSUME NEW rc, pwddict_next(rc)
  PROVE  UNCHANGED fileVars \/ (done_stages = {} /\ pwddict_nextword(rc))
<1>1. CASE AddPair(rc)
  <2>1. UNCHANGED fileVars \/ pwddict_trynext(done_mutations, cur_mutation, rc)
    BY <1>1 DEF AddPair
  <2> QED BY <2>1, TryNextReads
<1>2. CASE NextVariant(rc)
  <2>1. UNCHANGED fileVars \/ \E todo, mask : pwddict_trynext(todo, mask, rc)
    BY <1>2 DEF NextVariant
  <2> QED BY <2>1, TryNextReads
<1> QED BY <1>1, <1>2 DEF pwddict_next

LEMMA OnceOfMake ==
  ASSUME OnceInv, MakeWord
  PROVE  OnceInv'
<1>1. /\ phase = "loop" /\ Place /\ InStep
      /\ phase' \in {"made", "crashed"}
      /\ rounds' = (IF done_stages = {} /\ fileVars' # fileVars THEN rounds + 1 ELSE rounds)
  BY DEF MakeWord, OnceInv
<1>2. PICK rc : pwddict_next(rc)
  BY DEF MakeWord
<1>3. job' = job /\ FirstDue' = FirstDue
  BY <1>2, SameJob DEF pwddict_next
<1>4. CASE UNCHANGED fileVars
  <2>1. Place' /\ (LastLineAgain <=> LastLineAgain') /\ dict_line' = dict_line /\ rounds' = rounds
    BY <1>1, <1>3, <1>4, SamePlace
  <2>2. Reached' = Reached
    BY <2>1 DEF Reached, Again
  <2>3. InStep'
    BY <1>1, <1>3, <2>1, <2>2 DEF InStep
  <2> QED BY <1>1, <2>1, <2>3 DEF OnceInv
<1>5. CASE fileVars' # fileVars /\ done_stages = {} /\ pwddict_nextword(rc)
  <2>1. Place' /\ ~dict_eof /\ (NewLine \/ EndMet) /\ rounds' = rounds + 1
    BY <1>1, <1>3, <1>5, AskFacts
  <2>2. /\ ~LastLineAgain
        /\ dict_line' > job.ofs /\ dict_line' \in Nat
        /\ Reached = dict_line /\ Reached' = dict_line + 1
    BY <1>1, <1>3, <2>1, OneRound DEF InStep
  <2>3. /\ Reached \in Int /\ Reached' \in Int /\ Reached' = Reached + 1
        /\ rounds \in Nat \ {0} /\ rounds \in Int /\ FirstDue \in Int
        /\ rounds + FirstDue = Reached + 1
    BY <1>1, <2>2, PlaceFacts DEF InStep
  <2>4. rounds' = rounds + 1 /\ FirstDue' = FirstDue /\ dict_line' > job'.ofs
    BY <1>3, <2>1, <2>2
  <2>5. rounds' \in Nat \ {0} /\ rounds' \in Int /\ FirstDue' \in Int
    BY <2>3, <2>4
  <2>6. rounds' + FirstDue' = Reached' + 1
    BY <2>3, <2>4, <2>5
  <2>7. InStep'
    BY <2>4, <2>5, <2>6 DEF InStep
  <2> QED BY <1>1, <2>1, <2>7 DEF OnceInv
<1> QED BY <1>2, <1>4, <1>5, NextReads

LEMMA OnceElsewhere ==
  ASSUME OnceInv, UNCHANGED <<job, fileVars, rounds>>,
         \/ phase' = phase
         \/ phase \in {"ready", "loop", "made", "end"} /\ phase' \in {"loop", "end", "exited"}
  PROVE  OnceInv'
<1>1. /\ Place' /\ (LastLineAgain <=> LastLineAgain') /\ dict_line' = dict_line /\ org_word' = org_word
      /\ FirstDue' = FirstDue /\ IndicesOf(job.start)' = IndicesOf(job.start)
  BY SamePlace, SameJob DEF OnceInv
<1>2. Reached' = Reached
  BY <1>1 DEF Reached, Again
<1>3. InStep => InStep'
  BY <1>1, <1>2 DEF InStep
<1>4. (Searching => Searching') /\ (StartSkipped => StartSkipped')
  BY <1>1 DEF Searching, StartSkipped
<1> QED BY <1>1, <1>3, <1>4 DEF OnceInv

LEMMA OnceInduction == WorkerDictSpec => []OnceInv
<1>1. WorkerDictInit => OnceInv
  <2> SUFFICES ASSUME WorkerDictInit PROVE OnceInv
    OBVIOUS
  <2>1. /\ job \in Jobs /\ dict_line = job.ofs /\ dict_eof = FALSE /\ org_word = << >>
        /\ phase = "init" /\ rounds = 0
    BY DEF WorkerDictInit, DictInit, EndInit
  <2>2. Place
    BY <2>1, JobFacts DEF Place
  <2>3. \A i \in IndicesOf(job.start) : i > dict_line
    BY <2>1 DEF IndicesOf
  <2> QED BY <2>1, <2>2, <2>3 DEF OnceInv, Searching
<1>2. OnceInv /\ [WorkerDictNext]_workerDictVars => OnceInv'
  <2> SUFFICES ASSUME OnceInv, [WorkerDictNext]_workerDictVars PROVE OnceInv'
    OBVIOUS
  <2>1. CASE Seek
    BY <2>1, OnceOfSeek
  <2>2. CASE Skip
    BY <2>2, OnceOfSkip
  <2>3. CASE Start
    BY <2>3, OnceElsewhere DEF Start, dictVars, doneVars
  <2>4. CASE Abort
    BY <2>4, OnceElsewhere DEF Abort, GiveUp, dictVars, doneVars
  <2>5. CASE MakeWord
    BY <2>5, OnceOfMake
  <2>6. CASE Check
    <3>1. phase = "made" /\ phase' \in {"loop", "end"}
      BY <2>6 DEF Check, Collect
    <3>2. UNCHANGED <<job, fileVars, rounds>>
      BY <2>6 DEF Check, dictVars
    <3> QED BY <3>1, <3>2, OnceElsewhere
  <2>7. CASE Finish
    BY <2>7, OnceElsewhere DEF Finish, Exit, dictVars, doneVars
  <2>8. CASE PassTime
    BY <2>8, OnceElsewhere DEF PassTime, ClockTicks, mainVars, dictVars, doneVars
  <2>9. CASE UNCHANGED workerDictVars
    BY <2>9, OnceElsewhere DEF workerDictVars, mainVars, dictVars, doneVars
  <2> QED BY <2>1, <2>2, <2>3, <2>4, <2>5, <2>6, <2>7, <2>8, <2>9 DEF WorkerDictNext, Work
<1> QED BY <1>1, <1>2, PTL DEF WorkerDictSpec

\* Each word of a chunk is begun once, for every dictionary, offset, start and end
\* word; only the last word of a file with a newline at its end is done again.
THEOREM WordsOnce == WorkerDictSpec => []OncePerWord
<1>1. OnceInv => OncePerWord
  <2> SUFFICES ASSUME OnceInv, InLoop PROVE rounds = dict_line - FirstDue + 1 + Again
    BY DEF OncePerWord, Again
  <2>1. InStep /\ dict_line \in Nat
    BY PlaceFacts DEF OnceInv, InLoop, Searching, StartSkipped
  <2>2. Again \in Nat
    BY DEF Again
  <2> QED BY <2>1, <2>2 DEF InStep, Reached
<1> QED BY <1>1, OnceInduction, PTL

-----------------------------------------------------------------------------
(***************************************************************************)
(* The secondary generators.  What K(set) says of the tables and keys of a *)
(* pair's set.                                                             *)
(***************************************************************************)
LEMMA TableLens ==
  ASSUME NEW set, SetSound(set), NEW l \in Nat, NEW i \in Nat
  PROVE  K(set)!Lens(l, i) \in Nat \ {0} /\ K(set)!Lens(l, i) <= MAXCHARS
<1>1. MAXCHARS \in Nat \ {0}
  BY DictAssumption DEF DictAssumption
<1>2. CASE K(set)!Matching(l, i) = {}
  BY <1>1, <1>2 DEF K!Lens, K!Column, SetSound
<1>3. CASE K(set)!Matching(l, i) # {}
  <2>1. K(set)!Matching(l, i) \in SUBSET Nat /\ K(set)!Matching(l, i) \subseteq 1 .. Len(set.pairs)
    BY DEF K!Matching, SetSound
  <2> DEFINE j == CHOOSE j \in K(set)!Matching(l, i) : \A m \in K(set)!Matching(l, i) : j <= m
  <2>2. j \in 1 .. Len(set.pairs)
    BY <1>3, <2>1, LeastNumber
  <2>3. K(set)!Column(l, i) = set.pairs[j].chars
    BY <1>3 DEF K!Column
  <2> HIDE DEF j
  <2> QED BY <1>1, <2>2, <2>3 DEF K!Lens, SetSound
<1> QED BY <1>2, <1>3

\* Keys of length n are vectors of digits that fit their columns.
LEMMA KeysAreVectors ==
  ASSUME NEW set, NEW n \in Nat, NEW k \in K(set)!KeysOfLength(n)
  PROVE  /\ k \in [1 .. n -> Nat] /\ Len(k) = n
         /\ \A i \in 1 .. n : k[i] \in Nat /\ k[i] < K(set)!Lens(n, i)
<1>1. MAXCHARS \in Nat \ {0}
  BY DictAssumption DEF DictAssumption
<1>2. K(set)!Digits \in SUBSET Nat
  BY <1>1 DEF K!Digits
<1>3. k \in [1 .. n -> K(set)!Digits] /\ \A i \in 1 .. n : k[i] < K(set)!Lens(n, i)
  BY DEF K!KeysOfLength
<1>4. k \in [1 .. n -> Nat]
  BY <1>2, <1>3
<1>5. Len(k) = n
  BY <1>4
<1> QED BY <1>3, <1>4, <1>5

LEMMA VectorsAreKeys ==
  ASSUME NEW set, SetSound(set), NEW n \in Nat, NEW k \in [1 .. n -> Nat],
         \A i \in 1 .. n : k[i] < K(set)!Lens(n, i)
  PROVE  k \in K(set)!KeysOfLength(n)
<1>1. MAXCHARS \in Nat \ {0}
  BY DictAssumption DEF DictAssumption
<1>2. ASSUME NEW i \in 1 .. n PROVE k[i] \in K(set)!Digits
  <2>1. i \in Nat
    OBVIOUS
  <2>2. K(set)!Lens(n, i) <= MAXCHARS /\ K(set)!Lens(n, i) \in Nat
    BY <2>1, TableLens
  <2> QED BY <1>1, <2>2 DEF K!Digits
<1>3. k \in [1 .. n -> K(set)!Digits]
  BY <1>2
<1> QED BY <1>3 DEF K!KeysOfLength

LEMMA ZerosVector ==
  ASSUME NEW n \in Nat
  PROVE  Zeros(n) \in [1 .. n -> Nat] /\ Len(Zeros(n)) = n /\ \A i \in 1 .. n : Zeros(n)[i] = 0
BY DEF Zeros

LEMMA ZerosKey ==
  ASSUME NEW set, SetSound(set), NEW n \in Nat
  PROVE  Zeros(n) \in K(set)!KeysOfLength(n)
<1>1. \A i \in 1 .. n : Zeros(n)[i] < K(set)!Lens(n, i)
  <2> TAKE i \in 1 .. n
  <2>1. i \in Nat /\ Zeros(n)[i] = 0
    BY ZerosVector
  <2>2. K(set)!Lens(n, i) \in Nat \ {0}
    BY <2>1, TableLens
  <2> QED BY <2>1, <2>2
<1> QED BY <1>1, ZerosVector, VectorsAreKeys

\* Only shorter keys come before the first of a length.
LEMMA BeforeZeros ==
  ASSUME NEW set, NEW n \in Nat, NEW l \in Nat, NEW k \in K(set)!KeysOfLength(l),
         K(set)!Precedes(k, Zeros(n))
  PROVE  l < n
<1>1. Len(k) = l /\ Len(Zeros(n)) = n /\ \A i \in 1 .. l : k[i] \in Nat
  BY KeysAreVectors, ZerosVector
<1>2. CASE l = n /\ \E i \in 1 .. l : k[i] < Zeros(n)[i]
  <2>1. PICK i \in 1 .. l : k[i] < Zeros(n)[i]
    BY <1>2
  <2>2. Zeros(n)[i] = 0 /\ k[i] \in Nat
    BY <1>1, <1>2, <2>1, ZerosVector
  <2> QED BY <2>1, <2>2
<1> QED BY <1>1, <1>2 DEF K!Precedes

\* A vector that is nowhere above another where they first differ does not come after it.
LEMMA NotAfter ==
  ASSUME NEW set, NEW n \in Nat, NEW q \in [1 .. n -> Nat], NEW k \in [1 .. n -> Nat],
         \A i \in 1 .. n : (\A j \in 1 .. i - 1 : q[j] = k[j]) => q[i] <= k[i]
  PROVE  q = k \/ K(set)!Precedes(q, k)
<1> DEFINE D == {i \in 1 .. n : q[i] # k[i]}
<1>1. CASE D = {}
  BY <1>1, SMTT(30)
<1>2. CASE D # {}
  <2>1. D \in SUBSET Nat
    OBVIOUS
  <2>2. PICK i \in D : \A x \in D : i <= x
    BY <1>2, <2>1, LeastNumber
  <2>3. i \in 1 .. n /\ q[i] # k[i]
    BY <2>2
  <2>4. ASSUME NEW j \in 1 .. i - 1 PROVE q[j] = k[j]
    BY <2>2, <2>3
  <2>5. q[i] < k[i]
    <3>1. q[i] \in Nat /\ k[i] \in Nat
      BY <2>3
    <3>2. q[i] <= k[i]
      BY <2>3, <2>4
    <3> HIDE DEF D
    <3> QED BY <2>3, <3>1, <3>2
  <2>6. Len(q) = n /\ Len(k) = n
    OBVIOUS
  <2> QED BY <2>3, <2>4, <2>5, <2>6 DEF K!Precedes
<1> QED BY <1>1, <1>2

\* The column at which the carry stops.
Stop(set, k) == K(set)!Rightmost(K(set)!Advanceable(k))

\* The carry stops at the rightmost column that is not at its end.
LEMMA CarryFacts ==
  ASSUME NEW set, NEW n \in Nat, NEW k \in [1 .. n -> Nat], K(set)!Advanceable(k) # {}
  PROVE  LET d == Stop(set, k) IN
         /\ d \in 1 .. n /\ k[d] + 1 < K(set)!Lens(n, d)
         /\ \A i \in 1 .. n : d < i => ~(k[i] + 1 < K(set)!Lens(n, i))
         /\ K(set)!Carry(k, d) = [i \in 1 .. n |-> IF i < d THEN k[i] ELSE IF i = d THEN k[i] + 1 ELSE 0]
<1> DEFINE C == K(set)!Advanceable(k)
<1> DEFINE d == Stop(set, k)
<1>1. Len(k) = n
  OBVIOUS
<1>2. C = {i \in 1 .. n : k[i] + 1 < K(set)!Lens(n, i)}
  BY <1>1 DEF K!Advanceable
<1>3. C \in SUBSET (1 .. n)
  BY <1>2
<1>4. \E m \in C : \A x \in C : x <= m
  BY <1>3, GreatestNumber
<1>5. d \in C /\ \A x \in C : x <= d
  BY <1>4 DEF K!Rightmost, Stop
<1> HIDE DEF d
<1>6. d \in 1 .. n /\ k[d] + 1 < K(set)!Lens(n, d)
  BY <1>2, <1>5
<1>7. \A i \in 1 .. n : d < i => ~(k[i] + 1 < K(set)!Lens(n, i))
  <2> SUFFICES ASSUME NEW i \in 1 .. n, d < i, i \in C PROVE FALSE
    BY <1>2
  <2> QED BY <1>5, <1>6
<1>8. K(set)!Carry(k, d) = [i \in 1 .. n |-> IF i < d THEN k[i] ELSE IF i = d THEN k[i] + 1 ELSE 0]
  BY <1>1 DEF K!Carry
<1> USE DEF d
<1> QED BY <1>6, <1>7, <1>8

LEMMA CarryIsNext ==
  ASSUME NEW set, SetSound(set), NEW n \in Nat, NEW k \in K(set)!KeysOfLength(n),
         K(set)!Advanceable(k) # {},
         NEW c, c = K(set)!Carry(k, K(set)!Rightmost(K(set)!Advanceable(k)))
  PROVE  /\ c \in K(set)!KeysOfLength(n)
         /\ \A l \in Nat : \A q \in K(set)!KeysOfLength(l) :
              K(set)!Precedes(q, c) => K(set)!Precedes(q, k) \/ q = k
<1>1. /\ k \in [1 .. n -> Nat] /\ Len(k) = n
      /\ \A i \in 1 .. n : k[i] \in Nat /\ k[i] < K(set)!Lens(n, i)
  BY KeysAreVectors
<1> DEFINE d == Stop(set, k)
<1>d. c = K(set)!Carry(k, d)
  BY DEF Stop
<1>2. /\ d \in 1 .. n /\ k[d] + 1 < K(set)!Lens(n, d)
      /\ \A i \in 1 .. n : d < i => ~(k[i] + 1 < K(set)!Lens(n, i))
      /\ c \in [1 .. n -> Nat] /\ Len(c) = n
      /\ \A i \in 1 .. n :
           /\ i < d => c[i] = k[i]
           /\ i = d => c[i] = k[i] + 1
           /\ i > d => c[i] = 0
  <2>1. d \in 1 .. n /\ k[d] + 1 < K(set)!Lens(n, d)
    BY <1>1, CarryFacts
  <2>2. \A i \in 1 .. n : d < i => ~(k[i] + 1 < K(set)!Lens(n, i))
    BY <1>1, CarryFacts
  <2>3. c = [i \in 1 .. n |-> IF i < d THEN k[i] ELSE IF i = d THEN k[i] + 1 ELSE 0]
    <3>1. Len(k) = n
      BY <1>1
    <3> QED BY <1>d, <3>1 DEF K!Carry
  <2> HIDE DEF d
  <2>4. c \in [1 .. n -> Nat]
    BY <1>1, <2>1, <2>3
  <2> QED BY <2>1, <2>2, <2>3, <2>4
<1> HIDE DEF d
<1>3. \A i \in 1 .. n : K(set)!Lens(n, i) \in Nat \ {0}
  <2> TAKE i \in 1 .. n
  <2>1. i \in Nat
    OBVIOUS
  <2> QED BY <2>1, TableLens
<1>4. c \in K(set)!KeysOfLength(n)
  <2>1. ASSUME NEW i \in 1 .. n PROVE c[i] < K(set)!Lens(n, i)
    <3>1. K(set)!Lens(n, i) \in Nat \ {0} /\ k[i] < K(set)!Lens(n, i)
      BY <1>1, <1>3
    <3>2. i < d \/ i = d \/ i > d
      BY <1>2
    <3>3. CASE i = d
      BY <1>2, <3>3
    <3>4. CASE i < d
      BY <1>2, <3>1, <3>4
    <3>5. CASE i > d
      BY <1>2, <3>1, <3>5
    <3> QED BY <3>2, <3>3, <3>4, <3>5
  <2> QED BY <1>2, <2>1, VectorsAreKeys
<1>5. ASSUME NEW l \in Nat, NEW q \in K(set)!KeysOfLength(l), K(set)!Precedes(q, c)
      PROVE  K(set)!Precedes(q, k) \/ q = k
  <2>1. /\ q \in [1 .. l -> Nat] /\ Len(q) = l
        /\ \A i \in 1 .. l : q[i] \in Nat /\ q[i] < K(set)!Lens(l, i)
    BY KeysAreVectors
  <2>2. CASE l < n
    BY <1>1, <2>1, <2>2 DEF K!Precedes
  <2>3. CASE l = n
    <3>1. PICK i \in 1 .. n : q[i] < c[i] /\ \A j \in 1 .. i - 1 : q[j] = c[j]
      BY <1>2, <1>5, <2>1, <2>3 DEF K!Precedes
    <3>2. i <= d
      BY <1>2, <2>1, <2>3, <3>1
    <3>3. \A j \in 1 .. n : j < i => q[j] = k[j]
      BY <1>2, <3>1, <3>2
    <3>4. q[i] <= k[i] /\ (i < d => q[i] < k[i])
      BY <1>1, <1>2, <2>1, <2>3, <3>1, <3>2, SMTT(30)
    <3>5. \A j \in 1 .. n : d < j => q[j] <= k[j]
      BY <1>1, <1>2, <1>3, <2>1, <2>3, SMTT(30)
    <3>6. ASSUME NEW j \in 1 .. n, \A h \in 1 .. j - 1 : q[h] = k[h] PROVE q[j] <= k[j]
      <4>1. CASE j < i
        BY <1>1, <3>3, <4>1
      <4>2. CASE j = i
        BY <3>4, <4>2
      <4>3. CASE i < j
        <5>1. i \in 1 .. j - 1
          BY <4>3
        <5>2. q[i] = k[i] /\ q[i] \in Nat
          BY <1>1, <3>6, <5>1
        <5>3. i = d
          BY <1>1, <1>2, <3>2, <3>4, <5>2
        <5> QED BY <3>5, <4>3, <5>3
      <4> QED BY <4>1, <4>2, <4>3
    <3>7. q \in [1 .. n -> Nat]
      BY <2>1, <2>3
    <3> QED BY <1>1, <3>6, <3>7, NotAfter
  <2>4. ~(n < l)
    BY <1>2, <1>5, <2>1 DEF K!Precedes
  <2> QED BY <2>2, <2>3, <2>4
<1> QED BY <1>4, <1>5

\* When no column can be advanced the key is the last of its length.
LEMMA LastOfLength ==
  ASSUME NEW set, SetSound(set), NEW n \in Nat, NEW k \in K(set)!KeysOfLength(n),
         K(set)!Advanceable(k) = {}, NEW q \in K(set)!KeysOfLength(n)
  PROVE  K(set)!Precedes(q, k) \/ q = k
<1>1. /\ k \in [1 .. n -> Nat] /\ Len(k) = n /\ \A i \in 1 .. n : k[i] \in Nat
  BY KeysAreVectors
<1>2. /\ q \in [1 .. n -> Nat] /\ \A i \in 1 .. n : q[i] \in Nat /\ q[i] < K(set)!Lens(n, i)
  BY KeysAreVectors
<1>3. \A i \in 1 .. n : ~(k[i] + 1 < K(set)!Lens(n, i))
  BY <1>1 DEF K!Advanceable
<1>4. ASSUME NEW i \in 1 .. n PROVE q[i] <= k[i]
  <2>1. i \in Nat
    OBVIOUS
  <2>2. K(set)!Lens(n, i) \in Nat \ {0}
    BY <2>1, TableLens
  <2> QED BY <1>1, <1>2, <1>3, <2>2
<1> QED BY <1>1, <1>2, <1>4, NotAfter

LEMMA ExtendIsZeros ==
  ASSUME NEW set, NEW n \in Nat, NEW k \in [1 .. n -> Nat]
  PROVE  K(set)!Extend(k) = Zeros(n + 1)
<1>1. Len(k) = n
  OBVIOUS
<1>2. ASSUME NEW i \in 1 .. n + 1
      PROVE  (IF set.type = "GROUPED" \/ i = n + 1 THEN 0 ELSE K(set)!Rollover(k)[i]) = 0
  BY <1>1 DEF K!Rollover
<1> QED BY <1>1, <1>2 DEF K!Extend, Zeros

-----------------------------------------------------------------------------
(***************************************************************************)
(* The states of a generator: it has passed its last password; it is as    *)
(* malloc() left it; its password is that of its digits; or the password   *)
(* is one of the set, but the digits may be another's.                     *)
(***************************************************************************)
RoomOf(pair) == UNION {K(pair.set)!KeysOfLength(l) : l \in pair.startlen .. pair.endlen}

Shows(pair, k) == K(pair.set)!Word(k)

Comes(pair, k, d) == K(pair.set)!Precedes(k, d)

PairSound(p) ==
  /\ SetSound(p.set)
  /\ p.startlen \in Nat \ {0} /\ p.endlen \in Nat /\ p.startlen <= p.endlen

IsOver(g, p) == g.digit = Zeros(p.endlen + 1)

IsRaw(g, p) == g.digit \in [1 .. p.startlen -> Nat] /\ IsFresh(g, p)

IsClean(g, p) == g.digit \in RoomOf(p) /\ g.pwd = Shows(p, g.digit)

IsLoose(g, p) ==
  \E n \in p.startlen .. p.endlen :
    g.digit \in [1 .. n -> Nat] /\ \E k \in K(p.set)!KeysOfLength(n) : g.pwd = Shows(p, k)

LEMMA RoomFacts ==
  ASSUME NEW p, PairSound(p), NEW k \in RoomOf(p)
  PROVE  /\ Len(k) \in p.startlen .. p.endlen /\ Len(k) \in Nat
         /\ k \in K(p.set)!KeysOfLength(Len(k))
         /\ k \in [1 .. Len(k) -> Nat]
<1>1. PICK l \in p.startlen .. p.endlen : k \in K(p.set)!KeysOfLength(l)
  BY DEF RoomOf
<1>2. l \in Nat
  BY DEF PairSound
<1>3. k \in [1 .. l -> Nat] /\ Len(k) = l
  BY <1>1, <1>2, KeysAreVectors
<1> QED BY <1>1, <1>2, <1>3

LEMMA CleanIsLoose ==
  ASSUME NEW p, PairSound(p), NEW g, IsClean(g, p)
  PROVE  IsLoose(g, p)
<1>1. g.digit \in RoomOf(p) /\ g.pwd = Shows(p, g.digit)
  BY DEF IsClean
<1>2. /\ Len(g.digit) \in p.startlen .. p.endlen
      /\ g.digit \in K(p.set)!KeysOfLength(Len(g.digit))
      /\ g.digit \in [1 .. Len(g.digit) -> Nat]
  BY <1>1, RoomFacts
<1> QED BY <1>1, <1>2 DEF IsLoose

\* The digits after a carry.
Carried(set, k) == K(set)!Carry(k, Stop(set, k))

LEMMA LongerPassword ==
  ASSUME NEW p, NEW n \in Nat, NEW g, g.digit \in [1 .. n -> Nat],
         K(p.set)!Advanceable(g.digit) = {}
  PROVE  /\ pwdgen_next(g, p).digit = Zeros(n + 1)
         /\ Len(pwdgen_next(g, p).digit) = n + 1
         /\ pwdgen_next(g, p).pwd = Shows(p, Zeros(n + 1))
<1> DEFINE next == pwdgen_next(g, p)
<1>1. /\ next.digit = K(p.set)!Extend(g.digit)
      /\ next.pwd = [i \in 1 .. Len(next.digit) |-> K(p.set)!Table(Len(next.digit), i, next.digit[i])]
  BY DEF pwdgen_next
<1> HIDE DEF next
<1>2. next.digit = Zeros(n + 1)
  BY <1>1, ExtendIsZeros
<1>3. Len(Zeros(n + 1)) = n + 1
  <2>1. n + 1 \in Nat
    OBVIOUS
  <2> QED BY <2>1, ZerosVector
<1>4. next.pwd = Shows(p, Zeros(n + 1))
  BY <1>1, <1>2, <1>3 DEF Shows, K!Word
<1> QED BY <1>2, <1>3, <1>4 DEF next

LEMMA CarriedPassword ==
  ASSUME NEW p, PairSound(p), NEW n \in Nat, NEW g, g.digit \in [1 .. n -> Nat],
         K(p.set)!Advanceable(g.digit) # {},
         NEW k \in K(p.set)!KeysOfLength(n), g.pwd = Shows(p, k)
  PROVE  /\ pwdgen_next(g, p).digit = Carried(p.set, g.digit)
         /\ Carried(p.set, g.digit) \in [1 .. n -> Nat]
         /\ \E q \in K(p.set)!KeysOfLength(n) : pwdgen_next(g, p).pwd = Shows(p, q)
         /\ k = g.digit => pwdgen_next(g, p).pwd = Shows(p, Carried(p.set, g.digit))
<1> DEFINE next == pwdgen_next(g, p)
           d == Stop(p.set, g.digit)
           c == Carried(p.set, g.digit)
<1>1. SetSound(p.set) /\ Len(g.digit) = n
  BY DEF PairSound
<1>2. /\ next.digit = c
      /\ next.pwd = [i \in 1 .. Len(next.digit) |->
                      IF i < d THEN g.pwd[i] ELSE K(p.set)!Table(Len(next.digit), i, next.digit[i])]
  BY DEF pwdgen_next, Stop, Carried
<1>3. d \in 1 .. n /\ g.digit[d] + 1 < K(p.set)!Lens(n, d)
  BY <1>1, CarryFacts
<1>4. c = [i \in 1 .. n |-> IF i < d THEN g.digit[i] ELSE IF i = d THEN g.digit[i] + 1 ELSE 0]
  BY <1>1 DEF K!Carry, Carried
<1> HIDE DEF d, next, c
<1>5. c \in [1 .. n -> Nat] /\ Len(c) = n
  <2>1. c \in [1 .. n -> Nat]
    BY <1>3, <1>4
  <2> QED BY <2>1
<1>6. next.pwd = [i \in 1 .. n |-> IF i < d THEN g.pwd[i] ELSE K(p.set)!Table(n, i, c[i])]
  BY <1>2, <1>5
<1>7. k \in [1 .. n -> Nat] /\ \A i \in 1 .. n : k[i] < K(p.set)!Lens(n, i)
  BY KeysAreVectors
<1>8. g.pwd = [i \in 1 .. n |-> K(p.set)!Table(n, i, k[i])]
  <2>1. Len(k) = n
    BY <1>7
  <2> QED BY <2>1 DEF Shows, K!Word
<1> DEFINE q == [i \in 1 .. n |-> IF i < d THEN k[i] ELSE c[i]]
<1>9. q \in [1 .. n -> Nat] /\ \A i \in 1 .. n : q[i] = (IF i < d THEN k[i] ELSE c[i])
  BY <1>5, <1>7
<1>10. k = g.digit => q = c
  BY <1>4, <1>5
<1> HIDE DEF q
<1>11. ASSUME NEW i \in 1 .. n PROVE q[i] < K(p.set)!Lens(n, i)
  <2>1. i \in Nat
    OBVIOUS
  <2>2. K(p.set)!Lens(n, i) \in Nat \ {0} /\ k[i] < K(p.set)!Lens(n, i)
    BY <1>1, <1>7, <2>1, TableLens
  <2>3. CASE i < d
    BY <1>9, <2>2, <2>3
  <2>4. CASE i = d
    BY <1>3, <1>4, <1>9, <2>4
  <2>5. CASE i > d
    BY <1>3, <1>4, <1>9, <2>2, <2>5
  <2> QED BY <1>3, <2>3, <2>4, <2>5
<1>12. q \in K(p.set)!KeysOfLength(n)
  BY <1>1, <1>9, <1>11, VectorsAreKeys
<1>13. Shows(p, q) = [i \in 1 .. n |-> K(p.set)!Table(n, i, q[i])]
  <2>1. Len(q) = n
    BY <1>9
  <2> QED BY <2>1 DEF Shows, K!Word
<1>14. next.pwd = Shows(p, q)
  BY <1>6, <1>8, <1>9, <1>13
<1> QED BY <1>2, <1>5, <1>10, <1>12, <1>14 DEF next, c

\* From a password of the set the generator goes to one of the set, until it gets
\* too long.
LEMMA NextIsLoose ==
  ASSUME NEW p, PairSound(p), NEW g, IsLoose(g, p)
  PROVE  /\ Len(pwdgen_next(g, p).digit) > p.endlen => IsOver(pwdgen_next(g, p), p)
         /\ ~(Len(pwdgen_next(g, p).digit) > p.endlen) => IsLoose(pwdgen_next(g, p), p)
<1> DEFINE next == pwdgen_next(g, p)
<1>1. PICK n \in p.startlen .. p.endlen :
        g.digit \in [1 .. n -> Nat] /\ \E k \in K(p.set)!KeysOfLength(n) : g.pwd = Shows(p, k)
  BY DEF IsLoose
<1>2. PICK k \in K(p.set)!KeysOfLength(n) : g.pwd = Shows(p, k)
  BY <1>1
<1>3. n \in Nat /\ p.endlen \in Nat /\ SetSound(p.set) /\ p.startlen \in Nat /\ n <= p.endlen
  BY DEF PairSound
<1>4. ASSUME K(p.set)!Advanceable(g.digit) = {}
      PROVE  /\ Len(next.digit) > p.endlen => IsOver(next, p)
             /\ ~(Len(next.digit) > p.endlen) => IsLoose(next, p)
  <2>1. next.digit = Zeros(n + 1) /\ Len(next.digit) = n + 1 /\ next.pwd = Shows(p, Zeros(n + 1))
    BY <1>1, <1>3, <1>4, LongerPassword
  <2> HIDE DEF next
  <2>2. n + 1 \in Nat
    BY <1>3
  <2>3. CASE n = p.endlen
    BY <1>3, <2>1, <2>3 DEF IsOver
  <2>4. CASE n < p.endlen
    <3>1. Zeros(n + 1) \in K(p.set)!KeysOfLength(n + 1) /\ Zeros(n + 1) \in [1 .. n + 1 -> Nat]
      BY <1>3, <2>2, ZerosKey, ZerosVector
    <3>2. n + 1 \in p.startlen .. p.endlen
      BY <1>3, <2>4
    <3>3. IsLoose(next, p)
      BY <2>1, <3>1, <3>2 DEF IsLoose
    <3> QED BY <1>3, <2>1, <2>4, <3>3
  <2> QED BY <1>3, <2>3, <2>4
<1>5. ASSUME K(p.set)!Advanceable(g.digit) # {}
      PROVE  /\ Len(next.digit) > p.endlen => IsOver(next, p)
             /\ ~(Len(next.digit) > p.endlen) => IsLoose(next, p)
  <2>1. /\ next.digit = Carried(p.set, g.digit) /\ Carried(p.set, g.digit) \in [1 .. n -> Nat]
        /\ \E q \in K(p.set)!KeysOfLength(n) : next.pwd = Shows(p, q)
    <3>1. g.digit \in [1 .. n -> Nat] /\ PairSound(p) /\ n \in Nat
      BY <1>1, <1>3
    <3> HIDE DEF next
    <3>2. /\ pwdgen_next(g, p).digit = Carried(p.set, g.digit)
          /\ Carried(p.set, g.digit) \in [1 .. n -> Nat]
      BY <1>2, <1>5, <3>1, CarriedPassword
    <3>3. \E q \in K(p.set)!KeysOfLength(n) : pwdgen_next(g, p).pwd = Shows(p, q)
      BY <1>2, <1>5, <3>1, CarriedPassword
    <3> QED BY <3>2, <3>3 DEF next
  <2> HIDE DEF next
  <2>2. next.digit \in [1 .. n -> Nat]
    BY <2>1
  <2>3. Len(next.digit) = n
    BY <1>3, <2>2
  <2>4. IsLoose(next, p)
    BY <2>1, <2>2 DEF IsLoose
  <2> QED BY <1>3, <2>3, <2>4
<1> QED BY <1>4, <1>5

\* From the password of a key it goes to that of the next one, and it gets too long
\* only after the last.
LEMMA NextIsClean ==
  ASSUME NEW p, PairSound(p), NEW g, IsClean(g, p)
  PROVE  /\ Len(pwdgen_next(g, p).digit) > p.endlen =>
              \A q \in RoomOf(p) : Comes(p, q, g.digit) \/ q = g.digit
         /\ ~(Len(pwdgen_next(g, p).digit) > p.endlen) =>
              /\ IsClean(pwdgen_next(g, p), p)
              /\ \A q \in RoomOf(p) :
                   Comes(p, q, pwdgen_next(g, p).digit) => Comes(p, q, g.digit) \/ q = g.digit
<1> DEFINE next == pwdgen_next(g, p)
           n == Len(g.digit)
           Right == /\ Len(next.digit) > p.endlen =>
                         \A q \in RoomOf(p) : Comes(p, q, g.digit) \/ q = g.digit
                    /\ ~(Len(next.digit) > p.endlen) =>
                         /\ IsClean(next, p)
                         /\ \A q \in RoomOf(p) : Comes(p, q, next.digit) => Comes(p, q, g.digit) \/ q = g.digit
<1>1. g.digit \in RoomOf(p) /\ g.pwd = Shows(p, g.digit)
  BY DEF IsClean
<1>2. /\ n \in p.startlen .. p.endlen /\ n \in Nat
      /\ g.digit \in K(p.set)!KeysOfLength(n) /\ g.digit \in [1 .. n -> Nat]
  BY <1>1, RoomFacts
<1>3. p.endlen \in Nat /\ SetSound(p.set) /\ p.startlen \in Nat /\ n <= p.endlen
  BY <1>2 DEF PairSound
<1>4. ASSUME K(p.set)!Advanceable(g.digit) = {} PROVE Right
  <2>1. next.digit = Zeros(n + 1) /\ Len(next.digit) = n + 1 /\ next.pwd = Shows(p, Zeros(n + 1))
    BY <1>2, <1>4, LongerPassword
  <2>2. ASSUME NEW q \in RoomOf(p), Len(q) <= n
        PROVE  Comes(p, q, g.digit) \/ q = g.digit
    <3>1. Len(q) \in Nat /\ q \in K(p.set)!KeysOfLength(Len(q))
      BY RoomFacts
    <3>2. CASE Len(q) < n
      BY <3>2 DEF Comes, K!Precedes
    <3>3. CASE Len(q) = n
      BY <1>2, <1>3, <1>4, <3>1, <3>3, LastOfLength DEF Comes
    <3> HIDE DEF n
    <3> QED BY <1>2, <2>2, <3>1, <3>2, <3>3
  <2> HIDE DEF n, next
  <2>3. n + 1 \in Nat
    BY <1>2
  <2>4. CASE n = p.endlen
    <3>1. ASSUME NEW q \in RoomOf(p) PROVE Len(q) <= n
      <4>1. Len(q) \in p.startlen .. p.endlen
        BY RoomFacts
      <4> QED BY <1>3, <2>4, <4>1
    <3> QED BY <1>2, <1>3, <2>1, <2>2, <2>4, <3>1
  <2>5. CASE n < p.endlen
    <3>1. next.digit \in K(p.set)!KeysOfLength(n + 1)
      BY <1>2, <1>3, <2>1, <2>3, ZerosKey
    <3>2. n + 1 \in p.startlen .. p.endlen
      BY <1>2, <1>3, <2>5
    <3>3. IsClean(next, p)
      BY <2>1, <3>1, <3>2 DEF IsClean, RoomOf
    <3>4. ASSUME NEW q \in RoomOf(p), Comes(p, q, next.digit) PROVE Comes(p, q, g.digit) \/ q = g.digit
      <4>1. Len(q) \in Nat /\ q \in K(p.set)!KeysOfLength(Len(q))
        BY RoomFacts
      <4>2. K(p.set)!Precedes(q, Zeros(n + 1))
        BY <2>1, <3>4 DEF Comes
      <4>3. Len(q) < n + 1
        BY <2>3, <4>1, <4>2, BeforeZeros
      <4>4. Len(q) <= n
        BY <1>2, <4>1, <4>3
      <4> QED BY <2>2, <4>4
    <3>5. ~(Len(next.digit) > p.endlen)
      BY <1>2, <1>3, <2>1, <2>5
    <3> QED BY <3>3, <3>4, <3>5
  <2>6. n = p.endlen \/ n < p.endlen
    BY <1>2, <1>3
  <2> QED BY <2>4, <2>5, <2>6
<1>5. ASSUME K(p.set)!Advanceable(g.digit) # {} PROVE Right
  <2> DEFINE c == Carried(p.set, g.digit)
  <2>1. next.digit = c /\ c \in [1 .. n -> Nat] /\ next.pwd = Shows(p, c)
    BY <1>1, <1>2, <1>5, CarriedPassword
  <2>2. c = K(p.set)!Carry(g.digit, K(p.set)!Rightmost(K(p.set)!Advanceable(g.digit)))
    BY DEF Stop, Carried
  <2> HIDE DEF c, n, next
  <2>3. /\ c \in K(p.set)!KeysOfLength(n)
        /\ \A l \in Nat : \A q \in K(p.set)!KeysOfLength(l) :
              K(p.set)!Precedes(q, c) => K(p.set)!Precedes(q, g.digit) \/ q = g.digit
    BY <1>2, <1>3, <1>5, <2>2, CarryIsNext
  <2>4. Len(next.digit) = n
    BY <1>2, <2>1
  <2>5. ~(Len(next.digit) > p.endlen)
    BY <1>2, <1>3, <2>4
  <2>6. IsClean(next, p)
    BY <1>2, <2>1, <2>3 DEF IsClean, RoomOf
  <2>7. ASSUME NEW q \in RoomOf(p), Comes(p, q, next.digit) PROVE Comes(p, q, g.digit) \/ q = g.digit
    <3>1. Len(q) \in Nat /\ q \in K(p.set)!KeysOfLength(Len(q))
      BY RoomFacts
    <3> QED BY <2>1, <2>3, <2>7, <3>1 DEF Comes
  <2> QED BY <2>5, <2>6, <2>7
<1> QED BY <1>4, <1>5

\* A generator that is set back starts with the first key, unless its digits are
\* what malloc() left.
LEMMA SetBackGenerator ==
  ASSUME NEW p, PairSound(p), NEW g, IsOver(g, p) \/ IsRaw(g, p)
  PROVE  /\ IsLoose(pwdgen_reinit(g, p), p)
         /\ IsOver(g, p) \/ ~Unset(p) =>
              /\ IsClean(pwdgen_reinit(g, p), p)
              /\ \A q \in RoomOf(p) : ~Comes(p, q, pwdgen_reinit(g, p).digit)
<1> DEFINE next == pwdgen_reinit(g, p)
           n == p.startlen
<1>1. n \in Nat \ {0} /\ p.endlen \in Nat /\ n <= p.endlen /\ SetSound(p.set)
  BY DEF PairSound
<1>2. /\ next.pwd = Shows(p, Zeros(n))
      /\ next.digit = [i \in 1 .. n |-> IF p.set.type = "GROUPED" \/ i = n THEN 0 ELSE g.digit[i]]
  BY DEF pwdgen_reinit, FirstOf, Shows
<1>3. Zeros(n) \in K(p.set)!KeysOfLength(n) /\ Zeros(n) \in [1 .. n -> Nat] /\ Len(Zeros(n)) = n
  BY <1>1, ZerosKey, ZerosVector
<1>4. \A i \in 1 .. n : g.digit[i] \in Nat
  <2>1. CASE IsRaw(g, p)
    BY <2>1 DEF IsRaw
  <2>2. CASE IsOver(g, p)
    <3>1. \A i \in 1 .. p.endlen + 1 : Zeros(p.endlen + 1)[i] = 0
      BY DEF Zeros
    <3> QED BY <1>1, <2>2, <3>1 DEF IsOver
  <2> QED BY <2>1, <2>2
<1>5. next.digit \in [1 .. n -> Nat]
  BY <1>2, <1>4
<1>6. n \in p.startlen .. p.endlen
  BY <1>1
<1>7. IsLoose(next, p)
  BY <1>2, <1>3, <1>5, <1>6 DEF IsLoose
<1>8. ASSUME IsOver(g, p) \/ ~Unset(p) PROVE next.digit = Zeros(n)
  <2>1. ASSUME NEW i \in 1 .. n, ~(p.set.type = "GROUPED" \/ i = n) PROVE g.digit[i] = 0
    <3>1. CASE IsOver(g, p)
      <4>1. \A x \in 1 .. p.endlen + 1 : Zeros(p.endlen + 1)[x] = 0
        BY DEF Zeros
      <4> QED BY <1>1, <3>1, <4>1 DEF IsOver
    <3>2. CASE ~Unset(p)
      <4>1. p.set.type = "SIMPLE"
        BY <1>1, <2>1 DEF SetSound
      <4>2. ~(n > 1)
        BY <3>2, <4>1 DEF Unset
      <4> QED BY <1>1, <2>1, <4>2
    <3> QED BY <1>8, <3>1, <3>2
  <2>2. \A i \in 1 .. n : next.digit[i] = 0
    BY <1>2, <2>1
  <2>3. \A i \in 1 .. n : Zeros(n)[i] = 0
    BY <1>1, ZerosVector
  <2> QED BY <1>3, <1>5, <2>2, <2>3
<1>9. ASSUME IsOver(g, p) \/ ~Unset(p)
      PROVE  IsClean(next, p) /\ \A q \in RoomOf(p) : ~Comes(p, q, next.digit)
  <2>1. next.digit = Zeros(n)
    BY <1>8, <1>9
  <2>2. IsClean(next, p)
    BY <1>2, <1>3, <1>6, <2>1 DEF IsClean, RoomOf
  <2>3. ASSUME NEW q \in RoomOf(p), Comes(p, q, next.digit) PROVE FALSE
    <3>1. Len(q) \in p.startlen .. p.endlen /\ Len(q) \in Nat /\ q \in K(p.set)!KeysOfLength(Len(q))
      BY RoomFacts
    <3>2. Len(q) < n
      BY <1>1, <2>1, <2>3, <3>1, BeforeZeros DEF Comes
    <3> QED BY <1>1, <3>1, <3>2
  <2> QED BY <2>2, <2>3
<1> QED BY <1>7, <1>9

-----------------------------------------------------------------------------
(***************************************************************************)
(* The mutations that are left, and the mask from which the next is looked *)
(* for: one bit below all of them, or the mask of three bits that          *)
(* first_mutation makes when the word is only given as it is.              *)
(***************************************************************************)
MaskFits(todo, mask) ==
  todo # {} =>
    \/ \E c \in 0 .. 10 : mask = {c} /\ \A m \in todo : c <= m
    \/ todo = {DICT_ORIGINAL} /\ mask = {0, 1, 3}

LEMMA SingleMask ==
  ASSUME NEW c \in Nat, NEW w
  PROVE  MutateBy({c}, w) = Mutated(c, w)
<1>1. Cardinality({c}) = 1
  BY FS_Singleton
<1>2. Min({c}) = c
  <2>1. {c} \in SUBSET Nat /\ {c} # {}
    OBVIOUS
  <2>2. Min({c}) \in {c}
    BY <2>1, MinOf
  <2> QED BY <2>2
<1> QED BY <1>1, <1>2 DEF MutateBy

LEMMA ShiftedTo ==
  ASSUME NEW c \in 0 .. 10, NEW todo \in SUBSET (0 .. 10), todo # {}, \A m \in todo : c <= m
  PROVE  \E m \in todo : Next_mutation({c}, todo) = {m} /\ \A x \in todo : m <= x
<1> DEFINE N == {n \in 0 .. 31 : Shifted({c}, n) \intersect todo # {}}
           k == Min(N)
<1>1. \A n \in Nat : Shifted({c}, n) = {c + n}
  BY DEF Shifted
<1>2. todo \in SUBSET Nat
  OBVIOUS
<1>3. PICK m \in todo : \A x \in todo : m <= x
  BY <1>2, LeastNumber
<1>4. m \in Nat /\ c \in Nat /\ c <= m /\ m <= 10
  BY <1>2, <1>3
<1>5. m - c \in 0 .. 31 /\ m - c \in Nat /\ c + (m - c) = m
  BY <1>4
<1>6. m - c \in N
  <2>1. Shifted({c}, m - c) = {m}
    BY <1>1, <1>5
  <2> QED BY <1>5, <2>1
<1>7. N \in SUBSET Nat
  OBVIOUS
<1> HIDE DEF N
<1>8. k \in N /\ k <= m - c /\ k \in Nat
  BY <1>6, <1>7, MinOf
<1>9. c + k \in todo
  <2>1. Shifted({c}, k) \intersect todo # {}
    BY <1>8 DEF N
  <2> HIDE DEF k
  <2> QED BY <1>1, <1>8, <2>1
<1>10. Next_mutation({c}, todo) = Shifted({c}, k)
  BY DEF Next_mutation, N
<1> HIDE DEF k
<1>11. c + k = m
  <2>1. m <= c + k
    BY <1>3, <1>9
  <2> QED BY <1>4, <1>8, <2>1
<1>12. Next_mutation({c}, todo) = {m}
  BY <1>1, <1>8, <1>10, <1>11
<1> QED BY <1>3, <1>12

LEMMA OriginalMask ==
  /\ Next_mutation({0, 1, 3}, {10}) = {7, 8, 10}
  /\ \A w : MutateBy({7, 8, 10}, w) = Mutated(DICT_ORIGINAL, w)
<1> DEFINE N == {n \in 0 .. 31 : Shifted({0, 1, 3}, n) \intersect {10} # {}}
           k == Min(N)
<1>1. \A n \in Nat : Shifted({0, 1, 3}, n) = {n, 1 + n, 3 + n}
  BY DEF Shifted
<1>2. N = {7, 9, 10}
  <2>1. ASSUME NEW n \in 0 .. 31 PROVE Shifted({0, 1, 3}, n) \intersect {10} # {} <=> n \in {7, 9, 10}
    BY <1>1
  <2> QED BY <2>1
<1> HIDE DEF N
<1>3. k = 7
  <2>1. N \in SUBSET Nat /\ N # {}
    BY <1>2
  <2>2. k \in N /\ \A x \in N : k <= x
    BY <2>1, MinOf
  <2> HIDE DEF k
  <2> QED BY <1>2, <2>2
<1>4. Next_mutation({0, 1, 3}, {10}) = Shifted({0, 1, 3}, k)
  BY DEF Next_mutation, N
<1> HIDE DEF k
<1>5. Next_mutation({0, 1, 3}, {10}) = {7, 8, 10}
  BY <1>1, <1>3, <1>4
<1>6. Cardinality({7, 8, 10}) # 1
  <2>1. IsFiniteSet({7, 8, 10})
    <3>1. {7, 8, 10} \in SUBSET Nat /\ \A s \in {7, 8, 10} : s <= 10
      OBVIOUS
    <3> QED BY <3>1, FS_BoundedSetOfNaturals
  <2>2. ~\E x : {7, 8, 10} = {x}
    OBVIOUS
  <2> QED BY <2>1, <2>2, FS_Singleton
<1> QED BY <1>5, <1>6 DEF MutateBy, Mutated

\* The mask that is found stands for one of the mutations that are left.
LEMMA NextMask ==
  ASSUME NEW todo \in SUBSET (0 .. 10), todo # {}, NEW mask, MaskFits(todo, mask)
  PROVE  \E m \in todo :
           /\ todo \ Next_mutation(mask, todo) = todo \ {m}
           /\ MaskFits(todo \ Next_mutation(mask, todo), Next_mutation(mask, todo))
           /\ \A w : MutateBy(Next_mutation(mask, todo), w) = Mutated(m, w)
<1>1. CASE \E c \in 0 .. 10 : mask = {c} /\ \A m \in todo : c <= m
  <2>1. PICK c \in 0 .. 10 : mask = {c} /\ \A m \in todo : c <= m
    BY <1>1
  <2>2. PICK m \in todo : Next_mutation({c}, todo) = {m} /\ \A x \in todo : m <= x
    BY <2>1, ShiftedTo
  <2>3. Next_mutation(mask, todo) = {m} /\ m \in 0 .. 10 /\ m \in Nat
    BY <2>1, <2>2
  <2>4. \A w : MutateBy({m}, w) = Mutated(m, w)
    BY <2>3, SingleMask
  <2>5. MaskFits(todo \ {m}, {m})
    BY <2>2, <2>3 DEF MaskFits
  <2> QED BY <2>3, <2>4, <2>5
<1>2. CASE todo = {DICT_ORIGINAL} /\ mask = {0, 1, 3}
  <2>1. todo = {10} /\ Next_mutation(mask, todo) = {7, 8, 10}
    BY <1>2, OriginalMask DEF DICT_ORIGINAL
  <2>2. todo \ {7, 8, 10} = {} /\ todo \ {10} = {}
    BY <2>1
  <2>3. MaskFits(todo \ {7, 8, 10}, {7, 8, 10})
    BY <2>2 DEF MaskFits
  <2> QED BY <2>1, <2>2, <2>3, OriginalMask DEF DICT_ORIGINAL
<1> QED BY <1>1, <1>2 DEF MaskFits

LEMMA BitsOfNumber ==
  ASSUME NEW k \in Nat, k >= 1, k <= 11
  PROVE  \A b \in BitsOf(k) : b \in {0, 1, 2, 3} /\ b <= k - 1
<1>1. \A b : b \in BitsOf(k) <=> ( \/ (b = 0 /\ k % 2 = 1)
                                  \/ (b = 1 /\ (k \div 2) % 2 = 1)
                                  \/ (b = 2 /\ (k \div 4) % 2 = 1)
                                  \/ (b = 3 /\ (k \div 8) % 2 = 1))
  <2>1. \A b : b \in BitsOf(k) <=> b \in {0, 1, 2, 3} /\ (k \div <<1, 2, 4, 8>>[b + 1]) % 2 = 1
    <3>1. 0 .. 3 = {0, 1, 2, 3}
      OBVIOUS
    <3> QED BY <3>1 DEF BitsOf
  <2>2. k \div 1 = k
    OBVIOUS
  <2>3. /\ <<1, 2, 4, 8>>[0 + 1] = 1 /\ <<1, 2, 4, 8>>[1 + 1] = 2
        /\ <<1, 2, 4, 8>>[2 + 1] = 4 /\ <<1, 2, 4, 8>>[3 + 1] = 8
    OBVIOUS
  <2> QED BY <2>1, <2>2, <2>3
<1> SUFFICES ASSUME NEW b \in BitsOf(k) PROVE b \in {0, 1, 2, 3} /\ b <= k - 1
  OBVIOUS
<1>2. CASE b = 0 /\ k % 2 = 1
  BY <1>2
<1>3. CASE b = 1 /\ (k \div 2) % 2 = 1
  BY <1>3
<1>4. CASE b = 2 /\ (k \div 4) % 2 = 1
  BY <1>4
<1>5. CASE b = 3 /\ (k \div 8) % 2 = 1
  BY <1>5
<1> QED BY <1>1, <1>2, <1>3, <1>4, <1>5

LEMMA BitsOfEleven == BitsOf(11) = {0, 1, 3}
<1>1. \A b : b \in BitsOf(11) <=> b \in {0, 1, 2, 3} /\ (11 \div <<1, 2, 4, 8>>[b + 1]) % 2 = 1
  <2>1. 0 .. 3 = {0, 1, 2, 3}
    OBVIOUS
  <2> QED BY <2>1 DEF BitsOf
<1>2. /\ <<1, 2, 4, 8>>[0 + 1] = 1 /\ <<1, 2, 4, 8>>[1 + 1] = 2
      /\ <<1, 2, 4, 8>>[2 + 1] = 4 /\ <<1, 2, 4, 8>>[3 + 1] = 8
  OBVIOUS
<1>3. 11 \div 1 = 11 /\ 11 \div 2 = 5 /\ 11 \div 4 = 2 /\ 11 \div 8 = 1
  OBVIOUS
<1>4. 11 % 2 = 1 /\ 5 % 2 = 1 /\ 2 % 2 = 0 /\ 1 % 2 = 1
  OBVIOUS
<1> QED BY <1>1, <1>2, <1>3, <1>4

\* A job that the flaw of first_mutation does not touch starts each stage well.
OneBitMask(mutations) ==
  mutations = {DICT_ORIGINAL} \/ Cardinality(first_mutation(mutations)) = 1

LEMMA FirstMask ==
  ASSUME NEW mutations \in SUBSET (0 .. 10), mutations # {}, OneBitMask(mutations)
  PROVE  MaskFits(mutations, first_mutation(mutations))
<1> DEFINE t == Min(mutations)
<1>1. mutations \in SUBSET Nat
  OBVIOUS
<1>2. t \in mutations /\ \A m \in mutations : t <= m
  BY <1>1, MinOf
<1>3. first_mutation(mutations) = BitsOf(t + 1)
  BY DEF first_mutation
<1> HIDE DEF t
<1>4. t \in Nat /\ t <= 10
  BY <1>2
<1>5. CASE mutations = {DICT_ORIGINAL}
  <2>1. t = 10
    BY <1>2, <1>5 DEF DICT_ORIGINAL
  <2>2. first_mutation(mutations) = {0, 1, 3}
    BY <1>3, <2>1, BitsOfEleven
  <2> QED BY <1>5, <2>2 DEF MaskFits
<1>6. CASE Cardinality(BitsOf(t + 1)) = 1
  <2>1. t + 1 \in Nat /\ t + 1 >= 1 /\ t + 1 <= 11 /\ (t + 1) - 1 = t
    BY <1>4
  <2>2. \A b \in BitsOf(t + 1) : b \in {0, 1, 2, 3} /\ b <= (t + 1) - 1
    BY <2>1, BitsOfNumber
  <2>3. IsFiniteSet(BitsOf(t + 1))
    <3>1. BitsOf(t + 1) \in SUBSET Nat /\ \A s \in BitsOf(t + 1) : s <= 3
      BY <2>2
    <3> QED BY <3>1, FS_BoundedSetOfNaturals
  <2>4. PICK c : BitsOf(t + 1) = {c}
    BY <1>6, <2>3, FS_Singleton
  <2>5. c \in 0 .. 10 /\ c <= t
    BY <2>1, <2>2, <2>4
  <2>6. \A m \in mutations : c <= m
    <3> SUFFICES ASSUME NEW m \in mutations PROVE c <= m
      OBVIOUS
    <3>1. t <= m /\ m \in Nat
      BY <1>1, <1>2
    <3> QED BY <1>4, <2>5, <3>1
  <2> QED BY <1>3, <2>4, <2>5, <2>6 DEF MaskFits
<1> QED BY <1>3, <1>5, <1>6 DEF OneBitMask

-----------------------------------------------------------------------------
(***************************************************************************)
(* Words, whatever their characters are.                                   *)
(***************************************************************************)
IsText(s) == \E n \in Nat : s = [i \in 1 .. n |-> s[i]]

LEMMA TextOf ==
  ASSUME NEW n \in Nat, NEW s, s = [i \in 1 .. n |-> s[i]]
  PROVE  IsText(s) /\ Len(s) = n /\ s \in Seq({s[i] : i \in 1 .. n})
<1>1. s \in [1 .. n -> {s[i] : i \in 1 .. n}]
  BY Zenon
<1>2. s \in Seq({s[i] : i \in 1 .. n})
  BY <1>1, SMTT(30)
<1>3. Len(s) = n
  BY <1>1, <1>2
<1> QED BY <1>2, <1>3 DEF IsText

LEMMA TextFacts ==
  ASSUME NEW s, IsText(s)
  PROVE  Len(s) \in Nat /\ s = [i \in 1 .. Len(s) |-> s[i]]
<1>1. PICK n \in Nat : s = [i \in 1 .. n |-> s[i]]
  BY DEF IsText
<1>2. Len(s) = n
  BY <1>1, TextOf
<1> QED BY <1>1, <1>2

\* The head of two words joined is the first, and they are as long as both.
LEMMA JoinedTexts ==
  ASSUME NEW h, IsText(h), NEW x, IsText(x)
  PROVE  /\ SubSeq(h \o x, 1, Len(h)) = h
         /\ Len(h \o x) = Len(h) + Len(x)
<1> DEFINE A == {h[i] : i \in 1 .. Len(h)} \union {x[i] : i \in 1 .. Len(x)}
<1>1. /\ Len(h) \in Nat /\ h = [i \in 1 .. Len(h) |-> h[i]]
      /\ Len(x) \in Nat /\ x = [i \in 1 .. Len(x) |-> x[i]]
  BY TextFacts
<1>2. h \in Seq({h[i] : i \in 1 .. Len(h)}) /\ x \in Seq({x[i] : i \in 1 .. Len(x)})
  BY <1>1, TextOf
<1>3. {h[i] : i \in 1 .. Len(h)} \subseteq A /\ {x[i] : i \in 1 .. Len(x)} \subseteq A
  OBVIOUS
<1> HIDE DEF A
<1>4. h \in Seq(A) /\ x \in Seq(A)
  <2>1. \A B, s : s \in Seq(B) /\ B \subseteq A => s \in Seq(A)
    <3> SUFFICES ASSUME NEW B, NEW s \in Seq(B), B \subseteq A PROVE s \in Seq(A)
      OBVIOUS
    <3>1. \A i \in 1 .. Len(s) : s[i] \in A
      OBVIOUS
    <3>2. s \in [1 .. Len(s) -> A] /\ Len(s) \in Nat
      BY <3>1
    <3> QED BY <3>2
  <2> QED BY <1>2, <1>3, <2>1
<1>5. Len(h \o x) = Len(h) + Len(x) /\ h \o x \in Seq(A)
  BY <1>4
<1>6. \A i \in 1 .. Len(h) : (h \o x)[i] = h[i]
  BY <1>4
<1>7. SubSeq(h \o x, 1, Len(h)) = [i \in 1 .. Len(h) |-> h[i]]
  <2>1. SubSeq(h \o x, 1, Len(h)) = [i \in 1 .. Len(h) |-> (h \o x)[i]]
    BY <1>1, <1>5
  <2> QED BY <1>6, <2>1
<1> QED BY <1>1, <1>5, <1>7

LEMMA WholeText ==
  ASSUME NEW h, IsText(h)
  PROVE  SubSeq(h, 1, Len(h)) = h
<1>1. Len(h) \in Nat /\ h = [i \in 1 .. Len(h) |-> h[i]]
  BY TextFacts
<1>2. h \in Seq({h[i] : i \in 1 .. Len(h)})
  BY <1>1, TextOf
<1> QED BY <1>1, <1>2

LEMMA MutatedText ==
  ASSUME NEW w, IsText(w), NEW m
  PROVE  IsText(Mutated(m, w)) /\ Len(Mutated(m, w)) = Len(w)
<1>1. CASE m = DICT_ORIGINAL
  BY <1>1 DEF Mutated
<1>2. CASE m # DICT_ORIGINAL
  <2> DEFINE v == Mutated(m, w)
  <2>1. Len(w) \in Nat
    BY TextFacts
  <2>2. v = [i \in 1 .. Len(w) |-> IF i \in Uppercased(m, w) THEN Upper[w[i]] ELSE Lower[w[i]]]
    BY <1>2 DEF Mutated
  <2> HIDE DEF v
  <2>3. v = [i \in 1 .. Len(w) |-> v[i]]
    BY <2>2
  <2>4. IsText(v) /\ Len(v) = Len(w)
    BY <2>1, <2>3, TextOf
  <2> QED BY <2>4 DEF v
<1> QED BY <1>1, <1>2

LEMMA StagedText ==
  ASSUME NEW w, IsText(w), NEW s
  PROVE  IsText(Staged(s, w)) /\ Len(Staged(s, w)) = Len(w)
<1> DEFINE v == Reverse(w)
<1>1. Len(w) \in Nat
  BY TextFacts
<1>2. v = [i \in 1 .. Len(w) |-> w[(Len(w) - i) + 1]]
  BY DEF Reverse
<1> HIDE DEF v
<1>3. v = [i \in 1 .. Len(w) |-> v[i]]
  BY <1>2
<1>4. IsText(v) /\ Len(v) = Len(w)
  BY <1>1, <1>3, TextOf
<1> QED BY <1>4 DEF v, Staged

LEMMA ShownText ==
  ASSUME NEW p, NEW k, Len(k) \in Nat
  PROVE  IsText(Shows(p, k))
<1> DEFINE v == Shows(p, k)
<1>1. v = [i \in 1 .. Len(k) |-> K(p.set)!Table(Len(k), i, k[i])]
  BY DEF Shows, K!Word
<1> HIDE DEF v
<1>2. v = [i \in 1 .. Len(k) |-> v[i]]
  BY <1>1
<1>3. IsText(v)
  BY <1>2, TextOf
<1> QED BY <1>3 DEF v

\* A word of the dictionary, in any stage and mutation, is as long as it was.
LEMMA VariantText ==
  ASSUME NEW w, IsText(w), NEW s, NEW m
  PROVE  /\ IsText(Staged(s, w)) /\ Len(Staged(s, w)) = Len(w)
         /\ IsText(Mutated(m, Staged(s, w))) /\ Len(Mutated(m, Staged(s, w))) = Len(w)
BY MutatedText, StagedText

LEMMA WordOfFile ==
  ASSUME NEW jb \in Jobs, NEW i \in 1 .. Len(jb.words)
  PROVE  IsText(jb.words[i])
<1> DEFINE w == jb.words[i]
<1>1. /\ jb.words \in Seq(ToSet(jb.words))
      /\ \A x \in ToSet(jb.words) : x \in Seq(ToSet(x))
  BY DictAssumption, Zenon DEF DictAssumption
<1>2. w \in ToSet(jb.words)
  BY <1>1 DEF ToSet
<1> HIDE DEF w
<1>3. w \in Seq(ToSet(w))
  BY <1>1, <1>2
<1>4. Len(w) \in Nat /\ w = [k \in 1 .. Len(w) |-> w[k]]
  BY <1>3
<1>5. IsText(w)
  BY <1>4, TextOf
<1> QED BY <1>5 DEF w

LEMMA JobData ==
  ASSUME NEW jb \in Jobs
  PROVE  /\ jb.stages # {} /\ jb.stages \in SUBSET (0 .. 1)
         /\ jb.mutations # {} /\ jb.mutations \in SUBSET (0 .. 10)
         /\ Len(jb.pairs) \in Nat
         /\ \A j \in 1 .. Len(jb.pairs) : PairSound(jb.pairs[j])
         /\ jb.pairs = << >> <=> Len(jb.pairs) = 0
<1>1. /\ jb.stages # {} /\ jb.stages \in SUBSET (0 .. 1)
      /\ jb.mutations # {} /\ jb.mutations \in SUBSET (0 .. 10)
      /\ jb.pairs \in Seq(ToSet(jb.pairs))
  BY DictAssumption, Zenon DEF DictAssumption
<1>2. \A p \in ToSet(jb.pairs) : PairSound(p)
  BY DictAssumption, Zenon DEF DictAssumption, PairSound
<1>3. \A j \in 1 .. Len(jb.pairs) : jb.pairs[j] \in ToSet(jb.pairs)
  BY <1>1 DEF ToSet
<1>4. jb.pairs = << >> <=> Len(jb.pairs) = 0
  BY <1>1
<1> QED BY <1>1, <1>2, <1>3, <1>4

-----------------------------------------------------------------------------
(***************************************************************************)
(* What was handed to dofunction().  S is the set of the passwords that    *)
(* were, jb the job and r the number of the word among those begun: with   *)
(* the first one, pairs that start from what malloc() left do not count.   *)
(***************************************************************************)
Put(h, p, x) == IF p.pos = 0 THEN h \o x ELSE x \o h

Shown(S, h, p) == \A k \in RoomOf(p) : Put(h, p, Shows(p, k)) \in S

ShownBefore(S, h, p, d) ==
  \A k \in RoomOf(p) : Comes(p, k, d) => Put(h, p, Shows(p, k)) \in S

Counts(jb, r, j) == ~Unset(jb.pairs[j]) \/ r > 1

Handed(S, jb, r, h) ==
  h \in S /\ \A j \in 1 .. Len(jb.pairs) : Counts(jb, r, j) => Shown(S, h, jb.pairs[j])

StageDone(S, jb, r, w, s) == \A m \in jb.mutations : Handed(S, jb, r, Mutated(m, Staged(s, w)))

WordDone(S, jb, r, w) == \A s \in jb.stages : StageDone(S, jb, r, w, s)

\* x is something that the job makes of w.
MadeOf(jb, w, x) ==
  \E s \in jb.stages, m \in jb.mutations :
    \/ x = Mutated(m, Staged(s, w))
    \/ \E j \in 1 .. Len(jb.pairs) : \E k \in RoomOf(jb.pairs[j]) :
         x = Put(Mutated(m, Staged(s, w)), jb.pairs[j], Shows(jb.pairs[j], k))

(***************************************************************************)
(* In the middle of a word: its stage and the stages before it; when no    *)
(* pair is due the mutations done; else the mutation h whose pairs are at  *)
(* work, where h is kept, and how far they are; and the generators.        *)
(***************************************************************************)
StageAt(S, jb, r, org, w, todo) ==
  \E s \in jb.stages :
    /\ w = Staged(s, org)
    /\ todo = {t \in jb.stages : t > s}
    /\ \A t \in jb.stages : t < s => StageDone(S, jb, r, org, t)

MutationsDone(S, jb, r, w, todo) ==
  \A m \in jb.mutations \ todo : Handed(S, jb, r, Mutated(m, w))

IsKept(h, w, pre, two, pw) == IF pre THEN two = h ELSE SubSeq(pw, 1, Len(w)) = h

PairAt(S, jb, r, w, todo, at, pre, two, gens, pw) ==
  \E m \in jb.mutations \ todo :
    /\ Mutated(m, w) \in S
    /\ IsKept(Mutated(m, w), w, pre, two, pw)
    /\ \A j \in 1 .. at - 1 : Counts(jb, r, j) => Shown(S, Mutated(m, w), jb.pairs[j])
    /\ Counts(jb, r, at) => ShownBefore(S, Mutated(m, w), jb.pairs[at], gens[at].digit)
    /\ \A n \in (jb.mutations \ todo) \ {m} : Handed(S, jb, r, Mutated(n, w))

VariantAt(S, jb, r, w, todo, at, pre, two, gens, pw) ==
  /\ at = 0 => todo # {} /\ MutationsDone(S, jb, r, w, todo)
  /\ at # 0 => PairAt(S, jb, r, w, todo, at, pre, two, gens, pw)

GeneratorsAt(jb, r, at, pre, gens) ==
  /\ DOMAIN gens = 1 .. Len(jb.pairs)
  /\ at \in 0 .. Len(jb.pairs)
  /\ pre \in BOOLEAN /\ (at = 0 => ~pre) /\ (pre => jb.pairs[at].pos # 0)
  /\ at # 0 => /\ IsLoose(gens[at], jb.pairs[at])
               /\ Counts(jb, r, at) => IsClean(gens[at], jb.pairs[at])
  /\ \A j \in 1 .. Len(jb.pairs) : j # at =>
       IsOver(gens[j], jb.pairs[j]) \/ (IsRaw(gens[j], jb.pairs[j]) /\ at < j /\ r = 1)

LEMMA HandedGrows ==
  ASSUME NEW S, NEW T, S \subseteq T, NEW jb, NEW r, NEW h, Handed(S, jb, r, h)
  PROVE  Handed(T, jb, r, h)
BY DEF Handed, Shown

LEMMA WordGrows ==
  ASSUME NEW S, NEW T, S \subseteq T, NEW jb, NEW r, NEW w, WordDone(S, jb, r, w)
  PROVE  WordDone(T, jb, r, w)
BY HandedGrows DEF WordDone, StageDone

LEMMA StageGrows ==
  ASSUME NEW S, NEW T, S \subseteq T, NEW jb, NEW r, NEW org, NEW w, NEW todo,
         StageAt(S, jb, r, org, w, todo)
  PROVE  StageAt(T, jb, r, org, w, todo)
<1>1. \A t : StageDone(S, jb, r, org, t) => StageDone(T, jb, r, org, t)
  BY HandedGrows DEF StageDone
<1> QED BY <1>1 DEF StageAt

LEMMA MutationsGrow ==
  ASSUME NEW S, NEW T, S \subseteq T, NEW jb, NEW r, NEW w, NEW todo, MutationsDone(S, jb, r, w, todo)
  PROVE  MutationsDone(T, jb, r, w, todo)
BY HandedGrows DEF MutationsDone

\* A word that was gone through when it was not the first counts for any.
LEMMA LaterWord ==
  ASSUME NEW S, NEW jb, NEW r \in Nat, NEW q \in Nat, r > 1 \/ ~(q > 1), NEW w, WordDone(S, jb, r, w)
  PROVE  WordDone(S, jb, q, w)
<1>1. \A h : Handed(S, jb, r, h) => Handed(S, jb, q, h)
  BY DEF Handed, Counts
<1> QED BY <1>1 DEF WordDone, StageDone

-----------------------------------------------------------------------------
(***************************************************************************)
(* A word at its beginning, or at the beginning of a stage.                *)
(***************************************************************************)
StageBegins(jb, org, w, todo) ==
  \E s \in jb.stages :
    /\ w = Staged(s, org)
    /\ todo = {t \in jb.stages : t > s}
    /\ \A t \in jb.stages : ~(t < s)

LEMMA FirstStageBegins ==
  ASSUME NEW jb \in Jobs, NEW org
  PROVE  StageBegins(jb, org, Staged(Min(jb.stages), org), jb.stages \ {Min(jb.stages)})
<1> DEFINE s == Min(jb.stages)
<1>1. jb.stages \in SUBSET Nat /\ jb.stages # {}
  BY JobData
<1>2. s \in jb.stages /\ \A t \in jb.stages : s <= t
  BY <1>1, MinOf
<1> HIDE DEF s
<1>3. jb.stages \ {s} = {t \in jb.stages : t > s}
  BY <1>1, <1>2
<1>4. \A t \in jb.stages : ~(t < s)
  BY <1>1, <1>2
<1>5. StageBegins(jb, org, Staged(s, org), jb.stages \ {s})
  BY <1>2, <1>3, <1>4 DEF StageBegins
<1> QED BY <1>5 DEF s

LEMMA BeginsAt ==
  ASSUME NEW jb, NEW S, NEW r, NEW org, NEW w, NEW todo, StageBegins(jb, org, w, todo)
  PROVE  StageAt(S, jb, r, org, w, todo)
BY DEF StageBegins, StageAt

\* The next stage, when all mutations of this one were handed over.
LEMMA NextStageAt ==
  ASSUME NEW jb \in Jobs, NEW S, NEW r, NEW org, NEW w, NEW todo, StageAt(S, jb, r, org, w, todo),
         MutationsDone(S, jb, r, w, {}), todo # {}
  PROVE  StageAt(S, jb, r, org, Staged(Min(todo), org), todo \ {Min(todo)})
<1> DEFINE n == Min(todo)
<1>1. PICK s \in jb.stages :
        /\ w = Staged(s, org)
        /\ todo = {t \in jb.stages : t > s}
        /\ \A t \in jb.stages : t < s => StageDone(S, jb, r, org, t)
  BY DEF StageAt
<1>2. jb.stages \in SUBSET Nat
  BY JobData
<1>3. n \in todo /\ \A t \in todo : n <= t
  BY <1>1, <1>2, MinOf
<1> HIDE DEF n
<1>4. n \in jb.stages /\ n > s /\ s \in Nat /\ n \in Nat
  BY <1>1, <1>2, <1>3
<1>5. todo \ {n} = {t \in jb.stages : t > n}
  BY <1>1, <1>2, <1>3, <1>4
<1>6. ASSUME NEW t \in jb.stages, t < n PROVE StageDone(S, jb, r, org, t)
  <2>1. StageDone(S, jb, r, org, s)
    BY <1>1 DEF MutationsDone, StageDone
  <2>2. t < s \/ t = s
    <3>1. t \in Nat /\ ~(t > s)
      BY <1>1, <1>2, <1>3, <1>4, <1>6
    <3> QED BY <1>4, <3>1
  <2> QED BY <1>1, <2>1, <2>2
<1>7. StageAt(S, jb, r, org, Staged(n, org), todo \ {n})
  BY <1>4, <1>5, <1>6 DEF StageAt
<1> QED BY <1>7 DEF n

\* After the last mutation of the last stage the whole word was handed over.
LEMMA WordAtEnd ==
  ASSUME NEW jb \in Jobs, NEW S, NEW r, NEW org, NEW w, StageAt(S, jb, r, org, w, {}),
         MutationsDone(S, jb, r, w, {})
  PROVE  WordDone(S, jb, r, org)
<1>1. PICK s \in jb.stages :
        /\ w = Staged(s, org)
        /\ {} = {t \in jb.stages : t > s}
        /\ \A t \in jb.stages : t < s => StageDone(S, jb, r, org, t)
  BY DEF StageAt
<1>2. jb.stages \in SUBSET Nat
  BY JobData
<1>3. StageDone(S, jb, r, org, s)
  BY <1>1 DEF MutationsDone, StageDone
<1>4. \A t \in jb.stages : t < s \/ t = s
  BY <1>1, <1>2
<1> QED BY <1>1, <1>3, <1>4 DEF WordDone

-----------------------------------------------------------------------------
(***************************************************************************)
(* pwddict_trynext() when the last mutation is done: the next one, the     *)
(* next stage, or the word is through and another one is asked for.  T is  *)
(* what will have been handed over by then.                                *)
(***************************************************************************)
GoesOn(T) ==
  /\ UNCHANGED fileVars
  /\ done_mutations' \subseteq job.mutations /\ done_mutations' # {}
  /\ MaskFits(done_mutations', cur_mutation')
  /\ MutationsDone(T, job, rounds, word', done_mutations')
  /\ StageAt(T, job, rounds, org_word', word', done_stages')

WordBegins ==
  /\ done_mutations' = job.mutations
  /\ MaskFits(done_mutations', cur_mutation')
  /\ StageBegins(job, org_word', word', done_stages')

AsksForWord(T, rc) ==
  /\ done_stages = {}
  /\ pwddict_nextword(rc)
  /\ WordDone(T, job, rounds, org_word)
  /\ rc = 0 => WordBegins

LEMMA TryNextGoes ==
  ASSUME job \in Jobs, OneBitMask(job.mutations), NEW T, NEW todo, NEW mask, NEW rc,
         pwddict_trynext(todo, mask, rc), todo \subseteq job.mutations, MaskFits(todo, mask),
         MutationsDone(T, job, rounds, word, todo),
         StageAt(T, job, rounds, org_word, word, done_stages)
  PROVE  (rc = 0 /\ GoesOn(T)) \/ AsksForWord(T, rc)
<1>1. CASE NextMutation(todo, mask) /\ rc = 0
  <2>1. /\ todo # {} /\ done_mutations' = todo /\ cur_mutation' = mask
        /\ UNCHANGED fileVars /\ word' = word /\ done_stages' = done_stages /\ org_word' = org_word
    BY <1>1 DEF NextMutation, fileVars, stageVars
  <2> QED BY <1>1, <2>1 DEF GoesOn
<1>2. ASSUME todo = {}, RestartMutations
      PROVE  /\ done_mutations' = job.mutations /\ done_mutations' # {}
             /\ MaskFits(done_mutations', cur_mutation')
             /\ \A w : MutationsDone(T, job, rounds, w, done_mutations')
  <2>1. done_mutations' = job.mutations /\ cur_mutation' = first_mutation(job.mutations)
    BY <1>2 DEF RestartMutations
  <2>2. job.mutations \in SUBSET (0 .. 10) /\ job.mutations # {}
    BY JobData
  <2> QED BY <2>1, <2>2, FirstMask DEF MutationsDone
<1>3. CASE todo = {} /\ RestartMutations /\ NextStage /\ rc = 0
  <2>1. /\ done_stages # {} /\ UNCHANGED fileVars /\ org_word' = org_word
        /\ word' = Staged(Min(done_stages), org_word)
        /\ done_stages' = done_stages \ {Min(done_stages)}
    BY <1>3 DEF NextStage, pwddict_stage, fileVars
  <2>2. StageAt(T, job, rounds, org_word, word', done_stages')
    BY <1>3, <2>1, NextStageAt
  <2> QED BY <1>2, <1>3, <2>1, <2>2 DEF GoesOn
<1>4. CASE todo = {} /\ RestartMutations /\ NextWord(rc)
  <2>1. /\ done_stages = {} /\ pwddict_nextword(rc)
        /\ rc = 0 => /\ word' = Staged(Min(job.stages), org_word')
                     /\ done_stages' = job.stages \ {Min(job.stages)}
    BY <1>4 DEF NextWord, pwddict_stage
  <2>2. WordDone(T, job, rounds, org_word)
    BY <1>4, <2>1, WordAtEnd
  <2>3. rc = 0 => StageBegins(job, org_word', word', done_stages')
    BY <2>1, FirstStageBegins
  <2> QED BY <1>2, <1>4, <2>1, <2>2, <2>3 DEF AsksForWord, WordBegins
<1> QED BY <1>1, <1>3, <1>4 DEF pwddict_trynext

-----------------------------------------------------------------------------
(***************************************************************************)
(* pwddict_next() when a pair is due.                                      *)
(***************************************************************************)
LEMMA CombinedText ==
  ASSUME NEW h, IsText(h), Len(h) = Len(word), NEW gen, IsText(gen.pwd), NEW p,
         IsKept(h, word, prepend, word_2, pwd), prepend \in BOOLEAN, prepend => p.pos # 0,
         Combine(p, gen)
  PROVE  /\ pwd' = Put(h, p, gen.pwd)
         /\ p.pos # 0 => word_2' = h
         /\ p.pos = 0 => SubSeq(pwd', 1, Len(word)) = h
<1>1. CASE p.pos = 0
  <2>1. ~prepend /\ pwd' = Head_of_pwd \o gen.pwd
    BY <1>1 DEF Combine
  <2>2. Head_of_pwd = h
    BY <2>1 DEF IsKept, Head_of_pwd
  <2>3. SubSeq(h \o gen.pwd, 1, Len(h)) = h
    BY JoinedTexts
  <2> QED BY <1>1, <2>1, <2>2, <2>3 DEF Put
<1>2. CASE p.pos # 0
  <2>1. word_2' = SavedWord /\ pwd' = gen.pwd \o word_2'
    BY <1>2 DEF Combine
  <2>2. SavedWord = h
    BY DEF IsKept, SavedWord, Head_of_pwd
  <2> QED BY <1>2, <2>1, <2>2 DEF Put
<1> QED BY <1>1, <1>2

AllOver(jb, gens) ==
  DOMAIN gens = 1 .. Len(jb.pairs) /\ \A j \in 1 .. Len(jb.pairs) : IsOver(gens[j], jb.pairs[j])

LEMMA OverBetween ==
  ASSUME NEW jb \in Jobs, NEW gens, AllOver(jb, gens), NEW r
  PROVE  GeneratorsAt(jb, r, 0, FALSE, gens)
<1>1. 0 \in 0 .. Len(jb.pairs)
  BY JobData
<1> QED BY <1>1 DEF AllOver, GeneratorsAt

PairGoesOn(T) ==
  /\ append' # 0
  /\ GeneratorsAt(job, rounds, append', prepend', gen_pwd')
  /\ PairAt(T, job, rounds, word, done_mutations, append', prepend', word_2', gen_pwd', pwd')
  /\ UNCHANGED <<done_mutations, cur_mutation, stageVars, fileVars>>

PairsEnd(T, rc) ==
  /\ append' = 0 /\ prepend' = FALSE
  /\ AllOver(job, gen_pwd')
  /\ MutationsDone(T, job, rounds, word, done_mutations)
  /\ pwddict_trynext(done_mutations, cur_mutation, rc)

\* A generator that is set back, in the middle of a variant.
LEMMA SetBackAt ==
  ASSUME NEW jb \in Jobs, NEW r, NEW j \in 1 .. Len(jb.pairs), NEW g,
         IsOver(g, jb.pairs[j]) \/ (IsRaw(g, jb.pairs[j]) /\ r = 1), NEW S, NEW h
  PROVE  /\ IsLoose(pwdgen_reinit(g, jb.pairs[j]), jb.pairs[j])
         /\ Counts(jb, r, j) => IsClean(pwdgen_reinit(g, jb.pairs[j]), jb.pairs[j])
         /\ Counts(jb, r, j) =>
              ShownBefore(S, h, jb.pairs[j], pwdgen_reinit(g, jb.pairs[j]).digit)
<1> DEFINE p == jb.pairs[j]
           next == pwdgen_reinit(g, p)
<1>1. PairSound(p)
  BY JobData
<1>2. Counts(jb, r, j) => IsOver(g, p) \/ ~Unset(p)
  BY DEF Counts
<1> HIDE DEF p
<1>3. IsOver(g, p) \/ IsRaw(g, p)
  BY DEF p
<1>4. IsLoose(next, p)
  BY <1>1, <1>3, SetBackGenerator
<1>5. Counts(jb, r, j) => IsClean(next, p) /\ \A q \in RoomOf(p) : ~Comes(p, q, next.digit)
  BY <1>1, <1>2, <1>3, SetBackGenerator
<1> HIDE DEF next
<1>6. Counts(jb, r, j) => ShownBefore(S, h, p, next.digit)
  BY <1>5 DEF ShownBefore
<1> QED BY <1>4, <1>5, <1>6 DEF p, next

\* A generator that goes on: what was shown before its next password, and that all
\* was when its passwords get too long.
LEMMA GoesOnAt ==
  ASSUME NEW p, PairSound(p), NEW g, IsLoose(g, p), NEW C, C \in BOOLEAN, C => IsClean(g, p),
         NEW S, NEW T, NEW h, C => ShownBefore(S, h, p, g.digit),
         S \subseteq T, Put(h, p, g.pwd) \in T
  PROVE  /\ Len(pwdgen_next(g, p).digit) > p.endlen =>
              IsOver(pwdgen_next(g, p), p) /\ (C => Shown(T, h, p))
         /\ ~(Len(pwdgen_next(g, p).digit) > p.endlen) =>
              /\ IsLoose(pwdgen_next(g, p), p)
              /\ C => IsClean(pwdgen_next(g, p), p) /\ ShownBefore(T, h, p, pwdgen_next(g, p).digit)
<1> DEFINE next == pwdgen_next(g, p)
<1>1. /\ Len(next.digit) > p.endlen => IsOver(next, p)
      /\ ~(Len(next.digit) > p.endlen) => IsLoose(next, p)
  BY NextIsLoose
<1>2. ASSUME C
      PROVE  /\ Len(next.digit) > p.endlen =>
                  \A q \in RoomOf(p) : Comes(p, q, g.digit) \/ q = g.digit
             /\ ~(Len(next.digit) > p.endlen) =>
                  /\ IsClean(next, p)
                  /\ \A q \in RoomOf(p) : Comes(p, q, next.digit) => Comes(p, q, g.digit) \/ q = g.digit
  BY <1>2, NextIsClean
<1> HIDE DEF next
<1>3. ASSUME C, NEW q \in RoomOf(p), Comes(p, q, g.digit) \/ q = g.digit
      PROVE  Put(h, p, Shows(p, q)) \in T
  <2>1. CASE q = g.digit
    BY <1>3, <2>1 DEF IsClean
  <2>2. CASE Comes(p, q, g.digit)
    BY <1>3, <2>2 DEF ShownBefore
  <2> QED BY <1>3, <2>1, <2>2
<1>4. ASSUME C, Len(next.digit) > p.endlen PROVE Shown(T, h, p)
  BY <1>2, <1>3, <1>4 DEF Shown
<1>5. ASSUME C, ~(Len(next.digit) > p.endlen) PROVE ShownBefore(T, h, p, next.digit)
  BY <1>2, <1>3, <1>5 DEF ShownBefore
<1> QED BY <1>1, <1>2, <1>4, <1>5 DEF next

LEMMA AddPairGoes ==
  ASSUME job \in Jobs, PrependsLast, IsText(word), NEW rc, AddPair(rc),
         GeneratorsAt(job, rounds, append, prepend, gen_pwd),
         PairAt(given, job, rounds, word, done_mutations, append, prepend, word_2, gen_pwd, pwd),
         NEW T, given \subseteq T, pwd' \in T
  PROVE  /\ append \in 1 .. Len(job.pairs)
         /\ \E m \in job.mutations, k \in RoomOf(job.pairs[append]) :
              pwd' = Put(Mutated(m, word), job.pairs[append], Shows(job.pairs[append], k))
         /\ (rc = 0 /\ PairGoesOn(T)) \/ PairsEnd(T, rc)
<1> DEFINE at == append
           p == job.pairs[at]
           g == gen_pwd[at]
           next == pwdgen_next(g, p)
           C == Counts(job, rounds, at)
<1>1. /\ at # 0 /\ Combine(p, g)
      /\ \/ /\ ~(Len(next.digit) > p.endlen)
            /\ prepend' = (prepend \/ p.pos # 0)
            /\ gen_pwd' = [gen_pwd EXCEPT ![at] = next]
            /\ rc = 0
            /\ UNCHANGED <<append, done_mutations, cur_mutation, stageVars, fileVars>>
         \/ /\ Len(next.digit) > p.endlen /\ at < Len(job.pairs)
            /\ append' = at + 1 /\ prepend' = FALSE
            /\ gen_pwd' = [gen_pwd EXCEPT ![at] = next,
                                          ![at + 1] = pwdgen_reinit(@, job.pairs[at + 1])]
            /\ rc = 0
            /\ UNCHANGED <<done_mutations, cur_mutation, stageVars, fileVars>>
         \/ /\ Len(next.digit) > p.endlen /\ at = Len(job.pairs)
            /\ append' = 0 /\ prepend' = FALSE
            /\ gen_pwd' = [gen_pwd EXCEPT ![at] = next]
            /\ pwddict_trynext(done_mutations, cur_mutation, rc)
  BY DEF AddPair
<1> HIDE DEF next
<1>2. /\ Len(job.pairs) \in Nat /\ at \in 1 .. Len(job.pairs) /\ DOMAIN gen_pwd = 1 .. Len(job.pairs)
      /\ prepend \in BOOLEAN /\ (prepend => p.pos # 0)
      /\ IsLoose(g, p) /\ (C => IsClean(g, p))
      /\ \A j \in 1 .. Len(job.pairs) : j # at =>
           IsOver(gen_pwd[j], job.pairs[j]) \/ (IsRaw(gen_pwd[j], job.pairs[j]) /\ at < j /\ rounds = 1)
  <2>1. Len(job.pairs) \in Nat
    BY JobData
  <2> QED BY <1>1, <2>1 DEF GeneratorsAt
<1>3. PairSound(p)
  BY <1>2, JobData
<1>4. PICK m \in job.mutations \ done_mutations :
        /\ Mutated(m, word) \in given
        /\ IsKept(Mutated(m, word), word, prepend, word_2, pwd)
        /\ \A j \in 1 .. at - 1 : Counts(job, rounds, j) => Shown(given, Mutated(m, word), job.pairs[j])
        /\ C => ShownBefore(given, Mutated(m, word), p, g.digit)
        /\ \A n \in (job.mutations \ done_mutations) \ {m} : Handed(given, job, rounds, Mutated(n, word))
  BY DEF PairAt
<1> DEFINE h == Mutated(m, word)
<1>5. IsText(h) /\ Len(h) = Len(word)
  BY MutatedText
<1>6. PICK k \in RoomOf(p) : g.pwd = Shows(p, k)
  <2>1. PICK n \in p.startlen .. p.endlen : \E x \in K(p.set)!KeysOfLength(n) : g.pwd = Shows(p, x)
    BY <1>2 DEF IsLoose
  <2> QED BY <2>1 DEF RoomOf
<1>7. IsText(g.pwd)
  <2>1. Len(k) \in Nat
    BY <1>3, <1>6, RoomFacts
  <2> QED BY <1>6, <2>1, ShownText
<1> HIDE DEF p, g, h
<1>8. /\ pwd' = Put(h, p, g.pwd)
      /\ p.pos # 0 => word_2' = h
      /\ p.pos = 0 => SubSeq(pwd', 1, Len(word)) = h
  BY <1>1, <1>2, <1>4, <1>5, <1>7, CombinedText DEF h
<1>9. /\ Len(next.digit) > p.endlen => IsOver(next, p) /\ (C => Shown(T, h, p))
      /\ ~(Len(next.digit) > p.endlen) =>
           /\ IsLoose(next, p)
           /\ C => IsClean(next, p) /\ ShownBefore(T, h, p, next.digit)
  <2>1. C \in BOOLEAN
    BY DEF Counts
  <2> HIDE DEF C
  <2>2. C => ShownBefore(given, h, p, g.digit)
    BY <1>4 DEF h
  <2> QED BY <1>2, <1>3, <1>8, <2>1, <2>2, GoesOnAt DEF next
<1>10. /\ h \in T
       /\ \A j \in 1 .. at - 1 : Counts(job, rounds, j) => Shown(T, h, job.pairs[j])
       /\ \A n \in (job.mutations \ done_mutations) \ {m} : Handed(T, job, rounds, Mutated(n, word))
  <2>1. \A x, q : Shown(given, x, q) => Shown(T, x, q)
    BY DEF Shown
  <2> QED BY <1>4, <2>1, HandedGrows DEF h
<1>11. \E x \in job.mutations, q \in RoomOf(p) : pwd' = Put(Mutated(x, word), p, Shows(p, q))
  BY <1>4, <1>6, <1>8 DEF h
<1>12. CASE /\ ~(Len(next.digit) > p.endlen)
            /\ prepend' = (prepend \/ p.pos # 0)
            /\ gen_pwd' = [gen_pwd EXCEPT ![at] = next]
            /\ rc = 0
            /\ UNCHANGED <<append, done_mutations, cur_mutation, stageVars, fileVars>>
  <2>1. /\ DOMAIN gen_pwd' = 1 .. Len(job.pairs) /\ gen_pwd'[at] = next
        /\ \A j \in 1 .. Len(job.pairs) : j # at => gen_pwd'[j] = gen_pwd[j]
    BY <1>2, <1>12
  <2>2. prepend' \in BOOLEAN /\ (prepend' => p.pos # 0) /\ (prepend' => word_2' = h)
        /\ (~prepend' => SubSeq(pwd', 1, Len(word)) = h)
    BY <1>2, <1>8, <1>12
  <2>3. GeneratorsAt(job, rounds, at, prepend', gen_pwd')
    BY <1>1, <1>2, <1>9, <1>12, <2>1, <2>2 DEF GeneratorsAt, p
  <2>4. IsKept(h, word, prepend', word_2', pwd')
    BY <2>2 DEF IsKept
  <2>5. PairAt(T, job, rounds, word, done_mutations, at, prepend', word_2', gen_pwd', pwd')
    BY <1>4, <1>9, <1>10, <1>12, <2>1, <2>4 DEF PairAt, p, h
  <2>6. PairGoesOn(T)
    BY <1>1, <1>12, <2>3, <2>5 DEF PairGoesOn
  <2> QED BY <1>2, <1>11, <1>12, <2>6 DEF p
<1>13. CASE /\ Len(next.digit) > p.endlen /\ at < Len(job.pairs)
            /\ append' = at + 1 /\ prepend' = FALSE
            /\ gen_pwd' = [gen_pwd EXCEPT ![at] = next,
                                          ![at + 1] = pwdgen_reinit(@, job.pairs[at + 1])]
            /\ rc = 0
            /\ UNCHANGED <<done_mutations, cur_mutation, stageVars, fileVars>>
  <2> DEFINE b == at + 1
             q == job.pairs[b]
             again == pwdgen_reinit(gen_pwd[b], q)
  <2>1. b \in 1 .. Len(job.pairs) /\ b # at /\ b # 0 /\ at < b /\ b - 1 = at /\ b \in 0 .. Len(job.pairs)
    BY <1>2, <1>13
  <2>2. /\ DOMAIN gen_pwd' = 1 .. Len(job.pairs) /\ gen_pwd'[at] = next
        /\ gen_pwd'[b] = again
        /\ \A j \in 1 .. Len(job.pairs) : j # at /\ j # b => gen_pwd'[j] = gen_pwd[j]
    BY <1>2, <1>13, <2>1
  <2>3. IsOver(gen_pwd[b], q) \/ (IsRaw(gen_pwd[b], q) /\ rounds = 1)
    BY <1>2, <2>1
  <2>4. /\ IsLoose(again, q)
        /\ Counts(job, rounds, b) => IsClean(again, q)
        /\ Counts(job, rounds, b) => ShownBefore(T, h, q, again.digit)
    BY <2>1, <2>3, SetBackAt
  <2>5. p.pos = 0
    BY <1>2, <1>13 DEF PrependsLast, p
  <2>6. IsKept(h, word, prepend', word_2', pwd')
    BY <1>8, <1>13, <2>5 DEF IsKept
  <2> HIDE DEF b, again
  <2>7. \A j \in 1 .. Len(job.pairs) : j # b =>
          IsOver(gen_pwd'[j], job.pairs[j]) \/ (IsRaw(gen_pwd'[j], job.pairs[j]) /\ b < j /\ rounds = 1)
    <3> SUFFICES ASSUME NEW j \in 1 .. Len(job.pairs), j # b
                 PROVE  IsOver(gen_pwd'[j], job.pairs[j])
                          \/ (IsRaw(gen_pwd'[j], job.pairs[j]) /\ b < j /\ rounds = 1)
      OBVIOUS
    <3>1. CASE j = at
      BY <1>9, <1>13, <2>2, <3>1 DEF p
    <3>2. CASE j # at
      <4>1. gen_pwd'[j] = gen_pwd[j] /\ (at < j => b < j)
        BY <1>2, <2>1, <2>2, <3>2
      <4> QED BY <1>2, <3>2, <4>1
    <3> QED BY <3>1, <3>2
  <2>8. GeneratorsAt(job, rounds, b, prepend', gen_pwd')
    BY <1>13, <2>1, <2>2, <2>4, <2>7 DEF GeneratorsAt
  <2>9. \A j \in 1 .. b - 1 : Counts(job, rounds, j) => Shown(T, h, job.pairs[j])
    <3> SUFFICES ASSUME NEW j \in 1 .. b - 1, Counts(job, rounds, j) PROVE Shown(T, h, job.pairs[j])
      OBVIOUS
    <3>1. CASE j = at
      BY <1>9, <1>13, <3>1 DEF p
    <3>2. CASE j # at
      <4>1. j \in 1 .. at - 1
        BY <1>2, <2>1, <3>2
      <4> QED BY <1>10, <4>1
    <3> QED BY <3>1, <3>2
  <2>10. PairAt(T, job, rounds, word, done_mutations, b, prepend', word_2', gen_pwd', pwd')
    BY <1>4, <1>10, <2>2, <2>4, <2>6, <2>9 DEF PairAt, h
  <2>11. append' = b
    BY <1>13 DEF b
  <2>12. PairGoesOn(T)
    BY <1>13, <2>1, <2>8, <2>10, <2>11 DEF PairGoesOn
  <2> QED BY <1>2, <1>11, <1>13, <2>12 DEF p
<1>14. CASE /\ Len(next.digit) > p.endlen /\ at = Len(job.pairs)
            /\ append' = 0 /\ prepend' = FALSE
            /\ gen_pwd' = [gen_pwd EXCEPT ![at] = next]
            /\ pwddict_trynext(done_mutations, cur_mutation, rc)
  <2>1. /\ DOMAIN gen_pwd' = 1 .. Len(job.pairs) /\ gen_pwd'[at] = next
        /\ \A j \in 1 .. Len(job.pairs) : j # at => gen_pwd'[j] = gen_pwd[j]
    BY <1>2, <1>14
  <2>2. AllOver(job, gen_pwd')
    <3> SUFFICES ASSUME NEW j \in 1 .. Len(job.pairs) PROVE IsOver(gen_pwd'[j], job.pairs[j])
      BY <2>1 DEF AllOver
    <3>1. CASE j = at
      BY <1>9, <1>14, <2>1, <3>1 DEF p
    <3>2. CASE j # at
      <4>1. ~(at < j)
        BY <1>2, <1>14
      <4> QED BY <1>2, <2>1, <3>2, <4>1
    <3> QED BY <3>1, <3>2
  <2>3. Handed(T, job, rounds, h)
    <3> SUFFICES ASSUME NEW j \in 1 .. Len(job.pairs), Counts(job, rounds, j) PROVE Shown(T, h, job.pairs[j])
      BY <1>10 DEF Handed
    <3>1. CASE j = at
      BY <1>9, <1>14, <3>1 DEF p
    <3>2. CASE j # at
      <4>1. j \in 1 .. at - 1
        BY <1>2, <1>14, <3>2
      <4> QED BY <1>10, <4>1
    <3> QED BY <3>1, <3>2
  <2>4. MutationsDone(T, job, rounds, word, done_mutations)
    BY <1>10, <2>3 DEF MutationsDone, h
  <2>5. PairsEnd(T, rc)
    BY <1>14, <2>2, <2>4 DEF PairsEnd
  <2> QED BY <1>2, <1>11, <2>5 DEF p
<1> QED
  <2> HIDE DEF at
  <2>1. \/ /\ ~(Len(next.digit) > p.endlen)
           /\ prepend' = (prepend \/ p.pos # 0)
           /\ gen_pwd' = [gen_pwd EXCEPT ![at] = next]
           /\ rc = 0
           /\ UNCHANGED <<append, done_mutations, cur_mutation, stageVars, fileVars>>
        \/ /\ Len(next.digit) > p.endlen /\ at < Len(job.pairs)
           /\ append' = at + 1 /\ prepend' = FALSE
           /\ gen_pwd' = [gen_pwd EXCEPT ![at] = next,
                                         ![at + 1] = pwdgen_reinit(@, job.pairs[at + 1])]
           /\ rc = 0
           /\ UNCHANGED <<done_mutations, cur_mutation, stageVars, fileVars>>
        \/ /\ Len(next.digit) > p.endlen /\ at = Len(job.pairs)
           /\ append' = 0 /\ prepend' = FALSE
           /\ gen_pwd' = [gen_pwd EXCEPT ![at] = next]
           /\ pwddict_trynext(done_mutations, cur_mutation, rc)
    BY <1>1
  <2> QED BY <1>12, <1>13, <1>14, <2>1, Zenon DEF at

-----------------------------------------------------------------------------
(***************************************************************************)
(* pwddict_next() when no pair is due: the word in its next mutation.      *)
(***************************************************************************)
VariantEnds(T, rc) ==
  \E todo, mask :
    /\ todo \subseteq job.mutations /\ MaskFits(todo, mask)
    /\ MutationsDone(T, job, rounds, word, todo)
    /\ pwddict_trynext(todo, mask, rc)

LEMMA NextVariantGoes ==
  ASSUME job \in Jobs, IsText(word), NEW rc, NextVariant(rc),
         done_mutations \subseteq job.mutations, MaskFits(done_mutations, cur_mutation),
         GeneratorsAt(job, rounds, append, prepend, gen_pwd),
         done_mutations # {}, MutationsDone(given, job, rounds, word, done_mutations),
         NEW T, given \subseteq T, pwd' \in T
  PROVE  /\ append = 0 /\ ~prepend
         /\ \E m \in job.mutations : pwd' = Mutated(m, word)
         /\ \/ /\ rc = 0 /\ append' # 0
               /\ done_mutations' \subseteq job.mutations /\ MaskFits(done_mutations', cur_mutation')
               /\ GeneratorsAt(job, rounds, append', prepend', gen_pwd')
               /\ PairAt(T, job, rounds, word, done_mutations', append', prepend', word_2', gen_pwd', pwd')
               /\ UNCHANGED <<stageVars, fileVars>>
            \/ /\ UNCHANGED pairVars /\ AllOver(job, gen_pwd)
               /\ VariantEnds(T, rc)
<1> DEFINE mask == Next_mutation(cur_mutation, done_mutations)
           todo == done_mutations \ mask
<1>1. /\ append = 0 /\ pwd' = MutateBy(mask, word)
      /\ \/ /\ job.pairs = << >>
            /\ pwddict_trynext(todo, mask, rc)
            /\ UNCHANGED pairVars
         \/ /\ job.pairs # << >>
            /\ append' = 1
            /\ gen_pwd' = [gen_pwd EXCEPT ![1] = pwdgen_reinit(@, job.pairs[1])]
            /\ done_mutations' = todo /\ cur_mutation' = mask
            /\ rc = 0
            /\ UNCHANGED <<prepend, word_2, stageVars, fileVars>>
  BY DEF NextVariant
<1>2. done_mutations \in SUBSET (0 .. 10) /\ Len(job.pairs) \in Nat /\ (job.pairs = << >> <=> Len(job.pairs) = 0)
  BY JobData
<1>3. PICK m \in done_mutations :
        /\ todo = done_mutations \ {m}
        /\ MaskFits(todo, mask)
        /\ \A w : MutateBy(mask, w) = Mutated(m, w)
  BY <1>2, NextMask
<1> HIDE DEF todo, mask
<1> DEFINE h == Mutated(m, word)
<1>4. pwd' = h /\ h \in T /\ m \in job.mutations
  BY <1>1, <1>3
<1>5. IsText(h) /\ Len(h) = Len(word)
  BY MutatedText
<1>6. todo \subseteq job.mutations /\ m \notin todo
      /\ \A n \in (job.mutations \ todo) \ {m} : n \in job.mutations \ done_mutations
  BY <1>3
<1>7. \A n \in (job.mutations \ todo) \ {m} : Handed(T, job, rounds, Mutated(n, word))
  BY <1>6, HandedGrows DEF MutationsDone
<1>8. /\ ~prepend /\ DOMAIN gen_pwd = 1 .. Len(job.pairs) /\ prepend \in BOOLEAN
      /\ \A j \in 1 .. Len(job.pairs) :
           IsOver(gen_pwd[j], job.pairs[j]) \/ (IsRaw(gen_pwd[j], job.pairs[j]) /\ rounds = 1)
  <2>1. \A j \in 1 .. Len(job.pairs) : j # append
    BY <1>1, <1>2
  <2> QED BY <1>1, <2>1 DEF GeneratorsAt
<1> HIDE DEF h
<1>9. CASE /\ job.pairs = << >>
           /\ pwddict_trynext(todo, mask, rc)
           /\ UNCHANGED pairVars
  <2>1. ~\E j \in 1 .. Len(job.pairs) : TRUE
    BY <1>2, <1>9
  <2>2. AllOver(job, gen_pwd)
    BY <1>8, <2>1 DEF AllOver
  <2>3. Handed(T, job, rounds, h)
    BY <1>4, <2>1 DEF Handed
  <2>4. MutationsDone(T, job, rounds, word, todo)
    BY <1>7, <2>3 DEF MutationsDone, h
  <2>5. VariantEnds(T, rc)
    BY <1>3, <1>6, <1>9, <2>4 DEF VariantEnds
  <2> QED BY <1>1, <1>4, <1>8, <1>9, <2>2, <2>5 DEF h
<1>10. CASE /\ job.pairs # << >>
            /\ append' = 1
            /\ gen_pwd' = [gen_pwd EXCEPT ![1] = pwdgen_reinit(@, job.pairs[1])]
            /\ done_mutations' = todo /\ cur_mutation' = mask
            /\ rc = 0
            /\ UNCHANGED <<prepend, word_2, stageVars, fileVars>>
  <2> DEFINE q == job.pairs[1]
             again == pwdgen_reinit(gen_pwd[1], q)
  <2>1. 1 \in 1 .. Len(job.pairs) /\ 1 \in 0 .. Len(job.pairs)
    BY <1>2, <1>10
  <2>2. /\ DOMAIN gen_pwd' = 1 .. Len(job.pairs) /\ gen_pwd'[1] = again
        /\ \A j \in 1 .. Len(job.pairs) : j # 1 => gen_pwd'[j] = gen_pwd[j]
    BY <1>8, <1>10, <2>1
  <2>3. IsOver(gen_pwd[1], q) \/ (IsRaw(gen_pwd[1], q) /\ rounds = 1)
    BY <1>8, <2>1
  <2>4. /\ IsLoose(again, q)
        /\ Counts(job, rounds, 1) => IsClean(again, q)
        /\ Counts(job, rounds, 1) => ShownBefore(T, h, q, again.digit)
    BY <2>1, <2>3, SetBackAt
  <2> HIDE DEF again
  <2>5. \A j \in 1 .. Len(job.pairs) : j # 1 =>
          IsOver(gen_pwd'[j], job.pairs[j]) \/ (IsRaw(gen_pwd'[j], job.pairs[j]) /\ 1 < j /\ rounds = 1)
    BY <1>2, <1>8, <2>2
  <2>6. GeneratorsAt(job, rounds, 1, prepend', gen_pwd')
    BY <1>8, <1>10, <2>1, <2>2, <2>4, <2>5 DEF GeneratorsAt
  <2>7. IsKept(h, word, prepend', word_2', pwd')
    BY <1>4, <1>5, <1>8, <1>10, WholeText DEF IsKept
  <2>8. ~\E j \in 1 .. 1 - 1 : TRUE
    OBVIOUS
  <2>9. PairAt(T, job, rounds, word, todo, 1, prepend', word_2', gen_pwd', pwd')
    BY <1>4, <1>6, <1>7, <2>2, <2>4, <2>7, <2>8 DEF PairAt, h
  <2> QED BY <1>1, <1>3, <1>4, <1>6, <1>8, <1>10, <2>6, <2>9 DEF h
<1> QED BY <1>1, <1>9, <1>10

-----------------------------------------------------------------------------
(***************************************************************************)
(* In the middle of a word.  What was seen are the passwords handed to     *)
(* dofunction() and the one that is about to be.                           *)
(***************************************************************************)
Seen == given \union (IF phase = "made" THEN {pwd} ELSE {})

MidWord ==
  /\ done_mutations \subseteq job.mutations /\ MaskFits(done_mutations, cur_mutation)
  /\ GeneratorsAt(job, rounds, append, prepend, gen_pwd)
  /\ VariantAt(Seen, job, rounds, word, done_mutations, append, prepend, word_2, gen_pwd, pwd)
  /\ StageAt(Seen, job, rounds, org_word, word, done_stages)

\* The same after a step, when T was seen and r words begun.
MidNext(T, r) ==
  /\ done_mutations' \subseteq job.mutations /\ MaskFits(done_mutations', cur_mutation')
  /\ GeneratorsAt(job, r, append', prepend', gen_pwd')
  /\ VariantAt(T, job, r, word', done_mutations', append', prepend', word_2', gen_pwd', pwd')
  /\ StageAt(T, job, r, org_word', word', done_stages')

BetweenWords(T, rc) ==
  /\ append' = 0 /\ prepend' = FALSE /\ AllOver(job, gen_pwd')
  /\ AsksForWord(T, rc)

LEMMA EndOfVariant ==
  ASSUME job \in Jobs, OneBitMask(job.mutations), NEW T, NEW todo, NEW mask, NEW rc,
         todo \subseteq job.mutations, MaskFits(todo, mask),
         MutationsDone(T, job, rounds, word, todo),
         pwddict_trynext(todo, mask, rc),
         StageAt(T, job, rounds, org_word, word, done_stages),
         append' = 0, prepend' = FALSE, AllOver(job, gen_pwd')
  PROVE  (rc = 0 /\ UNCHANGED fileVars /\ MidNext(T, rounds)) \/ BetweenWords(T, rc)
<1>1. (rc = 0 /\ GoesOn(T)) \/ AsksForWord(T, rc)
  BY TryNextGoes
<1>2. CASE AsksForWord(T, rc)
  BY <1>2 DEF BetweenWords
<1>3. CASE rc = 0 /\ GoesOn(T)
  <2>1. GeneratorsAt(job, rounds, append', prepend', gen_pwd')
    BY OverBetween
  <2> QED BY <1>3, <2>1 DEF GoesOn, MidNext, VariantAt
<1> QED BY <1>1, <1>2, <1>3

LEMMA MakeWordGoes ==
  ASSUME job \in Jobs, Regular, IsText(org_word), org_word # << >>, phase = "loop", MidWord,
         NEW rc, pwddict_next(rc), NEW T, T = given \union {pwd'}
  PROVE  /\ pwd' # << >> /\ MadeOf(job, org_word, pwd')
         /\ (rc = 0 /\ UNCHANGED fileVars /\ MidNext(T, rounds)) \/ BetweenWords(T, rc)
<1>1. /\ done_mutations \subseteq job.mutations /\ MaskFits(done_mutations, cur_mutation)
      /\ GeneratorsAt(job, rounds, append, prepend, gen_pwd)
      /\ VariantAt(given, job, rounds, word, done_mutations, append, prepend, word_2, gen_pwd, pwd)
      /\ StageAt(given, job, rounds, org_word, word, done_stages)
  <2>1. Seen = given
    BY DEF Seen
  <2> QED BY <2>1 DEF MidWord
<1>2. given \subseteq T /\ pwd' \in T
  OBVIOUS
<1>3. OneBitMask(job.mutations) /\ PrependsLast
  BY DEF Regular, OneBitMasks, OneBitMask
<1>4. PICK s \in job.stages : word = Staged(s, org_word)
  BY <1>1 DEF StageAt
<1>5. IsText(word) /\ Len(word) = Len(org_word)
  BY <1>4, StagedText
<1>6. \A m : IsText(Mutated(m, word)) /\ Len(Mutated(m, word)) = Len(org_word)
  BY <1>5, MutatedText
<1>7. Len(org_word) \in Nat /\ Len(org_word) # 0
  <2>1. Len(org_word) \in Nat /\ org_word = [i \in 1 .. Len(org_word) |-> org_word[i]]
    BY TextFacts
  <2>2. ASSUME Len(org_word) = 0 PROVE FALSE
    <3>1. org_word \in Seq({org_word[i] : i \in 1 .. Len(org_word)})
      BY <2>1, TextOf
    <3> QED BY <2>2, <3>1
  <2> QED BY <2>1, <2>2
<1>8. Len(<< >>) = 0
  OBVIOUS
<1>9. StageAt(T, job, rounds, org_word, word, done_stages)
  BY <1>1, <1>2, StageGrows
<1>10. CASE AddPair(rc)
  <2>1. append # 0
    BY <1>10 DEF AddPair
  <2>2. PairAt(given, job, rounds, word, done_mutations, append, prepend, word_2, gen_pwd, pwd)
    BY <1>1, <2>1 DEF VariantAt
  <2>3. /\ append \in 1 .. Len(job.pairs)
        /\ \E m \in job.mutations, k \in RoomOf(job.pairs[append]) :
             pwd' = Put(Mutated(m, word), job.pairs[append], Shows(job.pairs[append], k))
        /\ (rc = 0 /\ PairGoesOn(T)) \/ PairsEnd(T, rc)
    BY <1>1, <1>2, <1>3, <1>5, <1>10, <2>2, AddPairGoes
  <2>4. PICK m \in job.mutations, k \in RoomOf(job.pairs[append]) :
          pwd' = Put(Mutated(m, word), job.pairs[append], Shows(job.pairs[append], k))
    BY <2>3
  <2>5. MadeOf(job, org_word, pwd')
    BY <1>4, <2>3, <2>4 DEF MadeOf
  <2>6. pwd' # << >>
    <3> DEFINE h == Mutated(m, word)
               x == Shows(job.pairs[append], k)
    <3>1. IsText(h) /\ Len(h) \in Nat /\ Len(h) # 0
      BY <1>6, <1>7
    <3>2. IsText(x) /\ Len(x) \in Nat
      <4>1. PairSound(job.pairs[append])
        BY <2>3, JobData
      <4>2. Len(k) \in Nat
        BY <2>4, <4>1, RoomFacts
      <4> QED BY <4>2, ShownText, TextFacts
    <3> HIDE DEF h, x
    <3>3. Len(h \o x) = Len(h) + Len(x) /\ Len(x \o h) = Len(x) + Len(h)
      BY <3>1, <3>2, JoinedTexts
    <3>4. pwd' = h \o x \/ pwd' = x \o h
      BY <2>4 DEF Put, h, x
    <3>5. Len(h \o x) # 0 /\ Len(x \o h) # 0
      BY <3>1, <3>2, <3>3
    <3> QED BY <1>8, <3>4, <3>5
  <2>7. CASE rc = 0 /\ PairGoesOn(T)
    <3>1. /\ append' # 0
          /\ GeneratorsAt(job, rounds, append', prepend', gen_pwd')
          /\ PairAt(T, job, rounds, word, done_mutations, append', prepend', word_2', gen_pwd', pwd')
          /\ done_mutations' = done_mutations /\ cur_mutation' = cur_mutation
          /\ word' = word /\ done_stages' = done_stages /\ UNCHANGED fileVars /\ org_word' = org_word
      BY <2>7 DEF PairGoesOn, stageVars, fileVars
    <3>2. MidNext(T, rounds)
      BY <1>1, <1>9, <3>1 DEF MidNext, VariantAt
    <3> QED BY <2>5, <2>6, <2>7, <3>1, <3>2
  <2>8. CASE PairsEnd(T, rc)
    <3>1. /\ append' = 0 /\ prepend' = FALSE /\ AllOver(job, gen_pwd')
          /\ MutationsDone(T, job, rounds, word, done_mutations)
          /\ pwddict_trynext(done_mutations, cur_mutation, rc)
      BY <2>8 DEF PairsEnd
    <3>2. (rc = 0 /\ UNCHANGED fileVars /\ MidNext(T, rounds)) \/ BetweenWords(T, rc)
      BY <1>1, <1>3, <1>9, <3>1, EndOfVariant
    <3> QED BY <2>5, <2>6, <3>2
  <2> QED BY <2>3, <2>7, <2>8
<1>11. CASE NextVariant(rc)
  <2>1. append = 0
    BY <1>11 DEF NextVariant
  <2>2. done_mutations # {} /\ MutationsDone(given, job, rounds, word, done_mutations)
    BY <1>1, <2>1 DEF VariantAt
  <2>3. /\ append = 0 /\ ~prepend
        /\ \E m \in job.mutations : pwd' = Mutated(m, word)
        /\ \/ /\ rc = 0 /\ append' # 0
              /\ done_mutations' \subseteq job.mutations /\ MaskFits(done_mutations', cur_mutation')
              /\ GeneratorsAt(job, rounds, append', prepend', gen_pwd')
              /\ PairAt(T, job, rounds, word, done_mutations', append', prepend', word_2', gen_pwd', pwd')
              /\ UNCHANGED <<stageVars, fileVars>>
           \/ /\ UNCHANGED pairVars /\ AllOver(job, gen_pwd)
              /\ VariantEnds(T, rc)
    BY <1>1, <1>2, <1>5, <1>11, <2>2, NextVariantGoes
  <2>4. PICK m \in job.mutations : pwd' = Mutated(m, word)
    BY <2>3
  <2>5. MadeOf(job, org_word, pwd')
    BY <1>4, <2>4 DEF MadeOf
  <2>6. pwd' # << >>
    BY <1>6, <1>7, <1>8, <2>4
  <2>7. CASE /\ rc = 0 /\ append' # 0
             /\ done_mutations' \subseteq job.mutations /\ MaskFits(done_mutations', cur_mutation')
             /\ GeneratorsAt(job, rounds, append', prepend', gen_pwd')
             /\ PairAt(T, job, rounds, word, done_mutations', append', prepend', word_2', gen_pwd', pwd')
             /\ UNCHANGED <<stageVars, fileVars>>
    <3>1. word' = word /\ done_stages' = done_stages /\ UNCHANGED fileVars /\ org_word' = org_word
      BY <2>7 DEF stageVars, fileVars
    <3>2. MidNext(T, rounds)
      BY <1>9, <2>7, <3>1 DEF MidNext, VariantAt
    <3> QED BY <2>5, <2>6, <2>7, <3>1, <3>2
  <2>8. CASE UNCHANGED pairVars /\ AllOver(job, gen_pwd) /\ VariantEnds(T, rc)
    <3>1. append' = 0 /\ prepend' = FALSE /\ AllOver(job, gen_pwd')
      <4>1. prepend \in BOOLEAN
        BY <1>1 DEF GeneratorsAt
      <4> QED BY <2>3, <2>8, <4>1 DEF pairVars
    <3>2. PICK todo, mask :
            /\ todo \subseteq job.mutations /\ MaskFits(todo, mask)
            /\ MutationsDone(T, job, rounds, word, todo)
            /\ pwddict_trynext(todo, mask, rc)
      BY <2>8 DEF VariantEnds
    <3>3. (rc = 0 /\ UNCHANGED fileVars /\ MidNext(T, rounds)) \/ BetweenWords(T, rc)
      BY <1>3, <1>9, <3>1, <3>2, EndOfVariant
    <3> QED BY <2>5, <2>6, <3>3
  <2> QED BY <2>3, <2>7, <2>8
<1> QED BY <1>10, <1>11 DEF pwddict_next

-----------------------------------------------------------------------------
(***************************************************************************)
(* All the words of the chunk.  Before the first one nothing was given and *)
(* the generators are as pwdgen_init() left them; from then on every word  *)
(* before the current one was gone through, and none of them was the last  *)
(* of the chunk; what was given are passwords of the words that were       *)
(* begun; and the result 1 stands for a last word that was gone through.   *)
(***************************************************************************)
NrOf(i) == IF i = FirstBegun THEN 1 ELSE 2

BeforeFirst ==
  /\ given = {} /\ last_pwd = << >> /\ append = 0 /\ prepend = FALSE
  /\ done_mutations = job.mutations /\ cur_mutation = {0}
  /\ DOMAIN gen_pwd = 1 .. Len(job.pairs)
  /\ \A j \in 1 .. Len(job.pairs) : IsRaw(gen_pwd[j], job.pairs[j])
  /\ dict_line > job.ofs => org_word = job.words[dict_line] /\ last_word = (org_word = job.end)

CurrentLine ==
  /\ org_word = job.words[dict_line] /\ org_word # << >>
  /\ last_word = (org_word = job.end)
  /\ last_word => FirstDue <= dict_line

LinesDone(S) ==
  \A i \in FirstDue .. dict_line - 1 :
    job.words[i] # job.end /\ WordDone(S, job, NrOf(i), job.words[i])

OfWordsBegun(S) == \A x \in S : \E i \in Begun : MadeOf(job, job.words[i], x)

Through == NoMoreWords /\ WordDone(Seen, job, rounds, org_word)

Whole ==
  /\ CurrentLine /\ LinesDone(Seen) /\ OfWordsBegun(Seen)
  /\ last_pwd = << >> \/ last_pwd \in given
  /\ phase = "made" => pwd # << >>
  /\ phase \in {"ready", "loop"} \/ (phase = "made" /\ found = 0) => MidWord
  /\ phase \in {"made", "end"} /\ found = 1 => Through
  /\ exitcode = 0 => Through

WholeInv ==
  /\ phase \in {"init", "skip"} => BeforeFirst
  /\ rounds > 0 /\ phase # "crashed" /\ Regular => Whole

-----------------------------------------------------------------------------
LEMMA NoneBetween ==
  ASSUME NEW a \in Int, NEW b \in Nat, a >= b
  PROVE  a .. b - 1 = {}
OBVIOUS

\* A word that was read.
LEMMA WordRead ==
  ASSUME Place, pwddict_nextword(0), job' = job
  PROVE  /\ ~dict_eof /\ ~last_word /\ (NewLine \/ EndMet)
         /\ org_word' # << >> /\ last_word' = (org_word' = job.end)
         /\ fileVars' # fileVars
<1>1. ~NoMoreWords /\ ReadLine(0)
  <2>1. PWD_TIMEOUT # 0
    BY DEF PWD_TIMEOUT
  <2> QED BY <2>1 DEF pwddict_nextword
<1>2. ~dict_eof /\ ~last_word
  BY <1>1 DEF NoMoreWords
<1>3. (NewLine \/ EndMet) /\ org_word' # << >>
  BY <1>1, ReadFacts
<1>4. last_word' = (org_word' = job.end)
  BY <1>1 DEF ReadLine
<1>5. fileVars' # fileVars
  <2>1. CASE NewLine
    <3>1. dict_line' # dict_line
      BY <2>1, PlaceFacts DEF NewLine
    <3> QED BY <3>1 DEF fileVars
  <2>2. CASE EndMet
    <3>1. dict_eof' # dict_eof
      BY <1>2, <2>2 DEF EndMet
    <3> QED BY <3>1 DEF fileVars
  <2> QED BY <1>3, <2>1, <2>2
<1> QED BY <1>2, <1>3, <1>4, <1>5

\* The first word that is begun is the one with number 1.
LEMMA FirstNr ==
  ASSUME Place, InStep
  PROVE  /\ FirstDue \in Int /\ FirstDue <= Reached
         /\ dict_line \in Begun
         /\ rounds > 1 \/ ~(NrOf(dict_line) > 1)
<1>1. /\ dict_line \in Nat /\ Len(job.words) \in Nat /\ dict_line <= Len(job.words)
  BY PlaceFacts
<1>2. /\ rounds \in Nat \ {0} /\ FirstDue \in Int /\ rounds + FirstDue = dict_line + Again + 1
  BY DEF InStep, Reached
<1>3. CASE ~LastLineAgain
  <2>1. Again = 0
    BY <1>3 DEF Again
  <2>2. FirstDue <= dict_line /\ (rounds > 1 \/ FirstDue = dict_line)
    BY <1>1, <1>2, <2>1
  <2>3. dict_line \in Begun
    BY <1>1, <1>2, <2>2 DEF Begun
  <2>4. FirstDue = dict_line => NrOf(dict_line) = 1
    BY <1>1 DEF NrOf, FirstBegun
  <2> QED BY <1>1, <1>2, <2>1, <2>2, <2>3, <2>4 DEF Reached
<1>4. CASE LastLineAgain
  <2>1. Again = 1 /\ dict_line = Len(job.words)
    BY <1>4 DEF Again, LastLineAgain, Place
  <2>2. FirstDue <= dict_line + 1 /\ (rounds > 1 \/ FirstDue = dict_line + 1)
    BY <1>1, <1>2, <2>1
  <2>3. dict_line \in Begun
    BY <1>4, <2>1 DEF Begun, DoneAgain
  <2>4. FirstDue = dict_line + 1 => NrOf(dict_line) = 1
    BY <1>1, <2>1 DEF NrOf, FirstBegun
  <2> QED BY <1>1, <1>2, <2>1, <2>2, <2>3, <2>4 DEF Reached
<1> QED BY <1>3, <1>4

LEMMA SameJobBegins ==
  ASSUME job' = job
  PROVE  /\ FirstDue' = FirstDue /\ FirstBegun' = FirstBegun
         /\ \A i : NrOf(i)' = NrOf(i)
         /\ Regular' = Regular /\ LastDue' = LastDue
<1>1. FirstDue' = FirstDue
  BY SameJob
<1>2. FirstBegun' = FirstBegun
  BY <1>1 DEF FirstBegun
<1>3. \A i : NrOf(i)' = NrOf(i)
  BY <1>2 DEF NrOf
<1>4. Regular' = Regular
  BY DEF Regular, OneBitMasks, PrependsLast
<1>5. LastDue' = LastDue
  BY <1>1 DEF LastDue, IndicesOf, Lines
<1> QED BY <1>1, <1>2, <1>3, <1>4, <1>5

\* The words begun, when one more is read, and the line of the current one.
LEMMA LineOfWordRead ==
  ASSUME Place, Place', InStep', job' = job, NewLine \/ EndMet, ~dict_eof, ~last_word,
         org_word' # << >>, last_word' = (org_word' = job.end),
         dict_line > job.ofs => org_word = job.words[dict_line] /\ last_word = (org_word = job.end)
  PROVE  CurrentLine' /\ Begun \subseteq Begun'
<1>1. /\ dict_line \in Nat /\ Len(job.words) \in Nat /\ dict_line <= Len(job.words)
      /\ job.ofs \in Nat /\ job.ofs <= dict_line
  BY PlaceFacts
<1>2. FirstDue' = FirstDue
  BY SameJob
<1>3. /\ rounds' \in Nat \ {0} /\ FirstDue \in Int /\ dict_line' > job.ofs
      /\ rounds' + FirstDue = dict_line' + Again' + 1
  BY <1>2 DEF InStep, Reached
<1>4. DoneAgain = {}
  BY DEF DoneAgain, LastLineAgain
<1>5. CASE NewLine
  <2>1. dict_line' = dict_line + 1 /\ org_word' = job.words[dict_line'] /\ Again' = 0
    BY <1>5 DEF NewLine, Again
  <2>2. FirstDue <= dict_line'
    <3>1. rounds' + FirstDue = dict_line' + 0 + 1
      BY <1>3, <2>1
    <3>2. dict_line' \in Nat
      BY <1>1, <2>1
    <3>3. rounds' \in Nat \ {0} /\ FirstDue \in Int
      BY <1>3
    <3> QED BY <3>1, <3>2, <3>3
  <2>3. CurrentLine'
    BY <1>2, <2>1, <2>2 DEF CurrentLine
  <2>4. FirstDue .. dict_line \subseteq FirstDue .. dict_line'
    <3>1. FirstDue \in Int /\ dict_line \in Int /\ dict_line' = dict_line + 1
      BY <1>1, <1>3, <2>1
    <3> QED BY <3>1
  <2>5. Begun' = (FirstDue .. dict_line') \union DoneAgain'
    BY <1>2 DEF Begun
  <2> QED BY <1>4, <2>3, <2>4, <2>5 DEF Begun
<1>6. CASE EndMet
  <2>1. dict_line' = dict_line /\ org_word' = org_word /\ dict_line > job.ofs
    BY <1>3, <1>6 DEF EndMet
  <2>2. ~last_word'
    BY <2>1
  <2>3. CurrentLine'
    BY <2>1, <2>2 DEF CurrentLine
  <2>4. Begun' = (FirstDue .. dict_line) \union DoneAgain'
    BY <1>2, <2>1 DEF Begun
  <2> QED BY <1>4, <2>3, <2>4 DEF Begun
<1> QED BY <1>5, <1>6

-----------------------------------------------------------------------------
\* The start: the generators of the pairs are as malloc() and pwdgen_init() left them.
LEMMA FreshIsRaw ==
  ASSUME NEW jb \in Jobs, NEW gens \in FreshGenerators(jb.pairs)
  PROVE  /\ DOMAIN gens = 1 .. Len(jb.pairs)
         /\ \A j \in 1 .. Len(jb.pairs) : IsRaw(gens[j], jb.pairs[j])
<1>1. /\ gens \in [1 .. Len(jb.pairs) ->
            UNION {[pwd : {FirstOf(p)}, digit : [1 .. p.startlen -> Garbage]] : p \in ToSet(jb.pairs)}]
      /\ \A j \in 1 .. Len(jb.pairs) :
           Len(gens[j].digit) = jb.pairs[j].startlen /\ IsFresh(gens[j], jb.pairs[j])
  BY DEF FreshGenerators
<1>2. DOMAIN gens = 1 .. Len(jb.pairs)
  BY <1>1
<1>3. ASSUME NEW j \in 1 .. Len(jb.pairs) PROVE IsRaw(gens[j], jb.pairs[j])
  <2>1. PICK p \in ToSet(jb.pairs) : gens[j] \in [pwd : {FirstOf(p)}, digit : [1 .. p.startlen -> Garbage]]
    BY <1>1
  <2>2. gens[j].digit \in [1 .. p.startlen -> Garbage]
    BY <2>1
  <2>3. p.startlen \in Nat /\ Garbage \subseteq Nat
    BY DictAssumption, Zenon DEF DictAssumption
  <2>4. gens[j].digit \in [1 .. p.startlen -> Nat]
    BY <2>2, <2>3
  <2>5. Len(gens[j].digit) = p.startlen
    BY <2>3, <2>4
  <2>6. gens[j].digit \in [1 .. jb.pairs[j].startlen -> Nat] /\ IsFresh(gens[j], jb.pairs[j])
    BY <1>1, <2>4, <2>5
  <2> QED BY <2>6 DEF IsRaw
<1> QED BY <1>2, <1>3

LEMMA WholeOfInit == WorkerDictInit => WholeInv
<1> SUFFICES ASSUME WorkerDictInit PROVE WholeInv
  OBVIOUS
<1>1. /\ job \in Jobs /\ gen_pwd \in FreshGenerators(job.pairs)
      /\ given = {} /\ last_pwd = << >> /\ append = 0 /\ prepend = FALSE
      /\ done_mutations = job.mutations /\ cur_mutation = {0}
      /\ dict_line = job.ofs /\ rounds = 0
  BY DEF WorkerDictInit, DictInit
<1>2. job.ofs \in Nat
  BY <1>1, JobFacts
<1>3. ~(dict_line > job.ofs) /\ ~(rounds > 0)
  BY <1>1, <1>2
<1>4. BeforeFirst
  BY <1>1, <1>3, FreshIsRaw DEF BeforeFirst
<1> QED BY <1>3, <1>4 DEF WholeInv

\* The lines before the first word, and the first word itself.
LEMMA StillBefore ==
  ASSUME BeforeFirst, Place, pwddict_nextword(0), job' = job,
         UNCHANGED <<done_mutations, cur_mutation, pairVars, last_pwd, given>>
  PROVE  BeforeFirst'
<1>1. /\ ~dict_eof /\ ~last_word /\ (NewLine \/ EndMet)
      /\ org_word' # << >> /\ last_word' = (org_word' = job.end)
  BY WordRead
<1>2. dict_line \in Nat /\ job.ofs \in Nat
  BY PlaceFacts
<1>3. ASSUME dict_line' > job'.ofs
      PROVE  org_word' = job'.words[dict_line'] /\ last_word' = (org_word' = job'.end)
  <2>1. CASE NewLine
    BY <1>1, <2>1 DEF NewLine
  <2>2. CASE EndMet
    BY <1>1, <1>3, <2>2 DEF EndMet, BeforeFirst
  <2> QED BY <1>1, <2>1, <2>2
<1>4. /\ append' = append /\ prepend' = prepend /\ gen_pwd' = gen_pwd
      /\ done_mutations' = done_mutations /\ cur_mutation' = cur_mutation
      /\ last_pwd' = last_pwd /\ given' = given
  BY DEF pairVars
<1> QED BY <1>3, <1>4 DEF BeforeFirst

LEMMA FirstWordBegins ==
  ASSUME BeforeFirst, Place, rounds = 0, Place', InStep', pwddict_nextword(0), job' = job,
         UNCHANGED <<done_mutations, cur_mutation, pairVars, last_pwd, given>>,
         FirstStage, exitcode = -1
  PROVE  Whole'
<1>1. /\ ~dict_eof /\ ~last_word /\ (NewLine \/ EndMet)
      /\ org_word' # << >> /\ last_word' = (org_word' = job.end)
  BY WordRead
<1>2. BeforeFirst'
  BY StillBefore
<1>3. CurrentLine'
  BY <1>1, LineOfWordRead DEF BeforeFirst
<1>4. phase' = "ready" /\ rounds' = 1 /\ exitcode' = -1
  BY DEF FirstStage
<1>5. Seen' = {} /\ given' = {} /\ last_pwd' = << >>
  BY <1>2, <1>4 DEF Seen, BeforeFirst
<1>6. LinesDone(Seen)'
  <2>1. rounds' + FirstDue' = dict_line' + Again' + 1 /\ FirstDue' \in Int /\ dict_line' \in Nat
    BY PlaceFacts DEF InStep, Reached, Place
  <2>2. Again' \in Nat
    BY DEF Again
  <2>3. FirstDue' >= dict_line'
    BY <1>4, <2>1, <2>2
  <2>4. FirstDue' .. dict_line' - 1 = {}
    BY <2>1, <2>3, NoneBetween
  <2> QED BY <2>4 DEF LinesDone
<1>7. OfWordsBegun(Seen)'
  BY <1>5 DEF OfWordsBegun
<1>8. MidWord'
  <2>1. /\ job' \in Jobs /\ job'.stages # {} /\ job'.mutations # {}
        /\ job'.mutations \in SUBSET (0 .. 10) /\ Len(job'.pairs) \in Nat
    BY JobData DEF Place
  <2>2. /\ append' = 0 /\ prepend' = FALSE
        /\ done_mutations' = job'.mutations /\ cur_mutation' = {0}
    BY <1>2 DEF BeforeFirst
  <2>3. MaskFits(done_mutations', cur_mutation')
    <3>1. cur_mutation' = {0} /\ 0 \in 0 .. 10 /\ \A m \in done_mutations' : 0 <= m
      BY <2>1, <2>2
    <3> QED BY <3>1 DEF MaskFits
  <2>4. GeneratorsAt(job', rounds', append', prepend', gen_pwd')
    <3>1. /\ DOMAIN gen_pwd' = 1 .. Len(job'.pairs)
          /\ \A j \in 1 .. Len(job'.pairs) : IsRaw(gen_pwd'[j], job'.pairs[j])
      BY <1>2 DEF BeforeFirst
    <3>2. \A j \in 1 .. Len(job'.pairs) : 0 < j
      OBVIOUS
    <3>3. append' \in 0 .. Len(job'.pairs)
      BY <2>1, <2>2
    <3> QED BY <1>4, <2>2, <3>1, <3>2, <3>3 DEF GeneratorsAt
  <2>5. VariantAt(Seen', job', rounds', word', done_mutations', append', prepend', word_2', gen_pwd', pwd')
    BY <2>1, <2>2 DEF VariantAt, MutationsDone
  <2>6. StageAt(Seen', job', rounds', org_word', word', done_stages')
    <3>1. word' = Staged(Min(job'.stages), org_word') /\ done_stages' = job'.stages \ {Min(job'.stages)}
      BY DEF FirstStage, pwddict_stage
    <3>2. StageBegins(job', org_word', word', done_stages')
      BY <2>1, <3>1, FirstStageBegins
    <3> QED BY <3>2, BeginsAt
  <2> QED BY <2>2, <2>3, <2>4, <2>5, <2>6 DEF MidWord
<1> QED BY <1>3, <1>4, <1>5, <1>6, <1>7, <1>8 DEF Whole

-----------------------------------------------------------------------------
\* Reading on in the search for the start word.
LEMMA WholeOfSeek ==
  ASSUME OnceInv, OnceInv', WordInv, WholeInv, Seek
  PROVE  WholeInv'
<1>1. phase = "init" /\ Place /\ rounds = 0 /\ BeforeFirst /\ exitcode = -1
  BY DEF Seek, OnceInv, Searching, WholeInv, WordInv
<1>2. PICK rc : /\ NextLine(rc)
                /\ \/ rc = 0 /\ FirstStage
                   \/ rc = 0 /\ GoOnIn("skip")
                   \/ rc = 0 /\ GoOnIn("init")
                   \/ NotFound
                   \/ GoOnIn("crashed")
  BY DEF Seek
<1>3. /\ pwddict_nextword(rc) /\ job' = job
      /\ UNCHANGED <<done_mutations, cur_mutation, pairVars, last_pwd, given>>
  BY <1>2 DEF NextLine
<1>4. CASE rc = 0 /\ FirstStage
  <2>1. phase' = "ready" /\ Place' /\ InStep'
    BY <1>4 DEF FirstStage, OnceInv
  <2>2. Whole'
    BY <1>1, <1>3, <1>4, <2>1, FirstWordBegins
  <2> QED BY <2>1, <2>2 DEF WholeInv
<1>5. CASE rc = 0 /\ (GoOnIn("skip") \/ GoOnIn("init"))
  <2>1. BeforeFirst' /\ rounds' = 0
    BY <1>1, <1>3, <1>5, StillBefore DEF GoOnIn
  <2> QED BY <2>1 DEF WholeInv
<1>6. CASE NotFound \/ GoOnIn("crashed")
  <2>1. phase' \in {"exited", "crashed"} /\ rounds' = 0
    BY <1>1, <1>6 DEF NotFound, GiveUp, GoOnIn
  <2> QED BY <2>1 DEF WholeInv
<1> QED BY <1>2, <1>4, <1>5, <1>6

LEMMA WholeOfSkip ==
  ASSUME OnceInv, OnceInv', WordInv, WholeInv, Skip
  PROVE  WholeInv'
<1>1. phase = "skip" /\ Place /\ rounds = 0 /\ BeforeFirst /\ exitcode = -1
  BY DEF Skip, OnceInv, StartSkipped, WholeInv, WordInv
<1>2. PICK rc : /\ NextLine(rc)
                /\ \/ rc = 0 /\ FirstStage
                   \/ NotFound
                   \/ GoOnIn("crashed")
  BY DEF Skip
<1>3. /\ pwddict_nextword(rc) /\ job' = job
      /\ UNCHANGED <<done_mutations, cur_mutation, pairVars, last_pwd, given>>
  BY <1>2 DEF NextLine
<1>4. CASE rc = 0 /\ FirstStage
  <2>1. phase' = "ready" /\ Place' /\ InStep'
    BY <1>4 DEF FirstStage, OnceInv
  <2>2. Whole'
    BY <1>1, <1>3, <1>4, <2>1, FirstWordBegins
  <2> QED BY <2>1, <2>2 DEF WholeInv
<1>5. CASE NotFound \/ GoOnIn("crashed")
  <2>1. phase' \in {"exited", "crashed"} /\ rounds' = 0
    BY <1>1, <1>5 DEF NotFound, GiveUp, GoOnIn
  <2> QED BY <2>1 DEF WholeInv
<1> QED BY <1>2, <1>4, <1>5

-----------------------------------------------------------------------------
(***************************************************************************)
(* A call of the generator: the same word goes on, or it is through and    *)
(* another one is read, or there is none.                                  *)
(***************************************************************************)
LinesNext(T) ==
  \A i \in FirstDue' .. dict_line' - 1 :
    job'.words[i] # job'.end /\ WordDone(T, job', NrOf(i)', job'.words[i])

BegunNext(T) == \A x \in T : \E i \in Begun' : MadeOf(job', job'.words[i], x)

LEMMA LinesGrow ==
  ASSUME NEW S, NEW T, S \subseteq T, LinesDone(S)
  PROVE  LinesDone(T)
BY WordGrows DEF LinesDone

\* What holds of the lines when the call read none.
LEMMA SameLine ==
  ASSUME CurrentLine, LinesDone(given), OfWordsBegun(given), dict_line \in Begun,
         UNCHANGED <<job, fileVars>>, MadeOf(job, org_word, pwd'),
         NEW T, T = given \union {pwd'}
  PROVE  CurrentLine' /\ LinesNext(T) /\ BegunNext(T)
<1>1. /\ org_word' = org_word /\ dict_line' = dict_line
      /\ last_word' = last_word /\ dict_eof' = dict_eof
  BY DEF fileVars
<1>2. FirstDue' = FirstDue /\ (\A i : NrOf(i)' = NrOf(i))
  BY SameJobBegins
<1>3. Begun' = Begun
  BY <1>1, <1>2 DEF Begun, DoneAgain, LastLineAgain
<1>4. CurrentLine'
  BY <1>1, <1>2 DEF CurrentLine
<1>5. LinesDone(T)
  BY LinesGrow
<1>6. ASSUME NEW i \in FirstDue' .. dict_line' - 1
      PROVE  job'.words[i] # job'.end /\ WordDone(T, job', NrOf(i)', job'.words[i])
  BY <1>1, <1>2, <1>5 DEF LinesDone
<1>7. ASSUME NEW x \in T PROVE \E i \in Begun : MadeOf(job, job.words[i], x)
  BY DEF OfWordsBegun, CurrentLine
<1> QED BY <1>3, <1>4, <1>6, <1>7 DEF LinesNext, BegunNext

\* And when it read one, after the word before was through.
LEMMA LineRead ==
  ASSUME CurrentLine, LinesDone(given), OfWordsBegun(given), Place, Place', InStep, InStep',
         pwddict_nextword(0), job' = job, MadeOf(job, org_word, pwd'),
         NEW T, T = given \union {pwd'}, WordDone(T, job, rounds, org_word)
  PROVE  CurrentLine' /\ LinesNext(T) /\ BegunNext(T)
<1>1. /\ ~dict_eof /\ ~last_word /\ (NewLine \/ EndMet)
      /\ org_word' # << >> /\ last_word' = (org_word' = job.end)
  BY WordRead
<1>2. CurrentLine' /\ Begun \subseteq Begun'
  BY <1>1, LineOfWordRead DEF CurrentLine
<1>3. FirstDue' = FirstDue /\ (\A i : NrOf(i)' = NrOf(i))
  BY SameJobBegins
<1>4. /\ dict_line \in Nat /\ FirstDue \in Int /\ dict_line \in Begun
      /\ rounds > 1 \/ ~(NrOf(dict_line) > 1)
  BY PlaceFacts, FirstNr
<1>5. LinesDone(T)
  BY LinesGrow
<1>6. job.words[dict_line] # job.end /\ WordDone(T, job, NrOf(dict_line), job.words[dict_line])
  <2>1. rounds \in Nat /\ NrOf(dict_line) \in Nat
    BY DEF InStep, NrOf
  <2>2. WordDone(T, job, NrOf(dict_line), org_word)
    BY <1>4, <2>1, LaterWord
  <2> QED BY <1>1, <2>2 DEF CurrentLine
<1>7. ASSUME NEW i \in FirstDue' .. dict_line' - 1
      PROVE  job'.words[i] # job'.end /\ WordDone(T, job', NrOf(i)', job'.words[i])
  <2>1. dict_line' = dict_line + 1 \/ dict_line' = dict_line
    BY <1>1 DEF NewLine, EndMet
  <2>2. i \in FirstDue .. dict_line - 1 \/ i = dict_line
    BY <1>3, <1>4, <1>7, <2>1
  <2>3. job.words[i] # job.end /\ WordDone(T, job, NrOf(i), job.words[i])
    BY <1>5, <1>6, <2>2 DEF LinesDone
  <2> QED BY <1>3, <2>3
<1>8. ASSUME NEW x \in T PROVE \E i \in Begun : MadeOf(job, job.words[i], x)
  BY <1>4 DEF OfWordsBegun, CurrentLine
<1> QED BY <1>2, <1>7, <1>8 DEF LinesNext, BegunNext

LEMMA NextWordMid ==
  ASSUME job \in Jobs, AllOver(job, gen_pwd'), append' = 0, prepend' = FALSE, WordBegins, NEW T,
         NEW r
  PROVE  MidNext(T, r)
<1>1. /\ done_mutations' = job.mutations /\ MaskFits(done_mutations', cur_mutation')
      /\ StageBegins(job, org_word', word', done_stages')
  BY DEF WordBegins
<1>2. GeneratorsAt(job, r, append', prepend', gen_pwd')
  BY OverBetween
<1>3. done_mutations' # {}
  BY <1>1, JobData
<1>4. MutationsDone(T, job, r, word', done_mutations')
  BY <1>1 DEF MutationsDone
<1>5. StageAt(T, job, r, org_word', word', done_stages')
  BY <1>1, BeginsAt
<1> QED BY <1>1, <1>2, <1>3, <1>4, <1>5 DEF MidNext, VariantAt

LEMMA WholeOfMake ==
  ASSUME OnceInv, OnceInv', WordInv, WholeInv, MakeWord
  PROVE  WholeInv'
<1>1. /\ phase = "loop" /\ Place /\ InStep /\ exitcode = -1 /\ job \in Jobs
      /\ dict_line > job.ofs
  BY DEF MakeWord, OnceInv, WordInv, Place, InStep
<1>2. PICK rc \in {PWD_OK, 1, PWD_TIMEOUT, CRASH} :
        /\ pwddict_next(rc)
        /\ IF rc = CRASH
             THEN phase' = "crashed" /\ UNCHANGED found
             ELSE phase' = "made" /\ found' = rc
  BY DEF MakeWord
<1>3. /\ rounds' = IF done_stages = {} /\ fileVars' # fileVars THEN rounds + 1 ELSE rounds
      /\ exitcode' = -1 /\ last_pwd' = last_pwd /\ given' = given /\ job' = job
  BY <1>1, <1>2 DEF MakeWord, pwddict_next
<1>4. CASE rc = CRASH
  BY <1>2, <1>4 DEF WholeInv
<1> SUFFICES ASSUME rc # CRASH, Regular PROVE Whole'
  <2>1. phase' \notin {"init", "skip"} \/ rc = CRASH
    BY <1>2
  <2>2. Regular' = Regular
    BY <1>3, SameJobBegins
  <2> QED BY <1>4, <2>1, <2>2 DEF WholeInv
<1>5. phase' = "made" /\ found' = rc
  BY <1>2
<1>6. Whole
  BY <1>1 DEF WholeInv, InStep
<1>7. /\ CurrentLine /\ MidWord /\ LinesDone(given) /\ OfWordsBegun(given)
      /\ last_pwd = << >> \/ last_pwd \in given
  <2>1. Seen = given
    BY <1>1 DEF Seen
  <2> QED BY <1>1, <1>6, <2>1 DEF Whole
<1>8. org_word # << >> /\ IsText(org_word)
  <2>1. org_word # << >> /\ org_word = job.words[dict_line]
    BY <1>7 DEF CurrentLine
  <2>2. dict_line \in 1 .. Len(job.words)
    BY <1>1, PlaceFacts
  <2> QED BY <1>1, <2>1, <2>2, WordOfFile
<1> DEFINE T == given \union {pwd'}
<1>9. Seen' = T
  BY <1>3, <1>5 DEF Seen
<1>10. T = given \union {pwd'}
  OBVIOUS
<1> HIDE DEF T
<1>11. /\ pwd' # << >> /\ MadeOf(job, org_word, pwd')
       /\ (rc = 0 /\ UNCHANGED fileVars /\ MidNext(T, rounds)) \/ BetweenWords(T, rc)
  BY <1>1, <1>2, <1>7, <1>8, <1>10, MakeWordGoes
<1>12. /\ last_pwd' = << >> \/ last_pwd' \in given'
       /\ exitcode' # 0 /\ phase' \notin {"ready", "loop", "end"}
  BY <1>3, <1>5, <1>7
<1>13. dict_line \in Begun
  BY <1>1, FirstNr
<1>14. ASSUME MidNext(T, rounds') PROVE MidWord'
  BY <1>3, <1>9, <1>14 DEF MidNext, MidWord
<1>15. ASSUME UNCHANGED fileVars
       PROVE  /\ CurrentLine' /\ LinesDone(Seen)' /\ OfWordsBegun(Seen)'
              /\ rounds' = rounds /\ org_word' = org_word /\ (NoMoreWords' <=> NoMoreWords)
  <2>1. CurrentLine' /\ LinesNext(T) /\ BegunNext(T)
    BY <1>3, <1>7, <1>10, <1>11, <1>13, <1>15, SameLine
  <2>2. LinesDone(Seen)' /\ OfWordsBegun(Seen)'
    BY <1>9, <2>1 DEF LinesDone, LinesNext, OfWordsBegun, BegunNext
  <2> QED BY <1>3, <1>15, <2>1, <2>2 DEF fileVars, NoMoreWords
<1>16. CASE rc = 0 /\ UNCHANGED fileVars /\ MidNext(T, rounds)
  <2>1. found' # 1
    BY <1>5, <1>16
  <2> QED BY <1>11, <1>12, <1>14, <1>15, <1>16, <2>1 DEF Whole
<1>17. CASE BetweenWords(T, rc)
  <2>1. /\ append' = 0 /\ prepend' = FALSE /\ AllOver(job, gen_pwd')
        /\ done_stages = {} /\ pwddict_nextword(rc) /\ WordDone(T, job, rounds, org_word)
        /\ rc = 0 => WordBegins
    BY <1>17 DEF BetweenWords, AsksForWord
  <2>2. CASE rc = 0
    <3>1. Place' /\ InStep'
      BY <1>5 DEF OnceInv
    <3>2. pwddict_nextword(0)
      BY <2>1, <2>2
    <3>3. MidNext(T, rounds')
      BY <1>1, <2>1, <2>2, NextWordMid
    <3>4. CurrentLine' /\ LinesNext(T) /\ BegunNext(T)
      BY <1>1, <1>3, <1>7, <1>10, <1>11, <2>1, <3>1, <3>2, LineRead
    <3>5. LinesDone(Seen)' /\ OfWordsBegun(Seen)'
      BY <1>9, <3>4 DEF LinesDone, LinesNext, OfWordsBegun, BegunNext
    <3>6. found' # 1
      BY <1>5, <2>2
    <3> QED BY <1>11, <1>12, <1>14, <3>3, <3>4, <3>5, <3>6 DEF Whole
  <2>3. ASSUME rc # 0
        PROVE  UNCHANGED fileVars /\ (rc = 1 => NoMoreWords)
    <3>1. CASE ReadLine(rc)
      <4>1. dict_line < Len(job.words) => rc \in {0, CRASH}
        BY <3>1 DEF ReadLine
      <4>2. ~(dict_line < Len(job.words)) => rc \in {0, 1} /\ (org_word # << >> => rc = 0)
        BY <3>1 DEF ReadLine
      <4> QED BY <1>8, <2>3, <4>1, <4>2
    <3>2. CASE UNCHANGED fileVars /\ (rc = PWD_TIMEOUT \/ NoMoreWords)
      BY <3>2 DEF PWD_TIMEOUT
    <3> QED BY <2>1, <3>1, <3>2 DEF pwddict_nextword
  <2>4. CASE rc # 0
    <3>1. found' # 0 /\ UNCHANGED fileVars /\ (found' = 1 => NoMoreWords)
      BY <1>5, <2>3, <2>4
    <3>2. /\ CurrentLine' /\ LinesDone(Seen)' /\ OfWordsBegun(Seen)'
          /\ rounds' = rounds /\ org_word' = org_word /\ (NoMoreWords' <=> NoMoreWords)
      BY <1>15, <3>1
    <3>3. WordDone(Seen', job', rounds', org_word')
      BY <1>3, <1>9, <2>1, <3>2
    <3>4. found' = 1 => Through'
      BY <3>1, <3>2, <3>3 DEF Through
    <3> QED BY <1>11, <1>12, <3>1, <3>2, <3>4 DEF Whole
  <2> QED BY <2>2, <2>4
<1> QED BY <1>11, <1>16, <1>17

-----------------------------------------------------------------------------
(***************************************************************************)
(* The other steps see no more than was seen before.                       *)
(***************************************************************************)
LEMMA SeenLines ==
  ASSUME UNCHANGED <<dictVars, rounds>>, Seen' = Seen
  PROVE  /\ CurrentLine => CurrentLine'
         /\ LinesDone(Seen) => LinesDone(Seen)'
         /\ OfWordsBegun(Seen) => OfWordsBegun(Seen)'
         /\ MidWord => MidWord'
         /\ Through => Through'
         /\ Regular' = Regular
<1>1. /\ job' = job /\ dict_line' = dict_line /\ dict_eof' = dict_eof
      /\ org_word' = org_word /\ last_word' = last_word /\ word' = word
      /\ done_stages' = done_stages /\ done_mutations' = done_mutations
      /\ cur_mutation' = cur_mutation /\ append' = append /\ prepend' = prepend
      /\ word_2' = word_2 /\ gen_pwd' = gen_pwd /\ pwd' = pwd /\ rounds' = rounds
  BY DEF dictVars, fileVars, stageVars, pairVars
<1>2. /\ FirstDue' = FirstDue /\ (\A i : NrOf(i)' = NrOf(i)) /\ Regular' = Regular
  BY <1>1, SameJobBegins
<1>3. Begun' = Begun
  BY <1>1, <1>2 DEF Begun, DoneAgain, LastLineAgain
<1>4. CurrentLine => CurrentLine'
  BY <1>1, <1>2 DEF CurrentLine
<1>5. LinesDone(Seen) => LinesDone(Seen)'
  BY <1>1, <1>2 DEF LinesDone
<1>6. OfWordsBegun(Seen) => OfWordsBegun(Seen)'
  BY <1>1, <1>3 DEF OfWordsBegun
<1>7. MidWord => MidWord'
  BY <1>1 DEF MidWord
<1>8. Through => Through'
  BY <1>1 DEF Through, NoMoreWords
<1> QED BY <1>2, <1>4, <1>5, <1>6, <1>7, <1>8

\* Nothing but the phase and the clock changes, or nothing at all.
LEMMA WholeElsewhere ==
  ASSUME WholeInv, UNCHANGED <<dictVars, doneVars>>,
         \/ phase' = phase /\ UNCHANGED <<found, exitcode>>
         \/ phase = "ready" /\ phase' = "loop" /\ UNCHANGED <<found, exitcode>>
         \/ /\ phase \in {"ready", "end"} /\ phase' = "exited"
            /\ exitcode' = 0 => phase = "end" /\ found = 1
  PROVE  WholeInv'
<1>1. rounds' = rounds /\ given' = given /\ last_pwd' = last_pwd /\ pwd' = pwd /\ job' = job
  BY DEF doneVars, dictVars
<1>2. ASSUME phase' \in {"init", "skip"} PROVE BeforeFirst'
  <2>1. BeforeFirst
    BY <1>2 DEF WholeInv
  <2> QED BY <1>1, <2>1 DEF BeforeFirst, dictVars, fileVars, pairVars
<1>3. ASSUME rounds > 0, phase' # "crashed", Regular PROVE Whole'
  <2>1. Whole
    BY <1>3 DEF WholeInv
  <2>2. Seen' = Seen
    BY <1>1 DEF Seen
  <2>3. /\ CurrentLine => CurrentLine'
        /\ LinesDone(Seen) => LinesDone(Seen)'
        /\ OfWordsBegun(Seen) => OfWordsBegun(Seen)'
        /\ MidWord => MidWord'
        /\ Through => Through'
    BY <1>1, <2>2, SeenLines
  <2>4. CurrentLine' /\ LinesDone(Seen)' /\ OfWordsBegun(Seen)'
    BY <2>1, <2>3 DEF Whole
  <2>5. last_pwd' = << >> \/ last_pwd' \in given'
    BY <1>1, <2>1 DEF Whole
  <2>6. phase' = "made" => pwd' # << >>
    BY <1>1, <2>1 DEF Whole
  <2>7. phase' \in {"ready", "loop"} \/ (phase' = "made" /\ found' = 0) => MidWord'
    BY <2>1, <2>3 DEF Whole
  <2>8. phase' \in {"made", "end"} /\ found' = 1 => Through'
    BY <2>1, <2>3 DEF Whole
  <2>9. exitcode' = 0 => Through'
    BY <2>1, <2>3 DEF Whole
  <2> QED BY <2>4, <2>5, <2>6, <2>7, <2>8, <2>9 DEF Whole
<1>4. Regular' = Regular
  BY <1>1, SameJobBegins
<1> QED BY <1>1, <1>2, <1>3, <1>4 DEF WholeInv

LEMMA WholeOfCheck ==
  ASSUME OnceInv, WordInv, WholeInv, Check
  PROVE  WholeInv'
<1>1. /\ phase = "made" /\ InStep /\ exitcode = -1 /\ found \in {0, 1, 4}
      /\ UNCHANGED <<dictVars, rounds>> /\ exitcode' = -1 /\ pwd' = pwd /\ rounds > 0
  BY DEF Check, OnceInv, WordInv, InStep, Collect, dictVars
<1>2. phase' = (IF found' = 0 THEN "loop" ELSE "end")
  BY DEF Check, Collect
<1>3. found' \in {0, 1} => found' = found
  <2>1. CASE Differs /\ \E r \in Results : dofunction(r) /\ Collect(Added(found, r))
    <3>1. PICK r \in Results : Collect(Added(found, r))
      BY <2>1
    <3>2. r \in {0, 2, 7}
      BY DEF Results, PWD_FAIL, PWD_SUCCESS, PWD_ERROR
    <3>3. found' = (IF error' THEN 7 ELSE found + r)
      BY <3>1 DEF Collect, Added, PWD_ERROR
    <3> QED BY <1>1, <3>2, <3>3
  <2>2. CASE ~Differs /\ Collect(found)
    <3>1. found' = (IF error' THEN 7 ELSE found)
      BY <2>2 DEF Collect, PWD_ERROR
    <3> QED BY <3>1
  <2> QED BY <2>1, <2>2 DEF Check
<1> SUFFICES ASSUME Regular PROVE Whole'
  <2>1. phase' \notin {"init", "skip"}
    BY <1>2
  <2>2. Regular' = Regular
    BY <1>1, SameJobBegins DEF dictVars
  <2> QED BY <2>1, <2>2 DEF WholeInv
<1>4. Whole
  BY <1>1 DEF WholeInv
<1>5. given' = given \union {pwd} /\ (last_pwd' = << >> \/ last_pwd' \in given')
  <2>1. CASE Differs /\ (\E r \in Results : dofunction(r)) /\ last_pwd' = pwd
    BY <2>1 DEF dofunction
  <2>2. CASE ~Differs /\ UNCHANGED <<last_pwd, given>>
    <3>1. pwd = last_pwd /\ pwd # << >>
      BY <1>1, <1>4, <2>2 DEF Differs, Whole
    <3>2. pwd \in given
      BY <1>4, <3>1 DEF Whole
    <3> QED BY <2>2, <3>1, <3>2
  <2> QED BY <2>1, <2>2 DEF Check
<1>6. Seen' = Seen
  BY <1>1, <1>2, <1>5 DEF Seen
<1>7. /\ CurrentLine => CurrentLine'
      /\ LinesDone(Seen) => LinesDone(Seen)'
      /\ OfWordsBegun(Seen) => OfWordsBegun(Seen)'
      /\ MidWord => MidWord'
      /\ Through => Through'
  BY <1>1, <1>6, SeenLines
<1>8. CurrentLine' /\ LinesDone(Seen)' /\ OfWordsBegun(Seen)'
  BY <1>4, <1>7 DEF Whole
<1>9. phase' = "loop" => MidWord'
  BY <1>1, <1>2, <1>3, <1>4, <1>7 DEF Whole
<1>10. found' = 1 => Through'
  BY <1>1, <1>3, <1>4, <1>7 DEF Whole
<1> QED BY <1>1, <1>2, <1>5, <1>8, <1>9, <1>10 DEF Whole

LEMMA WholeOfFinish ==
  ASSUME WordInv, WholeInv, Finish
  PROVE  WholeInv'
<1>1. /\ phase = "end" /\ phase' = "exited" /\ UNCHANGED <<dictVars, doneVars>>
      /\ found \in {1, 2, 3, 4, 6, 7, 8, 11}
  BY DEF Finish, WordInv, Exit
<1>2. exitcode' = 0 => found = 1
  <2>1. exitcode' = 7 \/ (found < 7 /\ exitcode' = ExitCode(found))
    BY DEF Finish, Exit, PWD_ERROR
  <2>2. found \in {2, 3, 4, 6} => ExitCode(found) # 0
    BY DEF ExitCode
  <2> QED BY <1>1, <2>1, <2>2
<1> QED BY <1>1, <1>2, WholeElsewhere

LEMMA WholeStep == OnceInv /\ OnceInv' /\ WordInv /\ WholeInv /\ [WorkerDictNext]_workerDictVars => WholeInv'
<1> SUFFICES ASSUME OnceInv, OnceInv', WordInv, WholeInv, [WorkerDictNext]_workerDictVars
             PROVE  WholeInv'
  OBVIOUS
<1>1. CASE Seek
  BY <1>1, WholeOfSeek
<1>2. CASE Skip
  BY <1>2, WholeOfSkip
<1>3. CASE Start
  BY <1>3, WholeElsewhere DEF Start
<1>4. CASE Abort
  <2>1. /\ phase = "ready" /\ phase' = "exited" /\ exitcode' = PWD_ERROR
        /\ UNCHANGED <<dictVars, doneVars>>
    BY <1>4 DEF Abort, GiveUp
  <2> QED BY <2>1, WholeElsewhere DEF PWD_ERROR
<1>5. CASE MakeWord
  BY <1>5, WholeOfMake
<1>6. CASE Check
  BY <1>6, WholeOfCheck
<1>7. CASE Finish
  BY <1>7, WholeOfFinish
<1>8. CASE PassTime
  BY <1>8, WholeElsewhere DEF PassTime, ClockTicks, mainVars
<1>9. CASE UNCHANGED workerDictVars
  BY <1>9, WholeElsewhere DEF workerDictVars, mainVars
<1> QED BY <1>1, <1>2, <1>3, <1>4, <1>5, <1>6, <1>7, <1>8, <1>9 DEF WorkerDictNext, Work

LEMMA WholeInduction == WorkerDictSpec => []WholeInv
BY WholeOfInit, WholeStep, OnceInduction, WordInduction, PTL DEF WorkerDictSpec

-----------------------------------------------------------------------------
(***************************************************************************)
(* What was gone through, in the words of the property.                    *)
(***************************************************************************)
LEMMA PairsOfJob ==
  ASSUME job \in Jobs
  PROVE  AllPairs = {job.pairs[j] : j \in 1 .. Len(job.pairs)}
<1>1. job.pairs \in Seq(ToSet(job.pairs))
  BY DictAssumption, Zenon DEF DictAssumption
<1>2. DOMAIN job.pairs = 1 .. Len(job.pairs)
  BY <1>1
<1> QED BY <1>2 DEF AllPairs, ToSet

LEMMA WordsOfPair ==
  ASSUME NEW h, NEW p
  PROVE  With(h, p) = {Put(h, p, Shows(p, k)) : k \in RoomOf(p)}
<1>1. PairWords(p) = {Shows(p, k) : k \in RoomOf(p)}
  BY DEF PairWords, RoomOf, Shows
<1> QED BY <1>1 DEF With, Put

LEMMA MadeIsVariant ==
  ASSUME job \in Jobs, NEW w, NEW x, MadeOf(job, w, x)
  PROVE  x \in Variants(w, AllPairs)
<1>1. PICK s \in job.stages, m \in job.mutations :
        \/ x = Mutated(m, Staged(s, w))
        \/ \E j \in 1 .. Len(job.pairs) : \E k \in RoomOf(job.pairs[j]) :
             x = Put(Mutated(m, Staged(s, w)), job.pairs[j], Shows(job.pairs[j], k))
  BY DEF MadeOf
<1>2. Mutated(m, Staged(s, w)) \in Bases(w)
  BY DEF Bases
<1>3. CASE x = Mutated(m, Staged(s, w))
  BY <1>2, <1>3 DEF Variants
<1>4. ASSUME NEW j \in 1 .. Len(job.pairs), NEW k \in RoomOf(job.pairs[j]),
             x = Put(Mutated(m, Staged(s, w)), job.pairs[j], Shows(job.pairs[j], k))
      PROVE  x \in Variants(w, AllPairs)
  <2>1. x \in With(Mutated(m, Staged(s, w)), job.pairs[j])
    BY <1>4, WordsOfPair
  <2>2. job.pairs[j] \in AllPairs
    BY PairsOfJob
  <2> QED BY <1>2, <2>1, <2>2 DEF Variants
<1> QED BY <1>1, <1>3, <1>4

LEMMA DoneIsComplete ==
  ASSUME job \in Jobs, NEW i, WordDone(given, job, NrOf(i), job.words[i])
  PROVE  Complete(i)
<1> DEFINE w == job.words[i]
           pairs == IF i = FirstBegun THEN {p \in AllPairs : ~Unset(p)} ELSE AllPairs
<1>1. ASSUME NEW h \in Bases(w) PROVE Handed(given, job, NrOf(i), h)
  BY DEF Bases, WordDone, StageDone
<1>2. ASSUME NEW x \in Variants(w, pairs) PROVE x \in given
  <2>1. CASE x \in Bases(w)
    BY <1>1, <2>1 DEF Handed
  <2>2. ASSUME NEW h \in Bases(w), NEW p \in pairs, x \in With(h, p) PROVE x \in given
    <3>1. p \in AllPairs /\ (i = FirstBegun => ~Unset(p))
      BY <2>2
    <3>2. PICK j \in 1 .. Len(job.pairs) : p = job.pairs[j]
      BY <3>1, PairsOfJob
    <3>3. Counts(job, NrOf(i), j)
      BY <3>1, <3>2 DEF Counts, NrOf
    <3>4. Shown(given, h, p)
      BY <1>1, <2>2, <3>2, <3>3 DEF Handed
    <3> QED BY <2>2, <3>4, WordsOfPair DEF Shown
  <2> QED BY <1>2, <2>1, <2>2 DEF Variants
<1> QED BY <1>2 DEF Complete

\* The last word that is due is the current one when there are no more words.
LEMMA LastLine ==
  ASSUME Place, InStep, CurrentLine, LinesDone(Seen), NoMoreWords
  PROVE  LastDue = dict_line
<1> DEFINE ends == {i \in IndicesOf(job.end) : i >= FirstDue}
<1>1. /\ dict_line \in Nat /\ Len(job.words) \in Nat /\ dict_line <= Len(job.words)
      /\ job.ofs \in Nat /\ dict_line > job.ofs /\ FirstDue \in Int
  BY PlaceFacts DEF InStep
<1>2. ends \in SUBSET Nat /\ \A i \in ends : i <= Len(job.words) /\ job.words[i] = job.end /\ i >= FirstDue
  BY <1>1 DEF IndicesOf, Lines
<1>3. ASSUME NEW i \in ends PROVE i >= dict_line
  <2>1. i \in Nat /\ i >= FirstDue /\ job.words[i] = job.end
    BY <1>2
  <2>2. ~(i \in FirstDue .. dict_line - 1)
    BY <2>1 DEF LinesDone
  <2> HIDE DEF ends
  <2> QED BY <1>1, <2>1, <2>2
<1>4. CASE dict_line \in ends
  <2> HIDE DEF ends
  <2>1. Min(ends) = dict_line /\ ends # {}
    BY <1>1, <1>2, <1>3, <1>4, LeastIndex
  <2> QED BY <2>1 DEF LastDue, ends
<1>5. CASE dict_line \notin ends
  <2>1. ~last_word
    <3>1. ASSUME last_word PROVE FALSE
      <4>1. job.words[dict_line] = job.end /\ FirstDue <= dict_line
        BY <3>1 DEF CurrentLine
      <4>2. dict_line \in ends
        BY <1>1, <4>1 DEF IndicesOf, Lines
      <4> QED BY <1>5, <4>2
    <3> QED BY <3>1
  <2>2. dict_line = Len(job.words)
    BY <2>1 DEF NoMoreWords, Place
  <2>3. ends = {}
    <3>1. ASSUME NEW i \in ends PROVE FALSE
      <4>1. i \in Nat /\ i <= Len(job.words) /\ i >= dict_line
        BY <1>2, <1>3
      <4>2. i = dict_line
        BY <1>1, <2>2, <4>1
      <4> QED BY <1>5, <4>2
    <3> QED BY <3>1
  <2> QED BY <2>2, <2>3 DEF LastDue
<1> QED BY <1>4, <1>5

\* A worker puts every word of its chunk, and no other, through all stages,
\* mutations and pairs of the job, for every dictionary, set and job (but those
\* that DictWords leaves out), and one that says it is through has done them all.
THEOREM EveryWord == WorkerDictSpec => []DictWords
<1>1. OnceInv /\ WholeInv => DictWords
  <2> SUFFICES ASSUME OnceInv, WholeInv, Regular, InLoop
               PROVE  /\ given \subseteq UNION {Variants(job.words[i], AllPairs) : i \in Begun}
                      /\ \A i \in Begun \ {dict_line} : Complete(i)
                      /\ exitcode = 0 => /\ Begun = (FirstDue .. LastDue) \union DoneAgain
                                         /\ \A i \in Begun : Complete(i)
    BY DEF DictWords
  <2>1. rounds > 0 /\ Place /\ InStep /\ Whole /\ Seen = given /\ job \in Jobs
    BY DEF InLoop, OnceInv, Searching, StartSkipped, WholeInv, Seen, Place
  <2>2. CurrentLine /\ LinesDone(given) /\ OfWordsBegun(given)
    BY <2>1 DEF Whole
  <2>3. given \subseteq UNION {Variants(job.words[i], AllPairs) : i \in Begun}
    <3>1. ASSUME NEW x \in given PROVE \E i \in Begun : x \in Variants(job.words[i], AllPairs)
      BY <2>1, <2>2, MadeIsVariant DEF OfWordsBegun
    <3> QED BY <3>1
  <2>4. ASSUME NEW i \in Begun \ {dict_line} PROVE Complete(i)
    <3>1. dict_line \in Nat /\ FirstDue \in Int
      BY <2>1, PlaceFacts DEF InStep
    <3>2. i \in FirstDue .. dict_line
      BY <2>1, <2>4 DEF Begun, DoneAgain, LastLineAgain, Place
    <3>3. i \in FirstDue .. dict_line - 1
      BY <2>4, <3>1, <3>2
    <3> QED BY <2>1, <2>2, <3>3, DoneIsComplete DEF LinesDone
  <2>5. ASSUME exitcode = 0
        PROVE  Begun = (FirstDue .. LastDue) \union DoneAgain /\ \A i \in Begun : Complete(i)
    <3>1. NoMoreWords /\ WordDone(given, job, rounds, org_word)
      BY <2>1, <2>5 DEF Whole, Through
    <3>2. LastDue = dict_line
      BY <2>1, <2>2, <3>1, LastLine
    <3>3. WordDone(given, job, NrOf(dict_line), job.words[dict_line])
      <4>1. rounds > 1 \/ ~(NrOf(dict_line) > 1)
        BY <2>1, FirstNr
      <4>2. rounds \in Nat /\ NrOf(dict_line) \in Nat
        BY <2>1 DEF InStep, NrOf
      <4> QED BY <2>2, <3>1, <4>1, <4>2, LaterWord DEF CurrentLine
    <3>4. Complete(dict_line)
      BY <2>1, <3>3, DoneIsComplete
    <3> QED BY <2>4, <3>2, <3>4 DEF Begun
  <2> QED BY <2>3, <2>4, <2>5
<1> QED BY <1>1, OnceInduction, WholeInduction, PTL
=============================================================================
