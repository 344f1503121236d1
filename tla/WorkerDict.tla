----------------------------- MODULE WorkerDict -----------------------------
(***************************************************************************)
(* A worker that goes through a dictionary: pwddict_fastforward() looks    *)
(* for the first word of the chunk, and cycle_pwds() of                    *)
(* src/src/main/main.c hands every password that pwddict_next() makes to   *)
(* dofunction(), unless it is the one before once more.  dofunction()      *)
(* compares it with the target at once, as in src/src/pwdtest.             *)
(***************************************************************************)
EXTENDS PwdDict, MainEnd

VARIABLES
  last_pwd,    \* the last password that was not skipped
  given,       \* history: passwords handed to dofunction()
  calls,       \* history: number of calls of dofunction()
  rounds       \* history: how many words were begun

doneVars == <<last_pwd, given, calls, rounds>>
workerDictVars == <<timerVars, dictVars, mainVars, doneVars>>

WorkerDictInit ==
  /\ TimerInit
  /\ DictInit
  /\ EndInit
  /\ last_pwd = << >> /\ given = {} /\ calls = 0 /\ rounds = 0

-----------------------------------------------------------------------------
(***************************************************************************)
(* pwddict_fastforward(), line by line.  The chunk before this one has     *)
(* done the start word, unless that is the first word of the file.         *)
(***************************************************************************)
StartFound == job.start \in {<< >>, org_word'}

\* Mutation: the offset into the file is forgotten.
SecondLineRead == job.start # << >> /\ dict_line' > job.ofs + 1

\* first_word > 1: an offset was given, or more than one line was read.
MustSkip == job.start # << >> /\ dict_line' > 1

FirstStage ==
  /\ pwddict_stage(job.stages, org_word')
  /\ phase' = "ready"
  /\ rounds' = rounds + 1
  /\ UNCHANGED <<target, found, error, exitcode>>

GoOnIn(p) ==
  /\ phase' = p
  /\ UNCHANGED <<stageVars, rounds, target, found, error, exitcode>>

NotFound == GiveUp /\ UNCHANGED <<stageVars, rounds>>

NextLine(rc) ==
  /\ pwddict_nextword(rc)
  /\ UNCHANGED <<job, done_mutations, cur_mutation, pairVars, pwd, last_pwd, given, calls>>

Seek ==
  /\ phase = "init"
  /\ \/ NextLine(0) /\ StartFound /\ ~MustSkip /\ FirstStage
     \/ NextLine(0) /\ StartFound /\ MustSkip /\ GoOnIn("skip")
     \/ NextLine(0) /\ ~StartFound /\ GoOnIn("init")
     \/ NextLine(1) /\ NotFound
     \/ NextLine(CRASH) /\ GoOnIn("crashed")

Skip ==
  /\ phase = "skip"
  /\ \/ NextLine(0) /\ FirstStage
     \/ NextLine(1) /\ NotFound
     \/ NextLine(CRASH) /\ GoOnIn("crashed")

-----------------------------------------------------------------------------
\* The worker's initfunction() and pwdgen_finalize().
Start ==
  /\ phase = "ready"
  /\ phase' = "loop"
  /\ UNCHANGED <<timerVars, dictVars, target, found, error, exitcode, doneVars>>

Abort ==
  /\ phase = "ready"
  /\ MayFail
  /\ GiveUp
  /\ UNCHANGED <<timerVars, dictVars, doneVars>>

(***************************************************************************)
(* One round of the dictionary loop of cycle_pwds(), in two steps: found   *)
(* holds the result of pwddict_next() between them.                        *)
(***************************************************************************)
MakeWord ==
  /\ phase = "loop"
  /\ \E rc \in {PWD_OK, 1, PWD_TIMEOUT, CRASH} :
       /\ pwddict_next(rc)
       /\ IF rc = CRASH
            THEN phase' = "crashed" /\ UNCHANGED found
            ELSE phase' = "made" /\ found' = rc
  /\ rounds' = IF done_stages = {} /\ fileVars' # fileVars THEN rounds + 1 ELSE rounds
  /\ UNCHANGED <<target, error, exitcode, last_pwd, given, calls>>

\* Mutation: a password of the same length counts as the same.
LongerOrShorter == Len(pwd) # Len(last_pwd)

Differs == pwd # last_pwd

dofunction(r) ==
  /\ calls' = OneMore(calls)
  /\ given' = given \union {pwd}
  /\ \/ r = (IF pwd = target THEN PWD_SUCCESS ELSE PWD_FAIL) /\ UNCHANGED error
     \/ MayFail /\ r = PWD_ERROR /\ error' \in BOOLEAN
     \/ MayFail /\ r = PWD_FAIL /\ error' = TRUE

\* Mutation: the end of the dictionary hides what dofunction() says of its last password.
EndFirst(rc, r) == IF rc = 0 THEN r ELSE rc

Added(rc, r) == rc + r

\* A call that sets pwd->error is not counted any more.
Check ==
  /\ phase = "made"
  /\ \/ /\ Differs
        /\ \E r \in Results : dofunction(r) /\ Collect(Added(found, r))
        /\ last_pwd' = pwd
        /\ pwds_done' = IF error' THEN pwds_done ELSE pwds_done + 1
     \/ /\ ~Differs
        /\ UNCHANGED error
        /\ Collect(found)
        /\ UNCHANGED <<last_pwd, given, calls, pwds_done>>
  /\ UNCHANGED <<clockVars, checkVars, pwds, dictVars, rounds>>

\* endfunction() has nothing left to compare.
Finish ==
  /\ phase = "end"
  /\ UNCHANGED error
  /\ Exit(found)
  /\ UNCHANGED <<dictVars, doneVars>>

PassTime ==
  /\ phase # "crashed"
  /\ ClockTicks
  /\ UNCHANGED <<dictVars, doneVars>>

Work == Seek \/ Skip \/ Start \/ Abort \/ MakeWord \/ Check \/ Finish

WorkerDictNext == Work \/ PassTime

WorkerDictSpec == WorkerDictInit /\ [][WorkerDictNext]_workerDictVars

\* The process is scheduled: it never stops for ever in the middle of its work.
WorkerDictFairSpec == WorkerDictSpec /\ WF_workerDictVars(Work)

-----------------------------------------------------------------------------
(***************************************************************************)
(* What is due.  The documents say that each word goes through the stages  *)
(* and mutations of the job and gets the passwords of its pairs appended   *)
(* or prepended.                                                           *)
(***************************************************************************)
PairWords(pair) ==
  {K(pair.set)!Word(k) : k \in UNION {K(pair.set)!KeysOfLength(l) : l \in pair.startlen .. pair.endlen}}

With(w, pair) ==
  {IF pair.pos = 0 THEN w \o x ELSE x \o w : x \in PairWords(pair)}

Bases(w) ==
  {Mutated(m, Staged(s, w)) : m \in job.mutations, s \in job.stages}

Variants(w, pairs) ==
  Bases(w) \union UNION {With(b, p) : b \in Bases(w), p \in pairs}

AllPairs == ToSet(job.pairs)

\* Pairs that start from the memory malloc() left, see pwdgen_reinit.
Unset(pair) == pair.set.type = "SIMPLE" /\ pair.startlen > 1

Lines == 1 .. Len(job.words)

IndicesOf(w) == {i \in Lines : i > job.ofs /\ job.words[i] = w}

FirstDue ==
  LET i == Min(IndicesOf(job.start))
  IN  IF job.start = << >> THEN job.ofs + 1 ELSE IF i = 1 THEN 1 ELSE i + 1

\* Without an end word, or when it does not come, the chunk ends with the file.
LastDue ==
  LET ends == {i \in IndicesOf(job.end) : i >= FirstDue}
  IN  IF ends = {} THEN Len(job.words) ELSE Min(ends)

\* The last line was done a second time, see ReadLine.
LastLineAgain == job.newline /\ dict_eof

DoneAgain == IF LastLineAgain THEN {Len(job.words)} ELSE {}

Begun == (FirstDue .. dict_line) \union DoneAgain

\* Only the last line done again is left when the start word is in the last line.
FirstBegun == IF FirstDue > Len(job.words) THEN Len(job.words) ELSE FirstDue

\* Jobs that the flaw of first_mutation and that of prepended pairs do not touch.
OneBitMasks == job.mutations = {DICT_ORIGINAL} \/ Cardinality(first_mutation(job.mutations)) = 1

PrependsLast == \A j \in 1 .. Len(job.pairs) - 1 : job.pairs[j].pos = 0

Regular == OneBitMasks /\ PrependsLast

Complete(i) ==
  Variants(job.words[i], IF i = FirstBegun THEN {p \in AllPairs : ~Unset(p)} ELSE AllPairs)
    \subseteq given

InLoop == rounds > 0 /\ phase \notin {"made", "crashed"}

-----------------------------------------------------------------------------
\* Each word of the chunk, and no other, is put through all stages, mutations
\* and pairs of the job before the next one is read, and when the worker says
\* that it is through (stop code 0) all of them were.  Jobs are left out whose
\* lowest mutation leads to a wrong mask, or that prepend before another pair.
DictWords ==
  Regular /\ InLoop =>
    /\ given \subseteq UNION {Variants(job.words[i], AllPairs) : i \in Begun}
    /\ \A i \in Begun \ {dict_line} : Complete(i)
    /\ exitcode = 0 => Begun = (FirstDue .. LastDue) \union DoneAgain /\ \A i \in Begun : Complete(i)

\* Each word is begun once, as the comment in pwddict_fastforward() wants it
\* ("each word is done exactly once as the clients go through the list of
\* words"): after n lines all words from the first one due to line n were.
\* Only the last word of a file with a newline at its end is done again.
OncePerWord ==
  InLoop => rounds = dict_line - FirstDue + 1 + (IF LastLineAgain THEN 1 ELSE 0)

\* The exit code agrees with what dofunction() was given, also when the target
\* is the password that comes with the end of the dictionary or the timeout, and
\* the counter with its calls: it starts at 1, skipped passwords are not counted,
\* and the checks of the time, once per word, lose none.
DictStopCode ==
  /\ exitcode \in {-1, 0, 1, 2, PWD_ERROR}
  /\ exitcode = 0 => target \notin given
  /\ exitcode = 1 => target \in given
  /\ exitcode = 2 => timedOut /\ target \notin given
  /\ InLoop /\ ~error /\ calls < MaxPwds => pwds + pwds_done = calls + 1

\* The worker ends, whatever file it reads.
DictEnds == <>(phase \in {"exited", "crashed"})

\* Config.pod: "Bit field describing the various dictionary mutations applied
\* to each word": a worker that is through has given every word in every
\* mutation of the job.
EveryMutation ==
  exitcode = 0 => \A i \in FirstDue .. LastDue : Bases(job.words[i]) \subseteq given
=============================================================================
