------------------------------- MODULE Worker -------------------------------
(***************************************************************************)
(* A worker that checks its passwords one after the other: cycle_pwds() of *)
(* src/src/main/main.c hands the first password and every one that         *)
(* pwdgen_next() makes to the worker's dofunction().                       *)
(*                                                                         *)
(* dofunction() and endfunction() belong to the particular worker.  Here   *)
(* they gather BATCH passwords and compare them in one go, as the comment  *)
(* at the call of endfunction() has it; with BATCH = 1 every password is   *)
(* compared at once, as in src/src/pwdtest.                                *)
(***************************************************************************)
EXTENDS Main

CONSTANT
  BATCH        \* how many passwords dofunction() compares in one go

ASSUME WorkerAssumption == BATCH \in Nat \ {0}

VARIABLES
  batch,       \* passwords that dofunction() gathered and did not compare yet
  checked,     \* history: passwords compared with the target
  given,       \* history: passwords handed to dofunction()
  calls        \* history: number of calls of dofunction()

doneVars   == <<batch, checked, given, calls>>
workerVars == <<commonVars, doneVars>>

WorkerInit ==
  /\ MainInit
  /\ batch = << >> /\ checked = {} /\ given = {} /\ calls = 0

-----------------------------------------------------------------------------
(***************************************************************************)
(* The worker's functions.  dofunction(w) is called with password w and    *)
(* returns r; it may fail by its result or by setting pwd->error.          *)
(***************************************************************************)
Compare(words, r) ==
  /\ batch' = << >>
  /\ checked' = checked \union words
  /\ r = (IF target \in words THEN PWD_SUCCESS ELSE PWD_FAIL)
  /\ UNCHANGED error

Gather(w, r) ==
  /\ batch' = Append(batch, w)
  /\ r = PWD_FAIL
  /\ UNCHANGED <<checked, error>>

Fail(r) ==
  /\ MayFail
  /\ \/ r = PWD_ERROR /\ error' \in BOOLEAN
     \/ r = PWD_FAIL /\ error' = TRUE
  /\ UNCHANGED <<batch, checked>>

dofunction(w, r) ==
  /\ calls' = OneMore(calls)
  /\ given' = given \union {w}
  /\ \/ Len(batch) + 1 < BATCH  /\ Gather(w, r)
     \/ Len(batch) + 1 >= BATCH /\ Compare(ToSet(batch) \union {w}, r)
     \/ Fail(r)

endfunction(r) ==
  /\ Compare(ToSet(batch), r) \/ Fail(r)
  /\ UNCHANGED <<given, calls>>

-----------------------------------------------------------------------------
Start == Begin /\ UNCHANGED doneVars

Abort == Refuse /\ UNCHANGED doneVars

\* cycle_pwds(): check the first password.
FirstKey ==
  /\ phase = "first"
  /\ \E r \in Results : dofunction(pwd, r) /\ Collect(r + once)
  /\ UNCHANGED <<timerVars, chunkVars, genVars>>

\* cycle_pwds(): make the next password and check it.
Cycle ==
  /\ phase = "loop"
  /\ \E rc \in {PWD_OK, 1, PWD_TIMEOUT}, r \in Results :
       pwdgen_next(rc) /\ dofunction(pwd', r) /\ Collect(rc + r)

\* The rest of main().
Finish ==
  /\ phase = "end"
  /\ \/ CallsEndfunction  /\ \E r \in Results : endfunction(r) /\ Exit(found + r)
     \/ ~CallsEndfunction /\ UNCHANGED <<doneVars, error>> /\ Exit(found)
  /\ UNCHANGED <<chunkVars, genVars>>

PassTime == Clock /\ UNCHANGED doneVars

Work == Start \/ Abort \/ FirstKey \/ Cycle \/ Finish

WorkerNext == Work \/ PassTime

WorkerSpec == WorkerInit /\ [][WorkerNext]_workerVars

\* The process is scheduled: it never stops for ever in the middle of its work.
WorkerFairSpec == WorkerSpec /\ WF_workerVars(Work)

-----------------------------------------------------------------------------
\* dofunction() was called.
Made == given # {}

\* No key is left out and none is made that is not due: at every moment the
\* passwords that dofunction() was given are exactly those from the start of
\* the chunk to the current one, whatever the tables, the carries, the changes
\* of length and the timeout did on the way.
Coverage == Made => given = Words(SoFar)

\* A chunk whose end does not come before its start is never left: the worker
\* is not given a password beyond the end.  (One that names one password in two
\* spellings, which the once flag misses, is.)
InsideChunk ==
  Made /\ (sameText \/ Precedes(DigitsOf(start), end_digit)) => given \subseteq Words(Chunk)

\* The exit code can be trusted (the table at the end of main()): 0 means that
\* the whole chunk was compared and the target is not in it, 1 that the target
\* was compared, 2 that the time was up and nothing was found in what was
\* compared so far.  The sum of the results leads to no other code.
StopCode ==
  /\ exitcode \in {-1, 0, 1, 2, PWD_ERROR}
  /\ exitcode = 0 => Words(Chunk) \subseteq checked /\ target \notin checked
  /\ exitcode = 1 => target \in checked
  /\ exitcode = 2 => timedOut /\ target \notin checked

\* The counter that the worker reports is the number of calls of dofunction()
\* (API.pod: "The counter is automatically incremented for each call to
\* dofunction()"), across every check of the time, which moves pwds_done to
\* pwds, and the timeout, at which a password is checked twice.
Counted == Made /\ calls < MaxPwds => pwds + pwds_done = calls

\* overflow (pwdgen.h: "how many chars overflowed (e.g changed) from last
\* password to current"): a worker that keeps what it computed for the first
\* length - overflow characters of the last password may use it again.
OverflowTells ==
  [][phase = "loop" =>
       \A i \in 1 .. Len(pwd') - overflow' : pwd'[i] = pwd[i]]_workerVars

\* The worker ends, also for a chunk whose end comes before its start and for
\* any number of times the clock is set back.
Ends == <>(phase = "exited")

-----------------------------------------------------------------------------
(***************************************************************************)
(* The worker walks the key room: KeyRoom says in which order, with what   *)
(* omitted (nothing) and when it may stop.                                 *)
(***************************************************************************)
Verdict ==
  CASE exitcode = -1 -> "none"
    [] exitcode = 0 -> "done"
    [] exitcode = 1 -> "found"
    [] exitcode = 2 -> "timeout"
    [] exitcode = PWD_ERROR -> "error"

Room == INSTANCE KeyRoom WITH
  first   <- IF ChunkAccepted THEN DigitsOf(start) ELSE << >>,
  last    <- IF ChunkAccepted THEN DigitsOf(end) ELSE << >>,
  at      <- IF given = {} THEN << >> ELSE pwd_digit,
  verdict <- Verdict

WalksTheRoom == Room!RoomSpec
=============================================================================
