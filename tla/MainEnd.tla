------------------------------ MODULE MainEnd ------------------------------
(***************************************************************************)
(* The end of main() in src/src/main/main.c: what becomes of the sum of    *)
(* results that its loops return.  Every kind of worker ends here.         *)
(***************************************************************************)
EXTENDS PwdTimer, FiniteSets, SequencesExt

CONSTANTS
  Targets,     \* what a chunk may look for: passwords, or something else
  MayFail      \* whether the worker's own functions may report errors

ASSUME MayFailAssumption == MayFail \in BOOLEAN

PWD_FAIL    == 0
PWD_SUCCESS == 2
PWD_ERROR   == 7

Results == {PWD_FAIL, PWD_SUCCESS, PWD_ERROR}

VARIABLES
  target,      \* the password to be found
  phase,       \* where main() is
  found,       \* the sum of the results that main() and its loops keep
  error,       \* pwd->error
  exitcode     \* what main() returns

mainVars == <<target, phase, found, error, exitcode>>

EndInit ==
  /\ target \in Targets
  /\ phase = "init" /\ found = 0 /\ error = FALSE /\ exitcode = -1

\* pwdgen_init(), initfunction() or pwdgen_finalize() fails: the process ends.
GiveUp ==
  /\ phase' = "exited"
  /\ exitcode' = PWD_ERROR
  /\ UNCHANGED <<target, found, error>>

\* A loop of main.c after a call of dofunction(): it ends with PWD_ERROR
\* whenever pwd->error is set, and with any result but 0.
Collect(sum) ==
  /\ found' = IF error' THEN PWD_ERROR ELSE sum
  /\ phase' = IF found' = 0 THEN "loop" ELSE "end"
  /\ UNCHANGED <<target, exitcode>>

(***************************************************************************)
(* After the loop: endfunction() is called unless there was an error or    *)
(* bit 2 of found, the timeout's, is set; then comes the exit code.        *)
(***************************************************************************)
Bit2(n) == (n \div 4) % 2 = 1

\* Mutation: the wrong bit is tested.
CallsEndfunctionAtEvenCodes == found < PWD_ERROR /\ found % 2 = 0

CallsEndfunction == found < PWD_ERROR /\ ~Bit2(found)

\* Mutation: "timeout and found" is not turned into "found".
PlainExitCode(n) == n \div 2

ExitCode(n) == LET half == n \div 2 IN IF half > 2 THEN 1 ELSE half

Exit(sum) ==
  /\ found' = sum
  /\ phase' = "exited"
  /\ \/ /\ sum >= PWD_ERROR \/ error'
        /\ exitcode' = PWD_ERROR
        /\ UNCHANGED timerVars
     \/ /\ sum < PWD_ERROR
        /\ ~error'
        /\ exitcode' = ExitCode(sum)
        /\ pwdgen_stop
  /\ UNCHANGED target

\* The environment: the clock, while the worker runs.
ClockTicks ==
  /\ phase # "exited"
  /\ Tick \/ SetBack
  /\ UNCHANGED mainVars

\* The histories of the workers count calls up to the bound of the counter.
OneMore(n) == IF n < MaxPwds THEN n + 1 ELSE n
=============================================================================
