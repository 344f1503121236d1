------------------------------ MODULE PwdTimer ------------------------------
(***************************************************************************)
(* The password counter and the timeout check of the generator             *)
(* (pwdgen_time_check(), pwdgen_took(), pwdgen_stop() and the counting     *)
(* part of pwdgen_next() in src/src/main/pwdgen.c), with the system clock  *)
(* they read.                                                              *)
(*                                                                         *)
(* The generator does not look at the clock for every password.  It counts *)
(* passwords in pwds_done and, when more than max_pwds were made, adds     *)
(* them up and checks the time; max_pwds doubles at every check of the     *)
(* first second.  The clock is not monotonic: it may be set back.          *)
(*                                                                         *)
(* In the specification of the module itself, TimerSpec, a password is     *)
(* made whenever no timeout was seen; PwdGen uses the operators in the     *)
(* steps of the generator.                                                 *)
(***************************************************************************)
EXTENDS Integers

CONSTANTS
  Timeout,       \* the worker's timeout in seconds, 0 for none
  FirstMaxPwds,  \* passwords before the first check (32 in pwdgen_init)
  FirstReport,   \* seconds before the first status report (30)
  LastReport,    \* the report interval doubles up to this (1920)
  ULongMod,      \* 2^w for the w bits of max_pwds
  MaxClock,      \* bound: the clock stops here
  Warps,         \* bound: how many seconds the clock may be set back at once
  MaxWarps,      \* bound: how often the clock may be set back
  MaxPwds        \* bound: the total counter saturates here

ASSUME TimerAssumption ==
  /\ Timeout \in Nat
  /\ FirstMaxPwds \in Nat \ {0}
  /\ FirstReport \in Nat \ {0}
  /\ LastReport \in Nat
  /\ ULongMod \in Nat \ {0}
  /\ FirstMaxPwds < ULongMod
  /\ MaxClock \in Nat
  /\ Warps \subseteq Nat \ {0}
  /\ MaxWarps \in Nat
  /\ MaxPwds \in Nat

PWD_OK      == 0
PWD_TIMEOUT == 4

VARIABLES
  now,            \* the system clock, time(NULL)
  real,           \* history: seconds that really passed since the start
  warps,          \* history: how often the clock was set back
  tstart,         \* time of init, corrected when the clock goes back
  tlast,          \* the clock at the last timeout check
  tlast_report,   \* the clock at the last status report
  report_status,  \* seconds between two status reports
  took,           \* seconds since tstart, as computed last
  max_pwds,       \* passwords between two checks
  pwds_done,      \* passwords since the last check
  pwds,           \* passwords before the last check
  timedOut        \* a check said PWD_TIMEOUT

clockVars == <<now, real, warps>>
checkVars == <<tstart, tlast, tlast_report, report_status, took, max_pwds, timedOut>>
countVars == <<pwds, pwds_done>>
timerVars == <<clockVars, checkVars, countVars>>

\* pwdgen_init() at clock time 0; an extraction has no status reports, and the
\* extractor counts its passwords from 0.
TimerInitWith(report, made) ==
  /\ now = 0 /\ real = 0 /\ warps = 0
  /\ tstart = now /\ tlast = now /\ tlast_report = now
  /\ report_status = report
  /\ took = 0
  /\ max_pwds = FirstMaxPwds
  /\ pwds = made /\ pwds_done = 0
  /\ timedOut = FALSE

TimerInit == TimerInitWith(FirstReport, 1)

-----------------------------------------------------------------------------
(***************************************************************************)
(* The environment: time passes, or somebody sets the clock back.          *)
(***************************************************************************)
Tick ==
  /\ now < MaxClock
  /\ now' = now + 1
  /\ real' = real + 1
  /\ UNCHANGED <<warps, checkVars, countVars>>

SetBack ==
  /\ warps < MaxWarps
  /\ \E s \in Warps : now' = now - s
  /\ warps' = warps + 1
  /\ UNCHANGED <<real, checkVars, countVars>>

-----------------------------------------------------------------------------
(***************************************************************************)
(* The status report of pwdgen_time_check(): a clock that went back only   *)
(* restarts the interval, a report that is due doubles it.                 *)
(***************************************************************************)
ReportDue == now - tlast_report >= report_status

StatusReport ==
  IF report_status = 0
    THEN UNCHANGED <<tlast_report, report_status>>
    ELSE /\ tlast_report' = IF now < tlast_report \/ ReportDue THEN now ELSE tlast_report
         /\ report_status' = IF ReportDue /\ report_status <= LastReport
                               THEN 2 * report_status ELSE report_status

\* pwdgen_took(): the elapsed time, never negative.
Took == IF now < tstart THEN 0 ELSE now - tstart

\* Mutation: the sign is put right, but the correction is made at every check.
AlwaysCorrected == tstart + (now - tlast)

\* tstart after the correction for a clock that went back since the last check
CorrectedStart == IF now < tlast THEN tstart - (now - tlast) ELSE tstart

Doubled == (2 * max_pwds) % ULongMod

\* Mutation: the last second does not count.
TimeReached(t) == t >= Timeout

TimeExceeded(t) == t > Timeout

(***************************************************************************)
(* The timeout half of pwdgen_time_check(), when a timeout is requested.   *)
(***************************************************************************)
TimeoutCheck ==
  /\ tstart' = CorrectedStart
  /\ tlast' = now
  /\ took' = now - CorrectedStart
  /\ max_pwds' = IF took' < 1 THEN Doubled ELSE max_pwds
  /\ timedOut' = TimeExceeded(took')

pwdgen_time_check ==
  /\ StatusReport
  /\ IF Timeout # 0
       THEN TimeoutCheck
       ELSE /\ took' = IF report_status # 0 THEN Took ELSE took
            /\ UNCHANGED <<tstart, tlast, max_pwds, timedOut>>

\* Mutation: the counter is reset before it is added up.
ResetBeforeAdding(n) == pwds

AddUp(n) == IF pwds + n > MaxPwds THEN MaxPwds ELSE pwds + n

\* Mutation: the check is due at one count only.
CheckDueOnce == pwds_done + 1 = max_pwds

CheckDue == pwds_done + 1 > max_pwds

(***************************************************************************)
(* One more password, as pwdgen_next() counts it before it makes it.  When *)
(* a check is due and says PWD_TIMEOUT, timedOut' is TRUE.                 *)
(***************************************************************************)
CountPwd ==
  /\ IF CheckDue
       THEN /\ pwds' = AddUp(pwds_done + 1)
            /\ pwds_done' = 0
            /\ pwdgen_time_check
       ELSE /\ pwds_done' = pwds_done + 1
            /\ UNCHANGED <<pwds, checkVars>>
  /\ UNCHANGED clockVars

\* pwdgen_stop(): the counters are added up and the time is taken once more.
pwdgen_stop ==
  /\ pwds' = AddUp(pwds_done)
  /\ pwds_done' = 0
  /\ took' = now - tstart
  /\ UNCHANGED <<clockVars, tstart, tlast, tlast_report, report_status, max_pwds, timedOut>>

-----------------------------------------------------------------------------
Generate == ~timedOut /\ CountPwd

TimerNext == Tick \/ SetBack \/ Generate

TimerSpec == TimerInit /\ [][TimerNext]_timerVars

(***************************************************************************)
(* The worker computes and time passes: neither stops for ever.  That the  *)
(* clock is set back is never assumed.                                     *)
(***************************************************************************)
TimerFairSpec ==
  TimerSpec /\ WF_timerVars(Tick) /\ WF_timerVars(Generate)

-----------------------------------------------------------------------------
TimerTypeOK ==
  /\ now \in Int /\ real \in Nat /\ warps \in 0 .. MaxWarps
  /\ tstart \in Int /\ tlast \in Int /\ tlast_report \in Int /\ took \in Int
  /\ report_status \in Nat
  /\ max_pwds \in 0 .. ULongMod - 1
  /\ pwds_done \in Nat /\ pwds \in Nat
  /\ timedOut \in BOOLEAN

\* A worker is never stopped before its time, however often and however far
\* the clock is set back: PWD_TIMEOUT is only returned after more than
\* Timeout seconds have really passed.
NeverTooEarly == timedOut => real > Timeout

\* The pause between two looks at the clock is never longer than all the work
\* before it: max_pwds is at most what was counted up to the last check plus
\* the first interval, so a timeout is noticed with at most that delay.
CheckInterval == pwds < MaxPwds => max_pwds < pwds + FirstMaxPwds

\* The worker never makes more passwords than max_pwds without looking at the
\* clock, also after max_pwds has wrapped around.
CheckedInTime == pwds_done <= max_pwds

\* A worker with a timeout stops: once time goes on, a check comes that sees
\* it, for any number of times the clock was set back.
Stops == <>timedOut
=============================================================================
