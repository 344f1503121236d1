------------------------------ MODULE MCTimer -------------------------------
(***************************************************************************)
(* PwdTimer on a small clock: seconds up to MaxClock, a max_pwds that wraps *)
(* around at 8, and the clock set back by one or two seconds.              *)
(***************************************************************************)
EXTENDS PwdTimer
MCWarps == {1, 2}
=============================================================================
