-------------------------------- MODULE Main --------------------------------
(***************************************************************************)
(* What the workers with a table-driven generator have in common: main()   *)
(* of src/src/main/main.c from the command line to the generator loop.     *)
(* Worker, WorkerPar and WorkerEnc put a loop of main.c between this and   *)
(* the end in MainEnd.                                                     *)
(***************************************************************************)
EXTENDS PwdGen, MainEnd

commonVars == <<timerVars, chunkVars, genVars, mainVars>>

MainInit ==
  /\ TimerInit
  /\ ChunkGiven
  /\ EndInit
  /\ pwd = << >> /\ pwd_digit = << >> /\ end_digit = << >> /\ overflow = 0 /\ once = 0

-----------------------------------------------------------------------------
\* main() up to the loop: it accepts the chunk, and the worker's initfunction()
\* and pwdgen_finalize() succeed.
Begin ==
  /\ phase = "init"
  /\ pwdgen_init
  /\ phase' = "first"
  /\ UNCHANGED <<timerVars, chunkVars, target, found, error, exitcode>>

\* One of them fails.
Refuse ==
  /\ phase = "init"
  /\ ~ChunkAccepted \/ MayFail
  /\ GiveUp
  /\ UNCHANGED <<timerVars, chunkVars, genVars>>

Clock ==
  /\ ClockTicks
  /\ UNCHANGED <<chunkVars, genVars>>

-----------------------------------------------------------------------------
(***************************************************************************)
(* What the properties of the workers are about.                           *)
(***************************************************************************)
Words(ks) == {Word(k) : k \in ks}

Chunk == Between(DigitsOf(start), end_digit)

\* The keys up to the current one.
SoFar == Between(DigitsOf(start), pwd_digit)
=============================================================================
