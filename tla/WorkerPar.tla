----------------------------- MODULE WorkerPar -----------------------------
(***************************************************************************)
(* A worker that checks its passwords in blocks: gather_pwds() of          *)
(* src/src/main/main.c, the buffer of src/src/main/pwd_par.c and the       *)
(* dofunction() of src/src/test_par/test_par.c, which looks for the target *)
(* in the whole buffer.                                                    *)
(*                                                                         *)
(* A pass of the loop "found = pwdgen_next(pwd) + pwdgen_par_push(pwd)" is *)
(* two actions here, MakeKey and Push; found keeps the first result until  *)
(* the second is added.  A buffer entry is the password it holds, the      *)
(* padding byte is left out.                                               *)
(***************************************************************************)
EXTENDS Main

CONSTANTS
  MaxCount,    \* the size of the block, at most MAX_COUNT (64K) in the code
  NoMemory     \* whether the buffer for a longer password may fail to be allocated

\* A buffer of one is what is left when memory has run out.
ASSUME ParAssumption ==
  /\ MaxCount \in Nat \ {0}
  /\ NoMemory \in BOOLEAN
  /\ NoMemory => MaxCount > 1

NUL == "NUL"   \* the byte that ends a C string

VARIABLES
  par_buff,    \* the passwords of the current block; par_cnt is its length
  par_ok,      \* par_buff is not NULL
  par_len,     \* the length of its passwords
  par_maxcnt,  \* how many it holds
  compared,    \* history: the passwords that were compared with the target
  hits         \* history: how often the target was found

parVars    == <<par_buff, par_ok, par_len, par_maxcnt>>
seenVars   == <<compared, hits>>
blockVars  == <<commonVars, parVars, seenVars>>

par_cnt == Len(par_buff)

\* pwdgen_par_init() is called by the worker's initfunction() when the first
\* password is set; a failure there is a failure of initfunction().
ParInit ==
  /\ MainInit
  /\ par_buff = << >> /\ par_ok = FALSE /\ par_len = 0 /\ par_maxcnt = 0
  /\ compared = {} /\ hits = 0

pwdgen_par_init ==
  /\ par_buff' = << >>
  /\ par_ok' = TRUE
  /\ par_len' = Len(pwd')
  /\ par_maxcnt' = MaxCount

-----------------------------------------------------------------------------
(***************************************************************************)
(* dofunction(): it compares the block's passwords until one matches, and  *)
(* then pwdgen_found() overwrites the current password with that one and a *)
(* NUL; the bytes behind it stay.                                          *)
(***************************************************************************)
Matches == {i \in 1 .. par_cnt : par_buff[i] = target}

Result == IF Matches = {} THEN PWD_FAIL ELSE PWD_SUCCESS

pwdgen_found(w) ==
  [i \in 1 .. Len(pwd) |->
     IF i <= Len(w) THEN w[i] ELSE IF i = Len(w) + 1 THEN NUL ELSE pwd[i]]

par_dofunction ==
  IF Matches = {}
    THEN /\ compared' = compared \union ToSet(par_buff)
         /\ UNCHANGED <<pwd, hits>>
    ELSE LET first == CHOOSE i \in Matches : \A j \in Matches : i <= j
         IN  /\ compared' = compared \union ToSet(SubSeq(par_buff, 1, first))
             /\ pwd' = pwdgen_found(target)
             /\ hits' = hits + 1

(***************************************************************************)
(* pwdgen_par_push(), with r its result: a full block, or one of passwords *)
(* of another length, is checked and cleared first.  What is pushed is the *)
(* current password as dofunction() left it.  When there is no memory for  *)
(* the longer passwords the result is that of a second call of dofunction()*)
(* for a block of none, and the NULL buffer is written to by the next push *)
(* of a password of that length.                                           *)
(***************************************************************************)
LengthChanged == par_len # Len(pwd)

\* Mutation: the full buffer is noticed one password too late.
MustFlushLate == LengthChanged \/ par_cnt > par_maxcnt

MustFlush == LengthChanged \/ par_cnt >= par_maxcnt

PushOnly(r) ==
  /\ ~MustFlush
  /\ par_buff' = Append(par_buff, pwd)
  /\ r = PWD_FAIL
  /\ UNCHANGED <<pwd, par_ok, par_len, par_maxcnt, seenVars>>

\* Mutation: the password that made the block be cleared is not pushed.
EmptyBlock == << >>

NewBlock == << pwd' >>

FlushAndPush(r) ==
  /\ MustFlush
  /\ par_dofunction
  /\ par_buff' = NewBlock
  /\ par_ok' = TRUE
  /\ par_len' = Len(pwd)
  /\ r = Result
  /\ UNCHANGED par_maxcnt

FlushNoMemory(r) ==
  /\ LengthChanged /\ NoMemory
  /\ par_dofunction
  /\ par_buff' = << >>
  /\ par_ok' = FALSE
  /\ par_len' = Len(pwd)
  /\ par_maxcnt' = 1
  /\ r = PWD_FAIL

par_push(r) == PushOnly(r) \/ FlushAndPush(r) \/ FlushNoMemory(r)

genRest == <<pwd_digit, end_digit, overflow, once>>

-----------------------------------------------------------------------------
ParStart == Begin /\ pwdgen_par_init /\ UNCHANGED seenVars

ParAbort == Refuse /\ UNCHANGED <<parVars, seenVars>>

\* The first half of a pass of the loop: the next password.
MakeKey ==
  /\ phase = "loop"
  /\ \E rc \in {PWD_OK, 1, PWD_TIMEOUT} : pwdgen_next(rc) /\ found' = rc
  /\ phase' = "push"
  /\ UNCHANGED <<target, error, exitcode, parVars, seenVars>>

\* The second half, and the push of the first password: into the block with it.
Push ==
  /\ phase \in {"first", "push"}
  /\ par_ok \/ MustFlush
  /\ \E r \in Results : par_push(r) /\ found' = found + r
  /\ phase' = (IF phase = "first" /\ once # 0 THEN "once"
               ELSE IF found' = 0 THEN "loop" ELSE "left")
  /\ UNCHANGED <<timerVars, chunkVars, genRest, target, error, exitcode>>

\* A push after a failed allocation, without another change of length, writes
\* to a NULL pointer.
Crash ==
  /\ phase = "push"
  /\ ~par_ok /\ ~MustFlush
  /\ phase' = "crashed"
  /\ UNCHANGED <<timerVars, chunkVars, genVars, target, found, error, exitcode,
                 parVars, seenVars>>

\* The only password of a chunk of one: pwdgen_par_process().
ProcessOnce ==
  /\ phase = "once"
  /\ par_dofunction
  /\ par_buff' = << >>
  /\ found' = Result + once
  /\ phase' = "left"
  /\ UNCHANGED <<timerVars, chunkVars, genRest, target, error, exitcode,
                 par_ok, par_len, par_maxcnt>>

\* Mutation: one password is not worth a block.
SomeLeft == par_cnt > 1

AnyLeft == par_cnt > 0

\* gather_pwds() after its loop: what is left in the block, and the end of it.
LeftOver ==
  /\ phase = "left"
  /\ \/ AnyLeft /\ par_dofunction /\ found' = found + Result
     \/ ~AnyLeft /\ UNCHANGED <<pwd, found, seenVars>>
  /\ par_buff' = << >>
  /\ par_ok' = FALSE
  /\ phase' = "end"
  /\ UNCHANGED <<timerVars, chunkVars, genRest, target, error, exitcode,
                 par_len, par_maxcnt>>

\* The rest of main(): endfunction() of test_par.c always returns PWD_FAIL.
ParFinish ==
  /\ phase = "end"
  /\ UNCHANGED <<chunkVars, genVars, error, parVars, seenVars>>
  /\ Exit(found)

ParPassTime == phase # "crashed" /\ Clock /\ UNCHANGED <<parVars, seenVars>>

ParWork == ParStart \/ ParAbort \/ MakeKey \/ Push \/ Crash \/ ProcessOnce \/ LeftOver \/ ParFinish

ParNext == ParWork \/ ParPassTime

ParSpec == ParInit /\ [][ParNext]_blockVars

\* The process is scheduled.
ParFairSpec == ParSpec /\ WF_blockVars(ParWork)

-----------------------------------------------------------------------------
\* Passwords of one length are gathered, and never more than the buffer holds:
\* a block is checked and cleared before a password of another length, or one
\* too many, is written to it.
BlockFits ==
  /\ par_cnt <= par_maxcnt
  /\ \A i \in 1 .. par_cnt : Len(par_buff[i]) = par_len

\* No buffer was refused so far.
HadMemory == par_maxcnt = MaxCount

\* Parallel or not, the same passwords are checked (par.t: "it should work just
\* like the old one"): the keys up to the current one were compared or wait in
\* the block, and nothing else was or does, as long as there is memory.
NoneLost ==
  phase \in {"loop", "left"} /\ hits = 0 /\ HadMemory =>
    compared \union ToSet(par_buff) = Words(SoFar)

\* What a stop code promises of a worker that had memory: 0 and 2 that all keys
\* of the chunk, and all up to the timeout, were compared in vain; 1 that the
\* target was found.  There is no other code.
ParStopCode ==
  /\ exitcode \in {-1, 0, 1, 2, PWD_ERROR}
  /\ exitcode = 0 /\ HadMemory => Words(Chunk) \subseteq compared /\ hits = 0
  /\ exitcode = 1 => hits > 0
  /\ exitcode = 2 /\ hits = 0 => timedOut /\ (HadMemory => Words(SoFar) \subseteq compared)

\* The worker ends, if only by a crash.
ParEnds == <>(phase \in {"exited", "crashed"})

\* main.c: "2 => found result, 3 => last password, and dofunction() did find
\* something, 6 => timeout, and dofunction() did find something" all lead to
\* stop code 1: a worker that found the password says so.
FoundReported == phase = "exited" /\ hits > 0 => exitcode = 1
=============================================================================
