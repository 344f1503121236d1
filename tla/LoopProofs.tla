----------------------------- MODULE LoopProofs -----------------------------
(***************************************************************************)
(* Proofs about the two other ways a worker collects its passwords.  With  *)
(* WorkerPar: a block never holds more than its buffer, no password is     *)
(* lost between two blocks, and the stop code of the parallel worker can   *)
(* be trusted.  With WorkerEnc: whatever the list of encodings, no key is  *)
(* left out; a good list is given completely; and the counter is behind    *)
(* the calls by one string at most.                                        *)
(***************************************************************************)
EXTENDS WorkerPar, WorkerEnc, GeneratorProofs

Bytes == Chars \union {NUL}

Texts == Seq(Bytes)

(***************************************************************************)
(* Once pwdgen_init() accepted the chunk.  The current password is a text  *)
(* as long as the key; it shows the key until pwdgen_found() overwrites it.*)
(***************************************************************************)
AtText ==
  /\ ChunkAccepted
  /\ pwd_digit \in Keys
  /\ pwd \in Texts /\ Len(pwd) = Len(pwd_digit)
  /\ hits = 0 => pwd = Word(pwd_digit)
  /\ AtMost(DigitsOf(start), pwd_digit)
  /\ end_digit = DigitsOf(end)
  /\ once = (IF sameText THEN 1 ELSE 0)
  /\ par_maxcnt \in {1, MaxCount}

\* What the sum of the results tells when the loop was left.
SumTells ==
  /\ found \in Nat \ {0}
  /\ hits = 0 => found \in {1, 4}
  /\ hits = 0 /\ found = 1 => EndOfChunk
  /\ hits = 0 /\ found = 4 => timedOut
  /\ hits > 0 /\ HadMemory => found >= 2

\* Nothing was found and no buffer was refused so far.
Undisturbed == hits = 0 /\ HadMemory

ParInv ==
  /\ ChunkGiven
  /\ par_buff \in Seq(Texts) /\ hits \in Nat
  /\ BlockFits
  /\ phase \in {"init", "first", "loop", "push", "once", "left", "end", "crashed", "exited"}
  /\ phase # "exited" => exitcode = -1
  /\ phase = "init" => par_buff = << >> /\ par_maxcnt = 0 /\ compared = {} /\ hits = 0
  /\ phase \notin {"init", "exited"} => AtText
  /\ phase \in {"init", "first", "once"} => found = 0 /\ hits = 0
  /\ phase \in {"first", "once"} => pwd_digit = DigitsOf(start) /\ HadMemory
  /\ phase = "first" => compared = {} /\ par_buff = << >> /\ par_len = Len(pwd)
  /\ phase = "once" => sameText
  /\ phase = "loop" => found = 0 /\ Len(pwd_digit) <= Len(end)
  /\ phase \in {"loop", "push"} => ~(hits > 0 /\ HadMemory)
  /\ phase = "push" =>
       /\ found \in {0, 1, 4}
       /\ found = 0 => Len(pwd_digit) <= Len(end)
       /\ hits = 0 /\ found = 1 => EndOfChunk
       /\ found = 4 => timedOut
  /\ phase \in {"left", "end"} => SumTells
  /\ phase \in {"loop", "once", "left"} /\ Undisturbed =>
       compared \union ToSet(par_buff) = Words(SoFar)
  /\ phase = "push" /\ Undisturbed =>
       compared \union ToSet(par_buff) \union {pwd} = Words(SoFar)
  /\ phase = "end" /\ Undisturbed => compared = Words(SoFar)
  /\ exitcode \in {-1, 0, 1, 2, PWD_ERROR}
  /\ exitcode = 0 /\ HadMemory => hits = 0 /\ compared = Words(SoFar) /\ EndOfChunk /\ AtText
  /\ exitcode = 1 => hits > 0
  /\ exitcode = 2 /\ hits = 0 => timedOut /\ (HadMemory => compared = Words(SoFar))

LEMMA ConstantFacts == MaxCount \in Nat /\ MaxCount >= 1 /\ (NoMemory => MaxCount # 1)
BY ParAssumption DEF ParAssumption

\* dofunction() leaves a text of the same length; it leaves everything but the
\* passwords compared as it is when the target is not in the block.
LEMMA ProcessFacts ==
  ASSUME par_buff \in Seq(Texts), pwd \in Texts, hits \in Nat, par_dofunction
  PROVE  /\ pwd' \in Texts /\ Len(pwd') = Len(pwd) /\ hits' \in Nat
         /\ \/ Result = 0 /\ pwd' = pwd /\ hits' = hits
               /\ compared' = compared \union ToSet(par_buff)
            \/ Result = 2 /\ hits' > 0
<1>1. CASE Matches = {}
  BY <1>1 DEF par_dofunction, Result, PWD_FAIL
<1>2. CASE Matches # {}
  <2>1. pwd' = pwdgen_found(target) /\ hits' = hits + 1
    BY <1>2 DEF par_dofunction
  <2>2. target \in Texts
    BY <1>2 DEF Matches, par_cnt
  <2>3. \A i \in 1 .. Len(pwd) :
          (IF i <= Len(target) THEN target[i]
           ELSE IF i = Len(target) + 1 THEN NUL ELSE pwd[i]) \in Bytes
    <3>1. NUL \in Bytes
      BY DEF Bytes
    <3>2. \A i \in 1 .. Len(pwd) : pwd[i] \in Bytes
      BY DEF Texts
    <3>3. \A i \in 1 .. Len(target) : target[i] \in Bytes
      BY <2>2 DEF Texts
    <3>4. Len(pwd) \in Nat /\ Len(target) \in Nat
      BY <2>2 DEF Texts
    <3> QED BY <3>1, <3>2, <3>3, <3>4
  <2>4. pwdgen_found(target) \in [1 .. Len(pwd) -> Bytes]
    BY <2>3 DEF pwdgen_found
  <2>5. Len(pwd) \in Nat
    BY DEF Texts
  <2>6. pwd' \in Texts /\ Len(pwd') = Len(pwd)
    BY <2>1, <2>4, <2>5 DEF Texts
  <2> QED BY <1>2, <2>1, <2>6 DEF Result, PWD_SUCCESS
<1> QED BY <1>1, <1>2

\* What a push does to the block, and what its result says.
LEMMA PushFacts ==
  ASSUME par_buff \in Seq(Texts), pwd \in Texts, hits \in Nat, BlockFits,
         par_maxcnt \in {1, MaxCount}, NEW r, par_push(r)
  PROVE  /\ par_buff' \in Seq(Texts) /\ pwd' \in Texts /\ Len(pwd') = Len(pwd)
         /\ hits' \in Nat /\ BlockFits' /\ par_maxcnt' \in {1, MaxCount}
         /\ r \in {0, 2}
         /\ HadMemory' => HadMemory
         /\ HadMemory' /\ hits' > 0 => hits > 0 \/ r = 2
         /\ r = 2 => hits' > 0
         /\ hits' = 0 => hits = 0 /\ pwd' = pwd
         /\ hits' = 0 /\ HadMemory' =>
              compared' \union ToSet(par_buff') = compared \union ToSet(par_buff) \union {pwd}
<1>1. /\ Len(par_buff) \in Nat /\ par_maxcnt \in Nat /\ par_maxcnt >= 1
      /\ Len(par_buff) <= par_maxcnt
      /\ \A i \in 1 .. Len(par_buff) : Len(par_buff[i]) = par_len
  BY ConstantFacts DEF BlockFits, par_cnt
<1>2. CASE PushOnly(r)
  <2>1. /\ par_buff' = Append(par_buff, pwd) /\ r = 0
        /\ UNCHANGED <<pwd, par_len, par_maxcnt, compared, hits>>
        /\ par_len = Len(pwd) /\ Len(par_buff) < par_maxcnt
    BY <1>1, <1>2 DEF PushOnly, MustFlush, LengthChanged, par_cnt, seenVars, PWD_FAIL
  <2>2. /\ par_buff' \in Seq(Texts)
        /\ ToSet(par_buff') = ToSet(par_buff) \union {pwd}
    BY <2>1, AppendedSet
  <2>3. BlockFits'
    <3>1. Len(par_buff') = Len(par_buff) + 1
      BY <2>1
    <3>2. ASSUME NEW i \in 1 .. Len(par_buff') PROVE Len(par_buff'[i]) = par_len
      <4>1. par_buff'[i] = IF i = Len(par_buff) + 1 THEN pwd ELSE par_buff[i]
        BY <2>1, <3>1
      <4> QED BY <1>1, <2>1, <3>1, <4>1
    <3> QED BY <1>1, <2>1, <3>1, <3>2 DEF BlockFits, par_cnt
  <2>4. HadMemory' = HadMemory
    BY <2>1 DEF HadMemory
  <2>5. compared' \union ToSet(par_buff') = compared \union ToSet(par_buff) \union {pwd}
    BY <2>1, <2>2
  <2> QED BY <2>1, <2>2, <2>3, <2>4, <2>5
<1>3. CASE FlushAndPush(r)
  <2>1. /\ par_dofunction /\ par_buff' = << pwd' >> /\ par_len' = Len(pwd) /\ r = Result
        /\ UNCHANGED par_maxcnt
    BY <1>3 DEF FlushAndPush, NewBlock
  <2>2. /\ pwd' \in Texts /\ Len(pwd') = Len(pwd) /\ hits' \in Nat
        /\ \/ Result = 0 /\ pwd' = pwd /\ hits' = hits
              /\ compared' = compared \union ToSet(par_buff)
           \/ Result = 2 /\ hits' > 0
    BY <2>1, ProcessFacts
  <2>3. par_buff' \in Seq(Texts) /\ ToSet(par_buff') = {pwd'}
    BY <2>1, <2>2 DEF ToSet
  <2>4. BlockFits'
    BY <1>1, <2>1, <2>2 DEF BlockFits, par_cnt
  <2>5. HadMemory' = HadMemory
    BY <2>1 DEF HadMemory
  <2> QED BY <2>1, <2>2, <2>3, <2>4, <2>5
<1>4. CASE FlushNoMemory(r)
  <2>1. /\ par_dofunction /\ par_buff' = << >> /\ r = 0 /\ par_maxcnt' = 1 /\ NoMemory
    BY <1>4 DEF FlushNoMemory, PWD_FAIL
  <2>2. /\ pwd' \in Texts /\ Len(pwd') = Len(pwd) /\ hits' \in Nat
        /\ hits' = 0 => hits = 0 /\ pwd' = pwd
    BY <2>1, ProcessFacts
  <2>3. ~HadMemory'
    BY <2>1, ConstantFacts DEF HadMemory
  <2>4. BlockFits'
    BY <2>1 DEF BlockFits, par_cnt
  <2> QED BY <2>1, <2>2, <2>3, <2>4
<1> QED BY <1>2, <1>3, <1>4 DEF par_push

-----------------------------------------------------------------------------
LEMMA ParOfStart ==
  ASSUME ParInv, ParStart
  PROVE  ParInv'
<1>1. /\ phase = "init" /\ phase' = "first" /\ ChunkAccepted
      /\ pwd_digit' = DigitsOf(start) /\ pwd' = start /\ end_digit' = DigitsOf(end)
      /\ once' = (IF sameText THEN 1 ELSE 0)
      /\ par_buff' = << >> /\ par_maxcnt' = MaxCount /\ par_len' = Len(pwd')
      /\ UNCHANGED <<start, end, sameText, found, exitcode, compared, hits>>
  BY DEF ParStart, Begin, pwdgen_init, pwdgen_par_init, chunkVars, seenVars
<1>2. ChunkGiven /\ compared = {} /\ hits = 0 /\ found = 0 /\ exitcode = -1
  BY <1>1 DEF ParInv
<1>3. /\ DigitsOf(start) \in Keys /\ Word(DigitsOf(start)) = start
      /\ Len(DigitsOf(start)) = Len(start)
  BY <1>1, <1>2, ChunkFacts
<1>4. start \in Texts
  <2>1. start \in Seq(Chars)
    BY <1>3, WordChars
  <2> QED BY <2>1 DEF Texts, Bytes
<1>5. AtText'
  BY <1>1, <1>2, <1>3, <1>4 DEF AtText, ChunkAccepted, AtMost
<1>6. ChunkGiven' /\ HadMemory'
  BY <1>1, <1>2 DEF ChunkGiven, HadMemory
<1>7. BlockFits'
  <2>1. Len(par_buff') = 0
    BY <1>1
  <2>2. 1 .. Len(par_buff') = {}
    BY <2>1
  <2>3. Len(par_buff') <= par_maxcnt'
    BY <1>1, <2>1, ConstantFacts
  <2> QED BY <2>2, <2>3 DEF BlockFits, par_cnt
<1> QED BY <1>1, <1>2, <1>5, <1>6, <1>7 DEF ParInv, PWD_ERROR

LEMMA ParOfMakeKey ==
  ASSUME ParInv, MakeKey
  PROVE  ParInv'
<1>1. PICK rc \in {PWD_OK, 1, PWD_TIMEOUT} : pwdgen_next(rc) /\ found' = rc
  BY DEF MakeKey
<1>2. /\ phase = "loop" /\ phase' = "push"
      /\ UNCHANGED <<start, end, sameText, exitcode, par_buff, par_len, par_maxcnt,
                     compared, hits>>
  BY <1>1 DEF MakeKey, pwdgen_next, chunkVars, parVars, seenVars
<1>3. /\ ChunkGiven /\ AtText /\ Len(pwd_digit) <= Len(end) /\ exitcode = -1
      /\ par_buff \in Seq(Texts) /\ hits \in Nat /\ BlockFits
      /\ ~(hits > 0 /\ HadMemory)
      /\ Undisturbed => compared \union ToSet(par_buff) = Words(SoFar)
  BY <1>2 DEF ParInv
<1>4. /\ ChunkGiven' /\ BlockFits' /\ HadMemory' = HadMemory
      /\ Undisturbed' = Undisturbed /\ ChunkAccepted'
  BY <1>2, <1>3 DEF ChunkGiven, BlockFits, par_cnt, HadMemory, Undisturbed, AtText,
                    ChunkAccepted
<1>5. /\ AtText' /\ rc \in {0, 1, 4}
      /\ rc = 0 => Len(pwd_digit') <= Len(end)
      /\ hits = 0 /\ rc = 1 => EndOfChunk'
      /\ rc = 4 => timedOut'
      /\ hits = 0 => Words(SoFar) \union {pwd'} = Words(SoFar)'
  <2>1. CASE timedOut' /\ rc = PWD_TIMEOUT /\ UNCHANGED genVars
    <3>1. UNCHANGED <<pwd, pwd_digit, end_digit, once>>
      BY <2>1 DEF genVars
    <3>2. pwd_digit \in SoFar
      BY <1>3 DEF SoFar, Between, AtText, AtMost
    <3>3. hits = 0 => pwd \in Words(SoFar)
      BY <1>3, <3>2 DEF Words, AtText
    <3>4. SoFar' = SoFar
      BY <1>2, <3>1 DEF SoFar
    <3>5. AtText'
      BY <1>2, <1>3, <1>4, <3>1 DEF AtText
    <3> QED BY <2>1, <3>1, <3>3, <3>4, <3>5 DEF PWD_TIMEOUT, Words
  <2>2. CASE MakeNext(rc)
    <3>1. /\ pwd_digit \in Keys /\ Len(pwd_digit) \in Nat /\ Len(pwd_digit) < PWD_LEN
          /\ pwd \in Seq(Bytes) /\ Len(pwd) = Len(pwd_digit) /\ Chars \subseteq Bytes
          /\ Len(end) \in Nat /\ DigitsOf(start) \in Keys
          /\ hits = 0 => pwd = Word(pwd_digit)
      BY <1>3, ChunkFacts, KeyFacts, CharsetAssumption
         DEF AtText, Texts, Bytes, CharsetAssumption
    <3>2. /\ pwd_digit' \in Keys /\ Successor(pwd_digit, pwd_digit')
          /\ Len(pwd_digit') \in {Len(pwd_digit), Len(pwd_digit) + 1}
          /\ pwd' \in Seq(Bytes) /\ Len(pwd') = Len(pwd_digit')
          /\ rc = 0 => Len(pwd_digit') = Len(pwd_digit) \/ ~(Len(pwd_digit') > Len(end))
          /\ rc \in {0, 1}
          /\ UNCHANGED <<end_digit, once>>
      BY <2>2, <3>1, MakeNextText
    <3>3. hits = 0 => /\ pwd' = Word(pwd_digit')
                      /\ rc = 1 => pwd' = end \/ Len(pwd_digit') > Len(end)
      BY <2>2, <3>1, MakeNextFacts
    <3>4. /\ AtMost(DigitsOf(start), pwd_digit')
          /\ Between(DigitsOf(start), pwd_digit') = SoFar \union {pwd_digit'}
      BY <1>3, <3>1, <3>2, BetweenGrows DEF AtText, SoFar
    <3>5. AtText'
      BY <1>2, <1>3, <1>4, <3>2, <3>3, <3>4 DEF AtText, Texts
    <3>6. hits = 0 => Words(SoFar) \union {pwd'} = Words(SoFar)'
      <4>1. SoFar' = SoFar \union {pwd_digit'}
        BY <1>2, <3>4 DEF SoFar
      <4> QED BY <3>3, <4>1 DEF Words
    <3>7. rc = 0 => Len(pwd_digit') <= Len(end)
      BY <1>3, <3>1, <3>2
    <3>8. hits = 0 /\ rc = 1 => EndOfChunk'
      BY <1>2, <3>3 DEF EndOfChunk
    <3> QED BY <3>2, <3>5, <3>6, <3>7, <3>8
  <2> QED BY <1>1, <2>1, <2>2 DEF pwdgen_next
<1>6. Undisturbed => compared \union ToSet(par_buff) \union {pwd'} = Words(SoFar)'
  BY <1>3, <1>5 DEF Undisturbed
<1>7. found' \in {0, 1, 4} /\ found' = rc
  BY <1>1, <1>5
<1> QED BY <1>2, <1>3, <1>4, <1>5, <1>6, <1>7 DEF ParInv, PWD_ERROR

LEMMA ParOfPush ==
  ASSUME ParInv, Push
  PROVE  ParInv'
<1>1. PICK r \in Results : par_push(r) /\ found' = found + r
  BY DEF Push
<1>2. /\ phase \in {"first", "push"}
      /\ phase' = (IF phase = "first" /\ once # 0 THEN "once"
                   ELSE IF found' = 0 THEN "loop" ELSE "left")
      /\ UNCHANGED <<start, end, sameText, pwd_digit, end_digit, once, exitcode, timedOut>>
  BY DEF Push, timerVars, checkVars, chunkVars, genRest
<1>3. /\ ChunkGiven /\ AtText /\ exitcode = -1 /\ par_buff \in Seq(Texts) /\ hits \in Nat
      /\ BlockFits /\ pwd \in Texts /\ Len(pwd) = Len(pwd_digit)
      /\ par_maxcnt \in {1, MaxCount}
      /\ found \in {0, 1, 4}
      /\ hits = 0 => pwd = Word(pwd_digit)
  BY <1>2 DEF ParInv, AtText
<1>4. /\ par_buff' \in Seq(Texts) /\ pwd' \in Texts /\ Len(pwd') = Len(pwd)
      /\ hits' \in Nat /\ BlockFits' /\ par_maxcnt' \in {1, MaxCount}
      /\ r \in {0, 2}
      /\ HadMemory' => HadMemory
      /\ HadMemory' /\ hits' > 0 => hits > 0 \/ r = 2
      /\ r = 2 => hits' > 0
      /\ hits' = 0 => hits = 0 /\ pwd' = pwd
      /\ hits' = 0 /\ HadMemory' =>
           compared' \union ToSet(par_buff') = compared \union ToSet(par_buff) \union {pwd}
  BY <1>1, <1>3, PushFacts
<1>5. ChunkGiven' /\ EndOfChunk' = EndOfChunk /\ Words(SoFar)' = Words(SoFar)
  BY <1>2, <1>3 DEF ChunkGiven, EndOfChunk, Words, SoFar
<1>6. AtText'
  BY <1>2, <1>3, <1>4 DEF AtText, ChunkAccepted
<1>7. Undisturbed' => compared' \union ToSet(par_buff') = Words(SoFar)'
  <2> SUFFICES ASSUME Undisturbed' PROVE compared' \union ToSet(par_buff') = Words(SoFar)
    BY <1>5
  <2>1. /\ Undisturbed
        /\ compared' \union ToSet(par_buff') = compared \union ToSet(par_buff) \union {pwd}
    BY <1>4 DEF Undisturbed
  <2>2. CASE phase = "push"
    BY <2>1, <2>2 DEF ParInv
  <2>3. CASE phase = "first"
    <3>1. /\ compared = {} /\ par_buff = << >> /\ pwd_digit = DigitsOf(start)
          /\ pwd = Word(pwd_digit) /\ pwd_digit \in Keys
      BY <2>3 DEF ParInv, AtText
    <3>2. ToSet(par_buff) = {}
      BY <3>1 DEF ToSet
    <3>3. SoFar = {pwd_digit}
      BY <3>1, BetweenItself DEF SoFar
    <3> QED BY <2>1, <3>1, <3>2, <3>3 DEF Words
  <2> QED BY <1>2, <2>2, <2>3
<1>8. CASE phase = "first"
  <2>1. /\ pwd_digit = DigitsOf(start) /\ HadMemory /\ found = 0 /\ hits = 0
        /\ compared = {} /\ par_buff = << >> /\ par_len = Len(pwd)
    BY <1>8 DEF ParInv
  <2>2. ~MustFlush /\ ~LengthChanged
    BY <2>1, ConstantFacts DEF MustFlush, LengthChanged, par_cnt, HadMemory
  <2>3. r = 0 /\ UNCHANGED <<par_maxcnt, hits>>
    BY <1>1, <2>2 DEF par_push, PushOnly, FlushAndPush, FlushNoMemory, seenVars, PWD_FAIL
  <2>4. Len(pwd_digit') <= Len(end)' /\ found' = 0 /\ HadMemory'
    BY <1>1, <1>2, <1>3, <2>1, <2>3, ChunkFacts DEF AtText, HadMemory
  <2>5. phase' = "loop" \/ (phase' = "once" /\ sameText)
    BY <1>2, <1>3, <1>8, <2>4 DEF AtText
  <2> QED BY <1>2, <1>3, <1>4, <1>5, <1>6, <1>7, <2>1, <2>3, <2>4, <2>5 DEF ParInv, PWD_ERROR
<1>9. CASE phase = "push"
  <2>1. /\ ~(hits > 0 /\ HadMemory)
        /\ found = 0 => Len(pwd_digit) <= Len(end)
        /\ hits = 0 /\ found = 1 => EndOfChunk
        /\ found = 4 => timedOut
    BY <1>9 DEF ParInv
  <2>2. found' \in Nat /\ (found' = 0 <=> found = 0 /\ r = 0)
    BY <1>1, <1>3, <1>4
  <2>3. hits' = 0 => found' = found
    BY <1>1, <1>3, <1>4
  <2>4. HadMemory' /\ hits' > 0 => found' >= 2
    BY <1>1, <1>3, <1>4, <2>1
  <2>5. found' # 0 => SumTells'
    BY <1>2, <1>3, <1>4, <1>5, <2>1, <2>2, <2>3, <2>4 DEF SumTells
  <2>6. found' = 0 => Len(pwd_digit') <= Len(end)' /\ ~(hits' > 0 /\ HadMemory')
    BY <1>2, <2>1, <2>2, <2>4
  <2>7. phase' = (IF found' = 0 THEN "loop" ELSE "left")
    BY <1>2, <1>9
  <2> QED BY <1>2, <1>3, <1>4, <1>5, <1>6, <1>7, <2>5, <2>6, <2>7 DEF ParInv, PWD_ERROR
<1> QED BY <1>2, <1>8, <1>9

LEMMA NoBlockFits ==
  ASSUME par_buff' = << >>, par_maxcnt' \in Nat
  PROVE  BlockFits' /\ par_buff' \in Seq(Texts) /\ ToSet(par_buff') = {}
<1>1. Len(par_buff') = 0 /\ 1 .. Len(par_buff') = {}
  OBVIOUS
<1> QED BY <1>1 DEF BlockFits, par_cnt, ToSet

LEMMA ParOfProcessOnce ==
  ASSUME ParInv, ProcessOnce
  PROVE  ParInv'
<1>1. /\ phase = "once" /\ phase' = "left" /\ par_dofunction /\ par_buff' = << >>
      /\ found' = Result + once
      /\ UNCHANGED <<start, end, sameText, pwd_digit, end_digit, once, exitcode, timedOut,
                     par_maxcnt>>
  BY DEF ProcessOnce, timerVars, checkVars, chunkVars, genRest
<1>2. /\ ChunkGiven /\ AtText /\ exitcode = -1 /\ par_buff \in Seq(Texts) /\ hits = 0
      /\ pwd \in Texts /\ sameText /\ pwd_digit = DigitsOf(start) /\ once = 1
      /\ par_maxcnt \in Nat /\ hits \in Nat
      /\ Undisturbed => compared \union ToSet(par_buff) = Words(SoFar)
  BY <1>1, ConstantFacts DEF ParInv, AtText
<1>3. /\ pwd' \in Texts /\ Len(pwd') = Len(pwd) /\ hits' \in Nat
      /\ \/ Result = 0 /\ pwd' = pwd /\ hits' = hits
            /\ compared' = compared \union ToSet(par_buff)
         \/ Result = 2 /\ hits' > 0
  BY <1>1, <1>2, ProcessFacts
<1>4. BlockFits' /\ par_buff' \in Seq(Texts) /\ ToSet(par_buff') = {}
  BY <1>1, <1>2, NoBlockFits
<1>5. /\ ChunkGiven' /\ Words(SoFar)' = Words(SoFar) /\ HadMemory' = HadMemory
  BY <1>1, <1>2 DEF ChunkGiven, Words, SoFar, HadMemory
<1>9. AtText'
  BY <1>1, <1>2, <1>3 DEF AtText, ChunkAccepted
<1>6. EndOfChunk'
  BY <1>1, <1>2, ChunkFacts DEF EndOfChunk, AtText, ChunkGiven
<1>7. SumTells'
  BY <1>1, <1>2, <1>3, <1>6 DEF SumTells
<1>8. Undisturbed' => compared' \union ToSet(par_buff') = Words(SoFar)'
  <2> SUFFICES ASSUME Undisturbed' PROVE compared' \union ToSet(par_buff') = Words(SoFar)'
    OBVIOUS
  <2>1. hits' = 0 /\ HadMemory'
    BY DEF Undisturbed
  <2>2. hits = 0 /\ compared' = compared \union ToSet(par_buff)
    BY <1>3, <1>4, <2>1
  <2>3. Undisturbed
    BY <1>5, <2>1, <2>2 DEF Undisturbed
  <2> QED BY <1>2, <1>3, <1>4, <1>5, <2>2, <2>3
<1> QED BY <1>1, <1>2, <1>3, <1>4, <1>5, <1>7, <1>8, <1>9 DEF ParInv, PWD_ERROR

LEMMA ParOfLeftOver ==
  ASSUME ParInv, LeftOver
  PROVE  ParInv'
<1>1. /\ phase = "left" /\ phase' = "end" /\ par_buff' = << >>
      /\ UNCHANGED <<start, end, sameText, pwd_digit, end_digit, once, exitcode, timedOut,
                     par_maxcnt>>
  BY DEF LeftOver, timerVars, checkVars, chunkVars, genRest
<1>2. /\ ChunkGiven /\ AtText /\ exitcode = -1 /\ par_buff \in Seq(Texts)
      /\ pwd \in Texts /\ par_maxcnt \in Nat /\ hits \in Nat /\ SumTells
      /\ Undisturbed => compared \union ToSet(par_buff) = Words(SoFar)
  BY <1>1, ConstantFacts DEF ParInv, AtText
<1>3. BlockFits' /\ par_buff' \in Seq(Texts)
  BY <1>1, <1>2, NoBlockFits
<1>4. /\ pwd' \in Texts /\ Len(pwd') = Len(pwd) /\ hits' \in Nat
      /\ \/ /\ found' = found /\ pwd' = pwd /\ hits' = hits
            /\ compared' = compared \union ToSet(par_buff)
         \/ found' = found + 2 /\ hits' > 0
  <2>1. CASE AnyLeft
    <3>1. par_dofunction /\ found' = found + Result
      BY <2>1 DEF LeftOver
    <3>2. found + 0 = found
      BY <1>2 DEF SumTells
    <3> QED BY <1>2, <3>1, <3>2, ProcessFacts
  <2>2. CASE ~AnyLeft
    <3>1. UNCHANGED <<pwd, found, compared, hits>>
      BY <2>2 DEF LeftOver, seenVars
    <3>2. Len(par_buff) = 0
      BY <1>2, <2>2 DEF AnyLeft, par_cnt
    <3>3. ToSet(par_buff) = {}
      BY <3>2, <1>2 DEF ToSet
    <3> QED BY <1>2, <3>1, <3>3
  <2> QED BY <2>1, <2>2
<1>5. /\ ChunkGiven' /\ Words(SoFar)' = Words(SoFar) /\ HadMemory' = HadMemory
      /\ EndOfChunk' = EndOfChunk
  BY <1>1, <1>2 DEF ChunkGiven, Words, SoFar, HadMemory, EndOfChunk
<1>6. AtText'
  BY <1>1, <1>2, <1>4 DEF AtText, ChunkAccepted
<1>7. SumTells'
  BY <1>1, <1>2, <1>4, <1>5 DEF SumTells
<1>8. Undisturbed' => compared' = Words(SoFar)'
  <2> SUFFICES ASSUME Undisturbed' PROVE compared' = Words(SoFar)'
    OBVIOUS
  <2>1. hits' = 0 /\ HadMemory'
    BY DEF Undisturbed
  <2>2. hits = 0 /\ compared' = compared \union ToSet(par_buff)
    BY <1>4, <2>1
  <2>3. Undisturbed
    BY <1>5, <2>1, <2>2 DEF Undisturbed
  <2> QED BY <1>2, <1>4, <1>5, <2>2, <2>3
<1> QED BY <1>1, <1>2, <1>3, <1>4, <1>5, <1>6, <1>7, <1>8 DEF ParInv, PWD_ERROR

\* The codes that the sums of a parallel worker lead to.
LEMMA ParCodes ==
  ASSUME NEW n \in Nat \ {0}, n < 7
  PROVE  /\ ExitCode(n) \in {0, 1, 2}
         /\ ExitCode(n) = 0 <=> n = 1
         /\ ExitCode(n) = 2 <=> n \in {4, 5}
<1>1. n \in {1, 2, 3, 4, 5, 6}
  OBVIOUS
<1>2. /\ ExitCode(1) = 0 /\ ExitCode(2) = 1 /\ ExitCode(3) = 1 /\ ExitCode(4) = 2
      /\ ExitCode(5) = 2 /\ ExitCode(6) = 1
  BY DEF ExitCode
<1> QED BY <1>1, <1>2

LEMMA ParOfFinish ==
  ASSUME ParInv, ParFinish
  PROVE  ParInv'
<1>1. /\ phase = "end" /\ phase' = "exited" /\ Exit(found)
      /\ UNCHANGED <<start, end, sameText, pwd, pwd_digit, end_digit, once, timedOut, error,
                     par_buff, par_len, par_maxcnt, compared, hits>>
  BY DEF ParFinish, Exit, pwdgen_stop, timerVars, checkVars, chunkVars, genVars, parVars,
         seenVars
<1>2. /\ ChunkGiven /\ AtText /\ par_buff \in Seq(Texts) /\ hits \in Nat /\ BlockFits
      /\ SumTells
      /\ Undisturbed => compared = Words(SoFar)
  BY <1>1 DEF ParInv
<1>3. ChunkGiven' /\ BlockFits' /\ Words(SoFar)' = Words(SoFar) /\ HadMemory' = HadMemory
  BY <1>1, <1>2 DEF ChunkGiven, BlockFits, par_cnt, Words, SoFar, HadMemory
<1>4. AtText' /\ EndOfChunk' = EndOfChunk
  BY <1>1, <1>2 DEF AtText, ChunkAccepted, EndOfChunk
<1>5. CASE exitcode' = 7
  BY <1>1, <1>2, <1>3, <1>5 DEF ParInv, PWD_ERROR
<1>6. CASE exitcode' # 7
  <2>1. found < 7 /\ exitcode' = ExitCode(found)
    BY <1>1, <1>6 DEF Exit, PWD_ERROR
  <2>2. /\ exitcode' \in {0, 1, 2}
        /\ exitcode' = 0 <=> found = 1
        /\ exitcode' = 2 <=> found \in {4, 5}
    BY <1>2, <2>1, ParCodes DEF SumTells
  <2>3. exitcode' = 0 /\ HadMemory' =>
          hits' = 0 /\ compared' = Words(SoFar)' /\ EndOfChunk' /\ AtText'
    BY <1>1, <1>2, <1>3, <1>4, <2>2 DEF SumTells, Undisturbed
  <2>4. exitcode' = 1 => hits' > 0
    BY <1>1, <1>2, <2>2 DEF SumTells
  <2>5. exitcode' = 2 /\ hits' = 0 => timedOut' /\ (HadMemory' => compared' = Words(SoFar)')
    BY <1>1, <1>2, <1>3, <2>2 DEF SumTells, Undisturbed
  <2> QED BY <1>1, <1>2, <1>3, <2>2, <2>3, <2>4, <2>5 DEF ParInv, PWD_ERROR
<1> QED BY <1>5, <1>6

\* A step that leaves alone what the invariant is about, but for a crash.
LEMMA ParKept ==
  ASSUME ParInv, UNCHANGED <<chunkVars, genVars, found, exitcode, timedOut, parVars, seenVars>>,
         phase' = phase \/ (phase = "push" /\ phase' = "crashed")
  PROVE  ParInv'
<1>1. UNCHANGED <<start, end, sameText, pwd, pwd_digit, end_digit, once, par_buff, par_len,
                  par_maxcnt, compared, hits>>
  BY DEF chunkVars, genVars, parVars, seenVars
<1>2. /\ ChunkGiven' = ChunkGiven /\ BlockFits' = BlockFits /\ AtText' = AtText
      /\ HadMemory' = HadMemory /\ Undisturbed' = Undisturbed /\ SumTells' = SumTells
      /\ EndOfChunk' = EndOfChunk /\ Words(SoFar)' = Words(SoFar)
  BY <1>1 DEF ChunkGiven, BlockFits, par_cnt, AtText, ChunkAccepted, HadMemory, Undisturbed,
              SumTells, EndOfChunk, Words, SoFar
<1> QED BY <1>1, <1>2 DEF ParInv, PWD_ERROR

LEMMA ParInduction == ParSpec => []ParInv
<1>1. ParInit => ParInv
  <2> SUFFICES ASSUME ParInit PROVE ParInv
    OBVIOUS
  <2>1. /\ par_buff = << >> /\ par_maxcnt = 0 /\ compared = {} /\ hits = 0 /\ ChunkGiven
        /\ phase = "init" /\ found = 0 /\ exitcode = -1
    BY DEF ParInit, MainInit, EndInit
  <2>2. Len(par_buff) = 0 /\ 1 .. Len(par_buff) = {}
    BY <2>1
  <2>3. BlockFits
    BY <2>1, <2>2 DEF BlockFits, par_cnt
  <2> QED BY <2>1, <2>3 DEF ParInv, PWD_ERROR
<1>2. ParInv /\ [ParNext]_blockVars => ParInv'
  <2> SUFFICES ASSUME ParInv, [ParNext]_blockVars PROVE ParInv'
    OBVIOUS
  <2>1. CASE ParStart
    BY <2>1, ParOfStart
  <2>2. CASE ParAbort
    <3>1. /\ phase = "init" /\ phase' = "exited" /\ exitcode' = 7
          /\ UNCHANGED <<start, end, sameText, par_buff, par_len, par_maxcnt, hits>>
      BY <2>2 DEF ParAbort, Refuse, GiveUp, chunkVars, parVars, seenVars, PWD_ERROR
    <3>2. ChunkGiven' /\ BlockFits'
      BY <3>1 DEF ParInv, ChunkGiven, BlockFits, par_cnt
    <3> QED BY <3>1, <3>2 DEF ParInv, PWD_ERROR
  <2>3. CASE MakeKey
    BY <2>3, ParOfMakeKey
  <2>4. CASE Push
    BY <2>4, ParOfPush
  <2>5. CASE Crash
    BY <2>5, ParKept DEF Crash, timerVars, checkVars
  <2>6. CASE ProcessOnce
    BY <2>6, ParOfProcessOnce
  <2>7. CASE LeftOver
    BY <2>7, ParOfLeftOver
  <2>8. CASE ParFinish
    BY <2>8, ParOfFinish
  <2>9. CASE ParPassTime
    BY <2>9, ParKept DEF ParPassTime, Clock, ClockTicks, Tick, SetBack, checkVars, mainVars
  <2>10. CASE UNCHANGED blockVars
    BY <2>10, ParKept DEF blockVars, commonVars, timerVars, checkVars, mainVars
  <2> QED BY <2>1, <2>2, <2>3, <2>4, <2>5, <2>6, <2>7, <2>8, <2>9, <2>10 DEF ParNext, ParWork
<1> QED BY <1>1, <1>2, PTL DEF ParSpec

-----------------------------------------------------------------------------
\* No write passes the end of the block's buffer, and all of its passwords have
\* the length it was made for.
THEOREM NeverTooMany == ParSpec => []BlockFits
<1>1. ParInv => BlockFits
  BY DEF ParInv
<1> QED BY <1>1, ParInduction, PTL

\* As long as there is memory and nothing is found, the keys up to the current
\* one are compared or wait in the block, whatever the size of the block and the
\* changes of length are.
THEOREM NoPasswordLost == ParSpec => []NoneLost
<1>1. ParInv => NoneLost
  BY DEF ParInv, NoneLost, Undisturbed
<1> QED BY <1>1, ParInduction, PTL

\* What the stop codes of a parallel worker promise holds.
THEOREM ParCodeTrusted == ParSpec => []ParStopCode
<1>1. ParInv => ParStopCode
  <2> SUFFICES ASSUME ParInv PROVE ParStopCode
    OBVIOUS
  <2>1. ASSUME exitcode = 0, HadMemory PROVE Words(Chunk) \subseteq compared /\ hits = 0
    <3>1. hits = 0 /\ compared = Words(SoFar) /\ EndOfChunk /\ AtText /\ ChunkGiven
      BY <2>1 DEF ParInv
    <3>2. /\ AtMost(end_digit, pwd_digit) /\ end_digit \in Keys /\ pwd_digit \in Keys
          /\ DigitsOf(start) \in Keys
      BY <3>1, ChunkFacts, EndReached DEF EndOfChunk, AtText
    <3>3. Chunk \subseteq SoFar
      BY <3>2, BetweenOrdered DEF Chunk, SoFar
    <3> QED BY <3>1, <3>3 DEF Words
  <2>2. /\ exitcode \in {-1, 0, 1, 2, PWD_ERROR}
        /\ exitcode = 1 => hits > 0
        /\ exitcode = 2 /\ hits = 0 =>
             timedOut /\ (HadMemory => Words(SoFar) \subseteq compared)
    BY DEF ParInv
  <2> QED BY <2>1, <2>2 DEF ParStopCode
<1> QED BY <1>1, ParInduction, PTL
-----------------------------------------------------------------------------



Given == given # {}

WordsGiven == {s.word : s \in given}

(***************************************************************************)
(* Coverage.  As for a worker without encodings, but the loop also goes on *)
(* beyond the last password until its encodings are done; last_pwd is then *)
(* set and no key is made any more.                                        *)
(***************************************************************************)
AtKey ==
  /\ ChunkAccepted
  /\ pwd_digit \in Keys
  /\ pwd = Word(pwd_digit)
  /\ AtMost(DigitsOf(start), pwd_digit)

EncInv ==
  /\ ChunkGiven
  /\ calls \in Nat /\ (calls > 0 => Given)
  /\ phase \in {"init", "first", "loop", "end", "exited"}
  /\ phase \in {"init", "first"} => given = {}
  /\ phase \in {"first", "loop", "end"} \/ Given => AtKey
  /\ phase = "first" => pwd_digit = DigitsOf(start) /\ cur.word = pwd
  /\ phase \in {"loop", "end"} => Given
  /\ phase = "loop" => cur.word = pwd /\ (last_pwd \/ Len(pwd_digit) <= Len(end))
  /\ Given => WordsGiven = Words(SoFar)

LEMMA ShownWord == \A w, e : Show(w, e).word = w
BY DEF Show

LEMMA EncKept ==
  ASSUME EncInv, UNCHANGED <<chunkVars, pwd, pwd_digit, given, calls, cur, last_pwd>>,
         phase' = phase \/ phase' = "exited"
  PROVE  EncInv'
<1>1. UNCHANGED <<start, end, sameText, pwd, pwd_digit, given, calls, cur, last_pwd>>
  BY DEF chunkVars
<1>2. /\ ChunkGiven' = ChunkGiven /\ Given' = Given /\ AtKey' = AtKey
      /\ WordsGiven' = WordsGiven /\ Words(SoFar)' = Words(SoFar)
  BY <1>1 DEF ChunkGiven, Given, AtKey, ChunkAccepted, WordsGiven, Words, SoFar
<1> QED BY <1>1, <1>2 DEF EncInv

LEMMA EncOfStart ==
  ASSUME EncInv, Start
  PROVE  EncInv'
<1>1. /\ phase = "init" /\ phase' = "first" /\ ChunkAccepted
      /\ pwd_digit' = DigitsOf(start) /\ pwd' = start /\ cur' = Show(start, encodings[1])
      /\ UNCHANGED <<start, end, sameText, given, calls>>
  BY DEF Start, EncBegin, chunkVars, histVars
<1>2. ChunkGiven /\ given = {} /\ calls \in Nat /\ (calls > 0 => Given)
  BY <1>1 DEF EncInv
<1>3. DigitsOf(start) \in Keys /\ Word(DigitsOf(start)) = start
  BY <1>1, <1>2, ChunkFacts
<1>4. AtKey'
  BY <1>1, <1>3 DEF AtKey, ChunkAccepted, AtMost
<1>5. cur'.word = pwd' /\ ChunkGiven' /\ ~Given' /\ ~Given
  BY <1>1, <1>2, ShownWord DEF ChunkGiven, Given
<1> QED BY <1>1, <1>2, <1>4, <1>5 DEF EncInv

LEMMA CallFacts ==
  ASSUME calls \in Nat, NEW s, NEW r, dofunction(s, r)
  PROVE  /\ given' = given \union {s} /\ Given' /\ calls' \in Nat
         /\ r \in {0, 2} /\ error' = error
         /\ WordsGiven' = WordsGiven \union {s.word}
<1>1. given' = given \union {s} /\ calls' = OneMore(calls) /\ r \in {0, 2} /\ error' = error
  BY DEF dofunction, PWD_SUCCESS, PWD_FAIL
<1>2. calls' \in Nat
  BY <1>1, TimerAssumption DEF OneMore, TimerAssumption
<1> QED BY <1>1, <1>2 DEF Given, WordsGiven

LEMMA EncOfFirstKey ==
  ASSUME EncInv, FirstKey
  PROVE  EncInv'
<1>1. PICK r \in Results : dofunction(cur, r) /\ Collect(r + once)
  BY DEF FirstKey
<1>2. /\ phase = "first" /\ phase' \in {"loop", "end"}
      /\ UNCHANGED <<start, end, sameText, pwd, pwd_digit, cur, last_pwd>>
  BY <1>1 DEF FirstKey, Collect, chunkVars, genVars, encVars
<1>3. /\ ChunkGiven /\ given = {} /\ AtKey /\ pwd_digit = DigitsOf(start)
      /\ cur.word = pwd /\ calls \in Nat
  BY <1>2 DEF EncInv
<1>4. calls' \in Nat /\ Given' /\ WordsGiven' = {pwd}
  <2>1. WordsGiven = {}
    BY <1>3 DEF WordsGiven
  <2> QED BY <1>1, <1>3, <2>1, CallFacts
<1>5. Words(SoFar)' = {pwd}
  <2>1. SoFar' = {pwd_digit}
    BY <1>2, <1>3, BetweenItself DEF AtKey, SoFar
  <2> QED BY <1>3, <2>1 DEF Words, AtKey
<1>6. Len(pwd_digit') <= Len(end)'
  BY <1>2, <1>3, ChunkFacts DEF AtKey
<1>7. AtKey' /\ ChunkGiven'
  BY <1>2, <1>3 DEF AtKey, ChunkAccepted, ChunkGiven
<1> QED BY <1>2, <1>3, <1>4, <1>5, <1>6, <1>7 DEF EncInv

\* What a call of pwdgen_next() makes of the key and of the string.
LEMMA NextEncodedFacts ==
  ASSUME EncInv, phase = "loop", NEW rc \in {PWD_OK, 1, PWD_TIMEOUT}, pwdgen_next_encoded(rc)
  PROVE  /\ AtKey' /\ cur'.word = pwd' /\ UNCHANGED <<start, end, sameText>>
         /\ Words(SoFar) \union {pwd'} = Words(SoFar)'
         /\ rc = 0 => last_pwd' \/ Len(pwd_digit') <= Len(end)
<1>1. /\ ChunkGiven /\ AtKey /\ cur.word = pwd /\ (last_pwd \/ Len(pwd_digit) <= Len(end))
      /\ UNCHANGED <<start, end, sameText, encodings, prefix>>
  BY DEF EncInv, pwdgen_next_encoded, chunkVars
<1>2. DigitsOf(start) \in Keys /\ Len(end) \in Nat /\ Len(end) < PWD_LEN
      /\ Len(pwd_digit) \in Nat
  BY <1>1, ChunkFacts, KeyFacts DEF AtKey
<1>3. ASSUME UNCHANGED <<pwd, pwd_digit>>
      PROVE  AtKey' /\ Words(SoFar) \union {pwd'} = Words(SoFar)'
  <2>1. AtKey'
    BY <1>1, <1>3 DEF AtKey, ChunkAccepted
  <2>2. pwd_digit \in SoFar /\ SoFar' = SoFar
    BY <1>1, <1>3 DEF SoFar, Between, AtKey, AtMost
  <2> QED BY <1>1, <1>3, <2>1, <2>2 DEF Words, AtKey
<1>4. Converted.word = pwd
  BY <1>1, ShownWord DEF Converted
<1>5. CASE ShowNext(rc)
  <2>1. UNCHANGED <<pwd, pwd_digit, last_pwd>> /\ cur' = Show(pwd, NextEncoding)
    BY <1>5 DEF ShowNext, genVars
  <2> QED BY <1>1, <1>3, <2>1, ShownWord
<1>6. CASE StopAtLast(rc) \/ TimeUp(rc)
  <2>1. UNCHANGED <<pwd, pwd_digit>> /\ cur' = Converted /\ rc # 0
    BY <1>6 DEF StopAtLast, TimeUp, genVars, PWD_TIMEOUT
  <2> QED BY <1>1, <1>3, <1>4, <2>1
<1>7. CASE ShowFirst(rc)
  <2>1. PICK l \in {PWD_OK, 1} :
          /\ MakeNext(l)
          /\ last_pwd' = (l = 1 /\ EncodingsToCome)
          /\ rc = (IF EncodingsToCome THEN PWD_OK ELSE l)
    BY <1>7 DEF ShowFirst
  <2>2. ~last_pwd /\ cur' = Show(pwd', encodings[1])
    BY <1>7 DEF ShowFirst, FirstShown
  <2>3. Len(pwd_digit) < PWD_LEN
    BY <1>1, <1>2, <2>2, CharsetAssumption DEF CharsetAssumption
  <2>4. /\ pwd_digit' \in Keys /\ Successor(pwd_digit, pwd_digit')
        /\ Len(pwd_digit') \in {Len(pwd_digit), Len(pwd_digit) + 1}
        /\ pwd' = Word(pwd_digit')
        /\ l = 0 => Len(pwd_digit') = Len(pwd_digit) \/ ~(Len(pwd_digit') > Len(end))
    BY <1>1, <2>1, <2>3, MakeNextFacts DEF AtKey
  <2>5. /\ AtMost(DigitsOf(start), pwd_digit')
        /\ Between(DigitsOf(start), pwd_digit') = SoFar \union {pwd_digit'}
    BY <1>1, <1>2, <2>4, BetweenGrows DEF AtKey, SoFar
  <2>6. AtKey'
    BY <1>1, <2>4, <2>5 DEF AtKey, ChunkAccepted
  <2>7. Words(SoFar) \union {pwd'} = Words(SoFar)'
    <3>1. SoFar' = SoFar \union {pwd_digit'}
      BY <1>1, <2>5 DEF SoFar
    <3> QED BY <2>4, <3>1 DEF Words
  <2>8. l = 0 => Len(pwd_digit') <= Len(end)
    BY <1>1, <1>2, <2>2, <2>4
  <2>9. rc = 0 => l = 0 \/ last_pwd'
    BY <2>1 DEF PWD_OK
  <2> QED BY <1>1, <2>2, <2>6, <2>7, <2>8, <2>9, ShownWord
<1> QED BY <1>5, <1>6, <1>7 DEF pwdgen_next_encoded

\* What is left of a pass of the loop: 0 + 0 goes on, anything else ends it.
LEMMA LoopGoesOn ==
  ASSUME NEW rc \in {PWD_OK, 1, PWD_TIMEOUT}, NEW r \in {0, 2}, Collect(rc + r)
  PROVE  phase' \in {"loop", "end"} /\ (phase' = "loop" => rc = 0)
<1>1. phase' \in {"loop", "end"}
  BY DEF Collect
<1>2. ASSUME phase' = "loop" PROVE rc + r = 0
  BY <1>2 DEF Collect, PWD_ERROR
<1>3. rc + r = 0 => rc = 0
  BY DEF PWD_OK, PWD_TIMEOUT
<1> QED BY <1>1, <1>2, <1>3

LEMMA EncOfCycle ==
  ASSUME EncInv, Cycle
  PROVE  EncInv'
<1>1. PICK rc \in {PWD_OK, 1, PWD_TIMEOUT}, r \in Results :
        pwdgen_next_encoded(rc) /\ dofunction(cur', r) /\ Collect(rc + r)
  BY DEF Cycle
<1>2. phase = "loop" /\ ChunkGiven /\ Given /\ WordsGiven = Words(SoFar) /\ calls \in Nat
  BY DEF Cycle, EncInv
<1>3. /\ AtKey' /\ cur'.word = pwd' /\ UNCHANGED <<start, end, sameText>>
      /\ Words(SoFar) \union {pwd'} = Words(SoFar)'
      /\ rc = 0 => last_pwd' \/ Len(pwd_digit') <= Len(end)
  BY <1>1, <1>2, NextEncodedFacts
<1>4. Given' /\ calls' \in Nat /\ r \in {0, 2} /\ WordsGiven' = WordsGiven \union {cur'.word}
  BY <1>1, <1>2, CallFacts
<1>5. phase' \in {"loop", "end"} /\ (phase' = "loop" => rc = 0)
  BY <1>1, <1>4, LoopGoesOn
<1>6. ChunkGiven' /\ WordsGiven' = Words(SoFar)'
  BY <1>2, <1>3, <1>4 DEF ChunkGiven
<1> QED BY <1>3, <1>4, <1>5, <1>6 DEF EncInv

LEMMA EncInduction == EncSpec => []EncInv
<1>1. EncInit => EncInv
  BY DEF EncInit, MainInit, EndInit, EncInv, Given
<1>2. EncInv /\ [EncNext]_allVars => EncInv'
  <2> SUFFICES ASSUME EncInv, [EncNext]_allVars PROVE EncInv'
    OBVIOUS
  <2>1. CASE Start
    BY <2>1, EncOfStart
  <2>2. CASE Abort
    BY <2>2, EncKept DEF Abort, Refuse, GiveUp, genVars, encVars, histVars
  <2>3. CASE FirstKey
    BY <2>3, EncOfFirstKey
  <2>4. CASE Cycle
    BY <2>4, EncOfCycle
  <2>5. CASE Finish
    BY <2>5, EncKept DEF Finish, Exit, genVars, encVars, histVars
  <2>6. CASE PassTime
    BY <2>6, EncKept DEF PassTime, Clock, ClockTicks, genVars, mainVars, encVars, histVars
  <2>7. CASE UNCHANGED allVars
    BY <2>7, EncKept DEF allVars, commonVars, genVars, mainVars, encVars, histVars
  <2> QED BY <2>1, <2>2, <2>3, <2>4, <2>5, <2>6, <2>7 DEF EncNext, Work
<1> QED BY <1>1, <1>2, PTL DEF EncSpec

\* In whatever encodings the passwords are given: those given are exactly the
\* ones of the keys from the start of the chunk to the current one.
THEOREM NoKeyUnshown == EncSpec => []EncCoverage
<1>1. EncInv => EncCoverage
  BY DEF EncInv, EncCoverage, WordsGiven
<1> QED BY <1>1, EncInduction, PTL

-----------------------------------------------------------------------------
(***************************************************************************)
(* Good lists.  In the loop the current password was given in the first    *)
(* cur_encoding encodings, and every earlier one in all.  A password is    *)
(* left when the next encoding is none or is skipped; in a good list those *)
(* behind a skipped one show the same bytes as the first.  What is made is *)
(* what was meant, since every encoding of a good list is reached.         *)
(***************************************************************************)
AllMade(ks) == \A k \in ks, e \in ToSet(encodings) : Show(Word(k), e) \in given

ShownUpTo(n) == \A i \in 1 .. n : Show(pwd, encodings[i]) \in given

ShownInv ==
  /\ encodings \in Seq(Encodings) \ {<< >>}
  /\ phase \in {"init", "first", "loop", "end"} => exitcode = -1
  /\ exitcode \in {-1, 0, 1, 2, PWD_ERROR}
  /\ phase \in {"init", "first", "loop"} => error = FALSE
  /\ phase = "first" =>
       /\ cur = Show(pwd, encodings[1]) /\ cur_encoding = 1
       /\ once \in {0, 1} /\ (once = 1 => Len(encodings) = 1)
  /\ phase = "loop" => cur_encoding \in 1 .. Len(encodings) /\ ShownUpTo(cur_encoding)
  /\ phase = "end" =>
       /\ found \in {1, 2, 3, 4, 6} /\ error = FALSE
       /\ GoodList /\ found \in {1, 4} => AllMade(SoFar)
  /\ GoodList /\ Given => AllMade(SoFar \ {pwd_digit})
  /\ GoodList /\ exitcode \in {0, 2} => AllMade(SoFar)

LEMMA ListFacts ==
  ASSUME encodings \in Seq(Encodings) \ {<< >>}
  PROVE  /\ Len(encodings) \in Nat \ {0}
         /\ ToSet(encodings) = {encodings[i] : i \in 1 .. Len(encodings)}
<1>1. Len(encodings) \in Nat \ {0} /\ DOMAIN encodings = 1 .. Len(encodings)
  OBVIOUS
<1> QED BY <1>1 DEF ToSet

LEMMA GoodListLeft ==
  ASSUME encodings \in Seq(Encodings) \ {<< >>}, GoodList, ~NextIsNew,
         cur_encoding \in 1 .. Len(encodings), ShownUpTo(cur_encoding)
  PROVE  \A e \in ToSet(encodings) : Show(pwd, e) \in given
<1>1. Len(encodings) \in Nat /\ Len(encodings) >= 1
  BY ListFacts
<1>2. CASE ~Due
  <2>1. cur_encoding = Len(encodings)
    BY <1>1, <1>2 DEF Due
  <2> QED BY <2>1, ListFacts DEF ShownUpTo
<1>3. CASE Due
  <2> DEFINE n == cur_encoding + 1
  <2>1. n \in 2 .. Len(encodings) /\ NextEncoding = encodings[n] /\ n \in Nat
        /\ cur_encoding \in Nat /\ cur_encoding >= 1
    BY <1>1, <1>3 DEF Due, NextEncoding
  <2>2. /\ encodings[n] # Generator /\ encodings[1] \notin Wide
        /\ Reached(encodings[n]) = encodings[n]
    <3>1. HasConversion(Joined, encodings[n])
      BY <2>1 DEF GoodList, AllReached
    <3> QED BY <2>1, <3>1 DEF GoodList, Reached
  <2>3. encodings[n] \notin Wide /\ ~HasHighBit(pwd)
    <3>1. Skipped \/ Unchanged
      BY <1>3 DEF NextIsNew
    <3>2. CASE Skipped
      BY <2>1, <3>2, EncAssumption DEF Skipped, EncAssumption
    <3>3. CASE Unchanged
      BY <2>1, <2>2, <3>3 DEF Unchanged, Show, HighText
    <3> QED BY <3>1, <3>2, <3>3
  <2>4. ~prefix.high
    BY <2>1, <2>3 DEF GoodList
  <2>5. \A j \in 1 .. Len(encodings) : j >= n => encodings[j] \notin Wide
    <3> SUFFICES ASSUME NEW j \in 1 .. Len(encodings), j >= n PROVE encodings[j] \notin Wide
      OBVIOUS
    <3>1. j = n \/ (n < j /\ j \in 2 .. Len(encodings))
      BY <2>1
    <3> QED BY <2>1, <2>3, <3>1 DEF GoodList
  <2>6. \A i \in 1 .. Len(encodings) : encodings[i] \notin Wide =>
          Show(pwd, encodings[i]) = [word |-> pwd, as |-> Generator]
    BY <2>3, <2>4 DEF Show, HighText, Reached, GoodList, AllReached
  <2>7. Show(pwd, encodings[1]) \in given
    BY <2>1 DEF ShownUpTo
  <2>8. ASSUME NEW j \in 1 .. Len(encodings) PROVE Show(pwd, encodings[j]) \in given
    <3>1. j <= cur_encoding \/ j >= n
      BY <2>1
    <3>2. CASE j <= cur_encoding
      BY <2>1, <3>2 DEF ShownUpTo
    <3>3. CASE j >= n
      BY <1>1, <2>2, <2>5, <2>6, <2>7, <3>3
    <3> QED BY <3>1, <3>2, <3>3
  <2> QED BY <2>8, ListFacts
<1> QED BY <1>2, <1>3

\* Nothing that was shown is shown no more.
LEMMA ShowKept ==
  ASSUME UNCHANGED <<encodings, prefix>>
  PROVE  (\A w, e : Show(w, e)' = Show(w, e)) /\ GoodList' = GoodList
BY DEF Show, Reached, Joined, PrefixEncoding, HasConversion, HighText, HasHighBit,
       GoodList, AllReached

\* For a good list what is made is what was meant.
LEMMA MadeAsMeant ==
  ASSUME encodings \in Seq(Encodings) \ {<< >>}, GoodList, NEW STATE ks, AllMade(ks)
  PROVE  AllShown(ks)
<1>1. Joined \notin Above /\ Wide \subseteq Above
  BY EncAssumption DEF EncAssumption, Joined
<1>2. ASSUME NEW i \in 1 .. Len(encodings), NEW w
      PROVE  Show(w, encodings[i]) = Meant(w, encodings[i])
  <2>1. HasConversion(Joined, encodings[i])
    BY DEF GoodList, AllReached
  <2>2. encodings[i] \in Above => encodings[i] \in Wide
    BY <1>1, <2>1, EncAssumption DEF HasConversion, EncAssumption
  <2> QED BY <1>1, <2>1, <2>2 DEF Show, Meant, Reached
<1> QED BY <1>2, ListFacts DEF AllMade, AllShown

LEMMA ShownOfAll ==
  ASSUME AtKey, AllMade(SoFar \ {pwd_digit}),
         \A e \in ToSet(encodings) : Show(pwd, e) \in given
  PROVE  AllMade(SoFar)
BY DEF AllMade, AtKey

LEMMA ShownOfStart ==
  ASSUME EncInv, ShownInv, Start
  PROVE  ShownInv'
<1>1. /\ phase = "init" /\ phase' = "first"
      /\ pwd' = start /\ cur' = Show(start, encodings[1]) /\ cur_encoding' = 1
      /\ once' = IF sameText /\ ~ManyEncodings THEN 1 ELSE 0
      /\ UNCHANGED <<exitcode, error, encodings, prefix, given>>
  BY DEF Start, EncBegin, histVars
<1>2. /\ encodings \in Seq(Encodings) \ {<< >>} /\ exitcode = -1 /\ error = FALSE /\ ~Given'
  BY <1>1 DEF ShownInv, EncInv, Given
<1>3. cur' = Show(pwd, encodings[1])'
  BY <1>1, ShowKept
<1>4. once' \in {0, 1} /\ (once' = 1 => Len(encodings)' = 1)
  <2>1. Len(encodings) \in Nat \ {0} /\ Len(encodings)' = Len(encodings)
    BY <1>1, <1>2, ListFacts
  <2>2. ~ManyEncodings => Len(encodings) = 1
    BY <2>1 DEF ManyEncodings
  <2> QED BY <1>1, <2>1, <2>2
<1> QED BY <1>1, <1>2, <1>3, <1>4 DEF ShownInv, PWD_ERROR

LEMMA ShownOfFirstKey ==
  ASSUME EncInv, ShownInv, FirstKey
  PROVE  ShownInv'
<1>1. PICK r \in Results : dofunction(cur, r) /\ Collect(r + once)
  BY DEF FirstKey
<1>2. /\ phase = "first"
      /\ UNCHANGED <<start, end, pwd, pwd_digit, once, encodings, prefix, cur, cur_encoding>>
  BY <1>1 DEF FirstKey, chunkVars, genVars, encVars
<1>3. /\ AtKey /\ pwd_digit = DigitsOf(start) /\ calls \in Nat
      /\ encodings \in Seq(Encodings) \ {<< >>} /\ exitcode = -1 /\ error = FALSE
      /\ cur = Show(pwd, encodings[1]) /\ cur_encoding = 1
      /\ once \in {0, 1} /\ (once = 1 => Len(encodings) = 1)
  BY <1>2 DEF EncInv, ShownInv
<1>4. given' = given \union {cur} /\ r \in {0, 2} /\ error' = FALSE
  BY <1>1, <1>3, CallFacts
<1>5. /\ found' = r + once /\ phase' = (IF found' = 0 THEN "loop" ELSE "end")
      /\ exitcode' = exitcode
  BY <1>1, <1>4 DEF Collect
<1>6. /\ found' \in {0, 1, 2, 3} /\ (found' = 1 => once = 1)
  BY <1>3, <1>4, <1>5
<1>7. /\ \A w, e : Show(w, e)' = Show(w, e)
      /\ Len(encodings) \in Nat \ {0}
      /\ ToSet(encodings) = {encodings[i] : i \in 1 .. Len(encodings)}
  BY <1>2, <1>3, ShowKept, ListFacts
<1>8. SoFar' = {pwd_digit} /\ Word(pwd_digit) = pwd
  BY <1>2, <1>3, BetweenItself DEF AtKey, SoFar
<1>9. ShownUpTo(1)'
  BY <1>2, <1>3, <1>4, <1>7 DEF ShownUpTo
<1>10. cur_encoding' \in 1 .. Len(encodings)'
  BY <1>2, <1>3, <1>7
<1>11. AllMade(SoFar \ {pwd_digit})'
  BY <1>2, <1>8 DEF AllMade
<1>12. ASSUME found' = 1 PROVE AllMade(SoFar)'
  <2>1. 1 .. Len(encodings) = {1}
    <3>1. Len(encodings) = 1
      BY <1>3, <1>6, <1>12
    <3> QED BY <3>1
  <2>2. ToSet(encodings) = {encodings[1]}
    BY <1>7, <2>1
  <2> QED BY <1>2, <1>3, <1>4, <1>7, <1>8, <2>2 DEF AllMade
<1> QED BY <1>2, <1>3, <1>4, <1>5, <1>6, <1>9, <1>10, <1>11, <1>12 DEF ShownInv, PWD_ERROR

\* What a call of pwdgen_next() and the call of dofunction() that follows it make
\* of a good list.
LEMMA NextShownFacts ==
  ASSUME EncInv, ShownInv, phase = "loop", NEW rc \in {PWD_OK, 1, PWD_TIMEOUT},
         pwdgen_next_encoded(rc), given' = given \union {cur'}
  PROVE  /\ UNCHANGED <<encodings, prefix>>
         /\ rc = 0 => cur_encoding' \in 1 .. Len(encodings) /\ ShownUpTo(cur_encoding)'
         /\ GoodList' => AllMade(SoFar \ {pwd_digit})'
         /\ GoodList' /\ rc \in {1, 4} => AllMade(SoFar)'
<1>1. /\ UNCHANGED <<start, end, encodings, prefix>>
      /\ AtKey /\ Given /\ encodings \in Seq(Encodings) \ {<< >>}
      /\ cur_encoding \in 1 .. Len(encodings) /\ ShownUpTo(cur_encoding)
      /\ GoodList => AllMade(SoFar \ {pwd_digit})
  BY DEF EncInv, ShownInv, pwdgen_next_encoded, chunkVars
<1>2. /\ \A w, e : Show(w, e)' = Show(w, e)
      /\ GoodList' = GoodList
      /\ Len(encodings) \in Nat \ {0}
      /\ ToSet(encodings) = {encodings[i] : i \in 1 .. Len(encodings)}
  BY <1>1, ShowKept, ListFacts
<1>3. CASE ShowNext(rc)
  <2>1. /\ UNCHANGED <<pwd, pwd_digit>> /\ cur' = Show(pwd, NextEncoding)
        /\ cur_encoding' = cur_encoding + 1 /\ rc = 0 /\ Due
    BY <1>3 DEF ShowNext, NextIsNew, genVars, PWD_OK
  <2>2. SoFar' = SoFar
    BY <1>1, <2>1 DEF SoFar
  <2>3. cur_encoding' \in 1 .. Len(encodings)
    BY <1>1, <1>2, <2>1 DEF Due
  <2>4. ASSUME NEW i \in 1 .. cur_encoding' PROVE Show(pwd, encodings[i])' \in given'
    <3>1. i \in 1 .. cur_encoding \/ i = cur_encoding + 1
      BY <1>1, <1>2, <2>1
    <3> QED BY <1>1, <1>2, <2>1, <3>1 DEF ShownUpTo, NextEncoding
  <2>5. GoodList => AllMade(SoFar \ {pwd_digit})'
    BY <1>1, <1>2, <2>1, <2>2 DEF AllMade
  <2> QED BY <1>1, <1>2, <2>1, <2>3, <2>4, <2>5 DEF ShownUpTo
<1>4. ASSUME ~NextIsNew PROVE GoodList => AllMade(SoFar)
  BY <1>1, <1>4, GoodListLeft, ShownOfAll
<1>5. CASE StopAtLast(rc) \/ TimeUp(rc)
  <2>1. UNCHANGED <<pwd, pwd_digit>> /\ ~NextIsNew /\ rc # 0
    BY <1>5 DEF StopAtLast, TimeUp, genVars, PWD_TIMEOUT
  <2>2. SoFar' = SoFar
    BY <1>1, <2>1 DEF SoFar
  <2>3. GoodList => AllMade(SoFar)'
    BY <1>1, <1>2, <1>4, <2>1, <2>2 DEF AllMade
  <2>4. GoodList => AllMade(SoFar \ {pwd_digit})'
    BY <2>3 DEF AllMade
  <2> QED BY <1>1, <1>2, <2>1, <2>3, <2>4
<1>6. CASE ShowFirst(rc)
  <2>1. PICK l \in {PWD_OK, 1} :
          MakeNext(l) /\ rc = (IF EncodingsToCome THEN PWD_OK ELSE l)
    BY <1>6 DEF ShowFirst
  <2>2. /\ ~NextIsNew /\ ~last_pwd /\ cur_encoding' = 1 /\ cur' = Show(pwd', encodings[1])
    BY <1>6 DEF ShowFirst, FirstShown
  <2>3. /\ pwd_digit' \in Keys /\ pwd' = Word(pwd_digit') /\ SoFar' = SoFar \union {pwd_digit'}
    <3>1. ChunkGiven /\ Len(pwd_digit) <= Len(end)
      BY <2>2 DEF EncInv
    <3>2. /\ DigitsOf(start) \in Keys /\ Len(pwd_digit) < PWD_LEN
      BY <1>1, <3>1, ChunkFacts, KeyFacts, CharsetAssumption DEF AtKey, CharsetAssumption
    <3>3. pwd_digit' \in Keys /\ Successor(pwd_digit, pwd_digit') /\ pwd' = Word(pwd_digit')
      BY <1>1, <2>1, <3>2, MakeNextFacts DEF AtKey
    <3> QED BY <1>1, <3>2, <3>3, BetweenGrows DEF AtKey, SoFar
  <2>4. GoodList => AllMade(SoFar)
    BY <1>4, <2>2
  <2>5. ASSUME GoodList PROVE AllMade(SoFar \ {pwd_digit})'
    <3>1. (SoFar \ {pwd_digit})' \subseteq SoFar
      BY <2>3
    <3> QED BY <1>1, <1>2, <2>4, <2>5, <3>1 DEF AllMade
  <2>6. Show(pwd, encodings[1])' \in given'
    <3>1. Show(pwd, encodings[1])' = Show(pwd', encodings[1])
      BY <1>1, <1>2
    <3> QED BY <2>2, <3>1
  <2>7. cur_encoding' \in 1 .. Len(encodings) /\ ShownUpTo(cur_encoding)'
    <3>1. ASSUME NEW i \in 1 .. cur_encoding' PROVE Show(pwd, encodings[i])' \in given'
      <4>1. i = 1
        BY <2>2
      <4> QED BY <2>6, <4>1
    <3> QED BY <1>1, <1>2, <2>2, <3>1 DEF ShownUpTo
  <2>8. ASSUME GoodList, rc \in {1, 4} PROVE AllMade(SoFar)'
    <3>1. ~(1 < Len(encodings))
      BY <1>1, <2>1, <2>2, <2>8 DEF EncodingsToCome, PWD_OK
    <3>2. ToSet(encodings) = {encodings[1]}
      <4>1. 1 .. Len(encodings) = {1}
        BY <1>2, <3>1
      <4> QED BY <1>2, <4>1
    <3>3. AllMade(SoFar \ {pwd_digit})'
      BY <2>5, <2>8
    <3> QED BY <1>1, <1>2, <2>3, <2>6, <3>2, <3>3 DEF AllMade
  <2> QED BY <1>1, <1>2, <2>5, <2>7, <2>8
<1> QED BY <1>3, <1>5, <1>6 DEF pwdgen_next_encoded

LEMMA ShownOfCycle ==
  ASSUME EncInv, ShownInv, Cycle
  PROVE  ShownInv'
<1>1. PICK rc \in {PWD_OK, 1, PWD_TIMEOUT}, r \in Results :
        pwdgen_next_encoded(rc) /\ dofunction(cur', r) /\ Collect(rc + r)
  BY DEF Cycle
<1>2. phase = "loop" /\ exitcode = -1 /\ error = FALSE /\ calls \in Nat
      /\ encodings \in Seq(Encodings) \ {<< >>}
  BY DEF Cycle, EncInv, ShownInv
<1>3. given' = given \union {cur'} /\ r \in {0, 2} /\ error' = FALSE
  BY <1>1, <1>2, CallFacts
<1>4. /\ found' = rc + r /\ phase' = (IF found' = 0 THEN "loop" ELSE "end")
      /\ exitcode' = exitcode
  BY <1>1, <1>3 DEF Collect
<1>5. /\ UNCHANGED <<encodings, prefix>>
      /\ rc = 0 => cur_encoding' \in 1 .. Len(encodings) /\ ShownUpTo(cur_encoding)'
      /\ GoodList' => AllMade(SoFar \ {pwd_digit})'
      /\ GoodList' /\ rc \in {1, 4} => AllMade(SoFar)'
  BY <1>1, <1>2, <1>3, NextShownFacts
<1>6. /\ found' \in {0, 1, 2, 3, 4, 6} /\ rc \in {0, 1, 4}
      /\ found' = 0 => rc = 0
      /\ found' \in {1, 4} => rc \in {1, 4}
  BY <1>3, <1>4 DEF PWD_OK, PWD_TIMEOUT
<1> QED BY <1>2, <1>3, <1>4, <1>5, <1>6 DEF ShownInv, PWD_ERROR

LEMMA ShownOfFinish ==
  ASSUME EncInv, ShownInv, Finish
  PROVE  ShownInv'
<1>1. /\ phase = "end" /\ phase' = "exited" /\ Exit(found) /\ error' = error
      /\ UNCHANGED <<start, end, pwd, pwd_digit, encodings, prefix, given>>
  BY DEF Finish, Exit, chunkVars, genVars, encVars, histVars
<1>2. /\ encodings \in Seq(Encodings) \ {<< >>} /\ found \in {1, 2, 3, 4, 6} /\ error = FALSE
      /\ GoodList /\ found \in {1, 4} => AllMade(SoFar)
      /\ GoodList /\ Given => AllMade(SoFar \ {pwd_digit})
  BY <1>1 DEF ShownInv
<1>3. exitcode' = ExitCode(found)
  BY <1>1, <1>2 DEF Exit, PWD_ERROR
<1>4. /\ ExitCode(found) \in {0, 1, 2}
      /\ ExitCode(found) \in {0, 2} => found \in {1, 4}
  BY <1>2, Codes
<1>5. SoFar' = SoFar /\ Given' = Given /\ GoodList' = GoodList
  BY <1>1, ShowKept DEF SoFar, Given
<1>6. AllMade(SoFar)' = AllMade(SoFar)
      /\ AllMade(SoFar \ {pwd_digit})' = AllMade(SoFar \ {pwd_digit})
  BY <1>1, <1>5, ShowKept DEF AllMade
<1> QED BY <1>1, <1>2, <1>3, <1>4, <1>5, <1>6 DEF ShownInv, PWD_ERROR

LEMMA ShownUnchanged ==
  ASSUME ShownInv, EncInv,
         UNCHANGED <<chunkVars, pwd, pwd_digit, once, encVars, given, found, error>>,
         \/ UNCHANGED <<phase, exitcode>>
         \/ phase = "init" /\ phase' = "exited" /\ exitcode' = 7
  PROVE  ShownInv'
<1>1. UNCHANGED <<start, end, sameText, pwd, pwd_digit, once, encodings, prefix, cur,
                  cur_encoding, last_pwd, given, found, error>>
  BY DEF chunkVars, encVars
<1>2. /\ SoFar' = SoFar /\ Given' = Given /\ GoodList' = GoodList
      /\ Show(pwd, encodings[1])' = Show(pwd, encodings[1])
      /\ ShownUpTo(cur_encoding)' = ShownUpTo(cur_encoding)
      /\ AllMade(SoFar)' = AllMade(SoFar)
      /\ AllMade(SoFar \ {pwd_digit})' = AllMade(SoFar \ {pwd_digit})
  BY <1>1, ShowKept DEF SoFar, Given, ShownUpTo, AllMade
<1>3. phase = "init" => ~Given
  BY DEF EncInv, Given
<1> QED BY <1>1, <1>2, <1>3 DEF ShownInv, PWD_ERROR

-----------------------------------------------------------------------------
(***************************************************************************)
(* A list of encodings holds what was asked for, the first at least.       *)
(***************************************************************************)
AskingFor(base, s, g) ==
  g = [S \in SUBSET (DOMAIN s) |->
         IF S = {} THEN base ELSE AddEncoding(g[S \ {Max(S)}], s[Max(S)])]

LEMMA AddedType ==
  ASSUME NEW W, NEW list \in Seq(W) \ {<< >>}, NEW e \in W
  PROVE  AddEncoding(list, e) \in Seq(W) \ {<< >>}
<1>1. Append(list, e) \in Seq(W) /\ Append(list, e) # << >>
  OBVIOUS
<1> QED BY <1>1 DEF AddEncoding

LEMMA AskingExists ==
  ASSUME NEW W, NEW base \in Seq(W) \ {<< >>}, NEW s \in Seq(W)
  PROVE  \E g : AskingFor(base, s, g)
<1> DEFINE n == Len(s)
           C == Seq(W) \ {<< >>}
           step == [p \in C \X (1 .. n) |-> AddEncoding(p[1], s[p[2]])]
<1>1. n \in Nat /\ DOMAIN s = 1 .. n /\ base \in C
  OBVIOUS
<1>2. ASSUME NEW r \in C, NEW i \in 1 .. n PROVE AddEncoding(r, s[i]) \in C
  <2>1. s[i] \in W
    OBVIOUS
  <2> QED BY <2>1, AddedType
<1>3. step \in [C \X (1 .. n) -> C] /\ \A r \in C, i \in 1 .. n : step[<<r, i>>] = AddEncoding(r, s[i])
  <2> HIDE DEF C, n
  <2> QED BY <1>2
<1>4. PICK g \in [SUBSET (1 .. n) -> C] : Folding(n, base, step, g)
  <2> HIDE DEF C, n, step
  <2> QED BY <1>1, <1>3, FoldExists
<1>5. \A S \in SUBSET (1 .. n) : S # {} =>
        step[<<g[S \ {Max(S)}], Max(S)>>] = AddEncoding(g[S \ {Max(S)}], s[Max(S)])
  <2> SUFFICES ASSUME NEW S \in SUBSET (1 .. n), S # {}
               PROVE  step[<<g[S \ {Max(S)}], Max(S)>>] = AddEncoding(g[S \ {Max(S)}], s[Max(S)])
    OBVIOUS
  <2>1. g[S \ {Max(S)}] \in C /\ Max(S) \in 1 .. n
    BY <1>1, WithoutTop
  <2> HIDE DEF C, n, step
  <2> QED BY <1>3, <2>1
<1>6. AskingFor(base, s, g)
  <2> HIDE DEF C, n, step
  <2> QED BY <1>1, <1>4, <1>5 DEF Folding, AskingFor
<1> QED BY <1>6

LEMMA ListOfRequest ==
  ASSUME NEW r \in Requests
  PROVE  UseEncodings(r) \in Seq(Encodings) \ {<< >>}
<1> DEFINE W == Encodings
           C == Seq(W) \ {<< >>}
           base == << Head(r) >>
           s == Tail(r)
           n == Len(s)
           D == SUBSET (1 .. n)
           m == Tops(n)
<1>1. base \in C /\ s \in Seq(W)
  <2>1. r \in Seq(ToSet(r)) /\ Len(r) > 0
    BY EncAssumption, Zenon DEF EncAssumption
  <2>2. ToSet(r) \subseteq W
    BY DEF Encodings
  <2>3. Head(r) \in ToSet(r) /\ Tail(r) \in Seq(ToSet(r))
    <3> DEFINE T == ToSet(r)
    <3>1. r \in Seq(T) /\ r # << >>
      BY <2>1
    <3> HIDE DEF T
    <3>2. Head(r) \in T /\ Tail(r) \in Seq(T)
      BY <3>1
    <3> QED BY <3>2 DEF T
  <2> HIDE DEF W
  <2> QED BY <2>2, <2>3
<1>2. UseEncodings(r) = (CHOOSE h : AskingFor(base, s, h))[DOMAIN s]
  BY DEF UseEncodings, FoldLeft, MapThenFoldSet, AskingFor
<1> HIDE DEF base, s, W
<1>3. AskingFor(base, s, CHOOSE h : AskingFor(base, s, h))
  BY <1>1, AskingExists
<1>4. PICK g : AskingFor(base, s, g) /\ UseEncodings(r) = g[DOMAIN s]
  BY <1>2, <1>3
<1>5. n \in Nat /\ DOMAIN s = 1 .. n /\ \A k \in 1 .. n : s[k] \in W
  BY <1>1
<1>6. m \in [D -> Nat]
  BY <1>5, TopsType
<1> DEFINE Bad == {S \in D : g[S] \notin C}
<1>7. Bad = {}
  <2> SUFFICES ASSUME Bad # {} PROVE FALSE
    OBVIOUS
  <2>1. PICK S \in Bad : \A x \in Bad : m[S] <= m[x]
    <3>1. Bad \in SUBSET D
      OBVIOUS
    <3> HIDE DEF Bad, D, m
    <3> QED BY <1>6, <3>1, LeastOf
  <2>2. S \in D /\ g[S] \notin C
    BY <2>1
  <2>3. g[S] = IF S = {} THEN base ELSE AddEncoding(g[S \ {Max(S)}], s[Max(S)])
    BY <1>4, <1>5, <2>2 DEF AskingFor
  <2>4. CASE S = {}
    BY <1>1, <2>2, <2>3, <2>4
  <2>5. CASE S # {}
    <3>1. Max(S) \in 1 .. n /\ S \ {Max(S)} \in D /\ m[S \ {Max(S)}] < m[S]
      BY <1>5, <2>2, <2>5, WithoutTop
    <3>2. S \ {Max(S)} \notin Bad
      <4>1. m[S \ {Max(S)}] \in Nat /\ m[S] \in Nat
        BY <1>6, <2>2, <3>1
      <4>2. ~(m[S] <= m[S \ {Max(S)}])
        <5> HIDE DEF m
        <5> QED BY <3>1, <4>1
      <4> QED BY <2>1, <4>2
    <3>3. g[S \ {Max(S)}] \in C
      BY <3>1, <3>2
    <3>4. s[Max(S)] \in W
      BY <1>5, <3>1
    <3> DEFINE list == g[S \ {Max(S)}]
               e == s[Max(S)]
    <3>5. list \in Seq(W) \ {<< >>} /\ e \in W
      BY <3>3, <3>4
    <3> HIDE DEF list, e
    <3>6. AddEncoding(list, e) \in C
      BY <3>5, AddedType
    <3> HIDE DEF C
    <3> QED BY <2>2, <2>3, <2>5, <3>6 DEF list, e
  <2> QED BY <2>4, <2>5
<1>8. g[1 .. n] \in C
  BY <1>7
<1> QED BY <1>4, <1>5, <1>8 DEF W

LEMMA ShownInduction == EncSpec => []ShownInv
<1>1. EncInit => ShownInv
  <2> SUFFICES ASSUME EncInit PROVE ShownInv
    OBVIOUS
  <2>1. encodings \in Seq(Encodings) \ {<< >>}
    <3>1. PICK r \in Requests : encodings = UseEncodings(r)
      BY DEF EncInit
    <3> QED BY <3>1, ListOfRequest
  <2>2. phase = "init" /\ exitcode = -1 /\ error = FALSE /\ ~Given
    BY DEF EncInit, MainInit, EndInit, Given
  <2> QED BY <2>1, <2>2 DEF ShownInv, PWD_ERROR
<1>2. EncInv /\ ShownInv /\ [EncNext]_allVars => ShownInv'
  <2> SUFFICES ASSUME EncInv, ShownInv, [EncNext]_allVars PROVE ShownInv'
    OBVIOUS
  <2>1. CASE Start
    BY <2>1, ShownOfStart
  <2>2. CASE Abort
    BY <2>2, ShownUnchanged DEF Abort, Refuse, GiveUp, genVars, histVars, PWD_ERROR
  <2>3. CASE FirstKey
    BY <2>3, ShownOfFirstKey
  <2>4. CASE Cycle
    BY <2>4, ShownOfCycle
  <2>5. CASE Finish
    BY <2>5, ShownOfFinish
  <2>6. CASE PassTime
    BY <2>6, ShownUnchanged DEF PassTime, Clock, ClockTicks, genVars, mainVars, histVars
  <2>7. CASE UNCHANGED allVars
    BY <2>7, ShownUnchanged DEF allVars, commonVars, genVars, mainVars, histVars
  <2> QED BY <2>1, <2>2, <2>3, <2>4, <2>5, <2>6, <2>7 DEF EncNext, Work
<1> QED BY <1>1, <1>2, EncInduction, PTL DEF EncSpec

\* No password of a good list is left before it was given in all its encodings,
\* and a worker that ends at the end of the chunk or at a timeout does not leave
\* its last one either.
THEOREM GoodListComplete == EncSpec => []GoodListShown
<1>1. EncInv /\ ShownInv => GoodListShown
  BY MadeAsMeant DEF EncInv, ShownInv, GoodListShown
<1> QED BY <1>1, EncInduction, ShownInduction, PTL

-----------------------------------------------------------------------------
(***************************************************************************)
(* The counter.  ShowNext counts a string without looking at the clock,    *)
(* StopAtLast ends the loop with one that is not counted.                  *)
(***************************************************************************)
CountInv ==
  /\ TimerTypeOK /\ calls \in Nat
  /\ phase \in {"init", "first", "loop", "end", "exited"}
  /\ phase \in {"init", "first"} => pwds = 1 /\ pwds_done = 0 /\ calls = 0
  /\ phase = "loop" /\ calls < MaxPwds => pwds + pwds_done = calls
  /\ EncCounted

\* CountPwd counts one password, whether the clock is looked at or not.
LEMMA CountsOne ==
  ASSUME TimerTypeOK, CountPwd, pwds + pwds_done + 1 < MaxPwds
  PROVE  pwds' + pwds_done' = pwds + pwds_done + 1
<1>1. pwds \in Nat /\ pwds_done \in Nat /\ MaxPwds \in Nat
  BY TimerAssumption DEF TimerTypeOK, TimerAssumption
<1>2. CASE CheckDue
  <2>1. pwds' = AddUp(pwds_done + 1) /\ pwds_done' = 0
    BY <1>2 DEF CountPwd
  <2> QED BY <1>1, <2>1 DEF AddUp
<1>3. CASE ~CheckDue
  <2>1. pwds' = pwds /\ pwds_done' = pwds_done + 1
    BY <1>3 DEF CountPwd
  <2> QED BY <1>1, <2>1
<1> QED BY <1>2, <1>3

LEMMA CountOfCycle ==
  ASSUME CountInv, Cycle
  PROVE  CountInv'
<1>1. PICK rc \in {PWD_OK, 1, PWD_TIMEOUT}, r \in Results :
        pwdgen_next_encoded(rc) /\ dofunction(cur', r) /\ Collect(rc + r)
  BY DEF Cycle
<1>2. /\ phase = "loop" /\ phase' \in {"loop", "end"} /\ calls' = OneMore(calls)
      /\ phase' = "loop" => rc + r = 0
  <2>1. found' = (IF error' THEN 7 ELSE rc + r) /\ phase' = (IF found' = 0 THEN "loop" ELSE "end")
    BY <1>1 DEF Collect, PWD_ERROR
  <2> QED BY <1>1, <2>1 DEF Cycle, dofunction
<1>3. /\ TimerTypeOK /\ calls \in Nat /\ (calls < MaxPwds => pwds + pwds_done = calls)
      /\ pwds \in Nat /\ pwds_done \in Nat /\ MaxPwds \in Nat
  BY <1>2, TimerAssumption DEF CountInv, TimerTypeOK, TimerAssumption
<1>4. calls' \in Nat /\ (calls' < MaxPwds => calls' = calls + 1 /\ calls < MaxPwds)
  BY <1>2, <1>3, OneMoreFacts
<1>5. CASE ShowNext(rc)
  <2>1. pwds_done' = pwds_done + 1 /\ UNCHANGED <<clockVars, checkVars, pwds>>
    BY <1>5 DEF ShowNext, CountString
  <2>2. TimerTypeOK'
    BY <1>3, <2>1 DEF TimerTypeOK, clockVars, checkVars
  <2> QED BY <1>2, <1>3, <1>4, <2>1, <2>2 DEF CountInv, EncCounted
<1>6. CASE StopAtLast(rc)
  <2>1. rc = 1 /\ UNCHANGED timerVars /\ last_pwd'
    BY <1>6 DEF StopAtLast
  <2>2. TimerTypeOK' /\ UNCHANGED <<pwds, pwds_done>>
    BY <1>3, <2>1 DEF TimerTypeOK, timerVars, clockVars, checkVars, countVars
  <2>3. phase' = "end"
    BY <1>2, <2>1 DEF Results, PWD_FAIL, PWD_SUCCESS, PWD_ERROR
  <2> QED BY <1>2, <1>3, <1>4, <2>1, <2>2, <2>3 DEF CountInv, EncCounted
<1>7. CASE CountPwd
  <2>1. TimerTypeOK'
    BY <1>3, <1>7, CountPwdTypes
  <2>2. calls' < MaxPwds => pwds' + pwds_done' = calls'
    BY <1>3, <1>4, <1>7, CountsOne
  <2> QED BY <1>2, <1>3, <1>4, <2>1, <2>2 DEF CountInv, EncCounted
<1> QED BY <1>1, <1>5, <1>6, <1>7 DEF pwdgen_next_encoded, TimeUp, ShowFirst

LEMMA CountOfFinish ==
  ASSUME CountInv, Finish
  PROVE  CountInv'
<1>1. phase = "end" /\ phase' = "exited" /\ UNCHANGED <<calls, last_pwd>>
  BY DEF Finish, Exit, encVars, histVars
<1>2. TimerTypeOK /\ calls \in Nat /\ EncCounted
      /\ pwds \in Nat /\ pwds_done \in Nat /\ MaxPwds \in Nat
  BY <1>1, TimerAssumption DEF CountInv, TimerTypeOK, TimerAssumption
<1>3. CASE UNCHANGED timerVars
  <2>1. TimerTypeOK' /\ UNCHANGED <<pwds, pwds_done>>
    BY <1>2, <1>3 DEF TimerTypeOK, timerVars, clockVars, checkVars, countVars
  <2> QED BY <1>1, <1>2, <2>1 DEF CountInv, EncCounted
<1>4. CASE pwdgen_stop
  <2>1. /\ pwds' = AddUp(pwds_done) /\ pwds_done' = 0 /\ took' = now - tstart
        /\ UNCHANGED <<clockVars, tstart, tlast, tlast_report, report_status, max_pwds, timedOut>>
    BY <1>4 DEF pwdgen_stop
  <2>2. pwds' \in Nat /\ took' \in Int
    BY <1>2, <2>1, AddUpType DEF TimerTypeOK
  <2>3. TimerTypeOK'
    BY <1>2, <2>1, <2>2 DEF TimerTypeOK, clockVars
  <2>4. ASSUME calls > 0, calls < MaxPwds PROVE pwds' + pwds_done' = pwds + pwds_done
    <3>1. pwds + pwds_done <= calls
      BY <1>2, <2>4 DEF EncCounted
    <3> QED BY <1>2, <2>1, <2>4, <3>1 DEF AddUp
  <2>5. EncCounted'
    BY <1>1, <1>2, <2>4 DEF EncCounted
  <2> QED BY <1>1, <1>2, <2>3, <2>5 DEF CountInv
<1> QED BY <1>3, <1>4 DEF Finish, Exit

LEMMA CountKept ==
  ASSUME CountInv, TimerTypeOK', UNCHANGED <<pwds, pwds_done, calls>>,
         \/ UNCHANGED <<phase, last_pwd>>
         \/ phase = "init" /\ phase' \in {"first", "exited"}
  PROVE  CountInv'
BY DEF CountInv, EncCounted

\* The counter is behind the calls of dofunction() by one at most, and only when
\* the last string of a chunk was given twice.
THEOREM CounterNearlyRight == EncSpec => []EncCounted
<1>1. EncInit => CountInv
  <2> SUFFICES ASSUME EncInit PROVE CountInv
    OBVIOUS
  <2>1. TimerInit /\ phase = "init" /\ calls = 0
    BY DEF EncInit, MainInit, EndInit
  <2> QED BY <2>1, InitTypes DEF CountInv, EncCounted, TimerInit, TimerInitWith
<1>2. CountInv /\ [EncNext]_allVars => CountInv'
  <2> SUFFICES ASSUME CountInv, [EncNext]_allVars PROVE CountInv'
    OBVIOUS
  <2>1. ASSUME UNCHANGED timerVars PROVE TimerTypeOK' /\ UNCHANGED <<pwds, pwds_done>>
    BY <2>1 DEF CountInv, TimerTypeOK, timerVars, clockVars, checkVars, countVars
  <2>2. CASE Start
    BY <2>1, <2>2, CountKept DEF Start, EncBegin, histVars
  <2>3. CASE Abort
    BY <2>1, <2>3, CountKept DEF Abort, Refuse, GiveUp, histVars
  <2>4. CASE FirstKey
    <3>1. /\ phase = "first" /\ phase' \in {"loop", "end"} /\ calls' = OneMore(calls)
          /\ UNCHANGED timerVars
      BY <2>4 DEF FirstKey, dofunction, Collect
    <3>2. pwds = 1 /\ pwds_done = 0 /\ calls = 0
      BY <3>1 DEF CountInv
    <3> QED BY <2>1, <3>1, <3>2, OneMoreFacts DEF CountInv, EncCounted
  <2>5. CASE Cycle
    BY <2>5, CountOfCycle
  <2>6. CASE Finish
    BY <2>6, CountOfFinish
  <2>7. CASE PassTime
    <3>1. Tick \/ SetBack
      BY <2>7 DEF PassTime, Clock, ClockTicks
    <3>2. UNCHANGED <<pwds, pwds_done>>
      BY <3>1 DEF Tick, SetBack, countVars
    <3>3. UNCHANGED <<phase, calls, last_pwd>>
      BY <2>7 DEF PassTime, Clock, ClockTicks, mainVars, encVars, histVars
    <3> QED BY <3>1, <3>2, <3>3, EnvironmentTypes, CountKept DEF CountInv
  <2>8. CASE UNCHANGED allVars
    BY <2>1, <2>8, CountKept DEF allVars, commonVars, mainVars, encVars, histVars
  <2> QED BY <2>2, <2>3, <2>4, <2>5, <2>6, <2>7, <2>8 DEF EncNext, Work
<1>3. CountInv => EncCounted
  BY DEF CountInv
<1> QED BY <1>1, <1>2, <1>3, PTL DEF EncSpec
=============================================================================
