----------------------------- MODULE WorkerImg -----------------------------
(***************************************************************************)
(* A worker that extracts strings from a part of an image:                 *)
(* pwdgen_extract(), pwdgen_img_read() and pwdgen_img_check() of           *)
(* src/src/main/pwd_img.c.  For one length after the other the image is    *)
(* read block by block; the strings of each block are added to a list,     *)
(* which is sorted and rid of doubles when it gets long, and whose strings *)
(* are handed to dofunction() when it is still long, or at the end.        *)
(*                                                                         *)
(* The worker gets the strings in the encoding they are extracted in, so   *)
(* dofunction() is called once for each.                                   *)
(***************************************************************************)
EXTENDS ImgMeaning, MainEnd

CONSTANTS
  Jobs,         \* what a command line and the job's file may ask for
  BUFSIZE,      \* bytes of a block (128 K)
  LongLengths,  \* each of these lengths halves the block (32, 64, 128)
  ManyStrings,  \* strings to gather before the list is checked (1 M to 7 M)
  MARGIN,       \* spare places in the list of a block (16)
  MayLack,      \* whether there may be no memory for sorting
  PWD_LEN       \* the longest string

(***************************************************************************)
(* A job names the image, the lengths of the strings, and what to extract. *)
(* UTF-8 is modelled without changes of case, which change bytes there.    *)
(***************************************************************************)
ASSUME ImgAssumption ==
  /\ BUFSIZE \in Nat \ {0} /\ ManyStrings \in Nat /\ MARGIN \in Nat
  /\ IsFiniteSet(LongLengths) /\ MayLack \in BOOLEAN
  /\ \A j \in Jobs :
       /\ j.image \in Seq(0 .. 255)
       /\ j.start \in Nat \ {0} /\ j.end \in Nat
       /\ j.opt.stages # {} /\ j.opt.stages \subseteq 0 .. 1
       /\ j.opt.mutations # {} /\ j.opt.mutations \subseteq 0 .. 10
       /\ j.opt.utf8 => j.opt.stages = {0} /\ j.opt.mutations = {DICT_ORIGINAL}

VARIABLES
  job,
  len,         \* the length of the strings now extracted
  read_bytes,  \* how many bytes of the image were read
  img_eof,     \* feof(file): a read met the end of the image
  kept,        \* the bytes before those of the next block in the buffer
  pwd_list,    \* the strings gathered
  sorted,      \* how many of them, from the first on, are in order
  cur_pwd,     \* the one that is handed to dofunction() next
  given,       \* history: passwords handed to dofunction()
  calls,       \* history: number of calls of dofunction()
  failed,      \* history: dofunction() returned PWD_ERROR
  unsorted     \* history: there was no memory to sort the list

fileVars == <<read_bytes, img_eof, kept>>
listVars == <<pwd_list, sorted, unsorted>>
imgVars == <<job, len, fileVars, listVars, cur_pwd>>
seenVars == <<given, calls, failed>>
workerImgVars == <<timerVars, mainVars, imgVars, seenVars>>

opt == job.opt

WorkerImgInit ==
  /\ TimerInitWith(0, 0)
  /\ EndInit
  /\ job \in Jobs
  /\ len = 0
  /\ read_bytes = 0 /\ img_eof = FALSE /\ kept = << >>
  /\ pwd_list = << >> /\ sorted = 0 /\ unsorted = FALSE /\ cur_pwd = 0
  /\ given = {} /\ calls = 0 /\ failed = FALSE

-----------------------------------------------------------------------------
(***************************************************************************)
(* The sizes that pwdgen_img_read() computes.                              *)
(***************************************************************************)
Combinations == Cardinality(opt.stages) * Cardinality(opt.mutations)

buffer_size(length) ==
  LET few == IF Combinations > 3 THEN (2 * BUFSIZE) \div Combinations ELSE BUFSIZE
  IN  few \div 2^Cardinality({l \in LongLengths : length >= l})

\* Mutation: the original string is not counted among its combinations.
MutantsOnly ==
  (buffer_size(len) + 1) * (IF opt.even_odd THEN 2 ELSE 1) * Combinations

\* How many strings a block may give.
max_merge ==
  (buffer_size(len) + 1) * (IF opt.even_odd THEN 2 ELSE 1) * (Combinations + 1) + MARGIN

\* How many strings the list may hold.
max_list == IF ManyStrings <= max_merge THEN max_merge + 1 ELSE ManyStrings

\* Mutation: the list is filled to its end.
TooMany(n) == n >= max_list

MustSort(n) == n >= max_list - max_merge

-----------------------------------------------------------------------------
(***************************************************************************)
(* The worker's initfunction() and pwdgen_finalize(); then begins          *)
(* pwdgen_extract().                                                       *)
(***************************************************************************)
Start ==
  /\ phase = "init"
  /\ phase' = "length"
  /\ len' = job.start
  /\ UNCHANGED <<timerVars, target, found, error, exitcode, job, fileVars, listVars, cur_pwd, seenVars>>

Abort ==
  /\ phase = "init"
  /\ MayFail
  /\ GiveUp
  /\ UNCHANGED <<timerVars, imgVars, seenVars>>

\* pwdgen_extract() and cycle_pwds() return.
Return(rc) ==
  /\ found' = IF error' THEN PWD_ERROR ELSE rc
  /\ phase' = "end"
  /\ UNCHANGED <<target, exitcode>>

GoTo(p) == phase' = p /\ UNCHANGED <<target, found, exitcode>>

AllLengthsDone ==
  /\ phase = "length"
  /\ len > job.end
  /\ UNCHANGED error
  /\ Return(PWD_FAIL)
  /\ UNCHANGED <<timerVars, imgVars, seenVars>>

(***************************************************************************)
(* The time is looked at once for every length.  Then the image is opened, *)
(* which may fail, as may getting the memory for the lists.                *)
(***************************************************************************)
StartLength ==
  /\ phase = "length"
  /\ len <= job.end
  /\ pwdgen_time_check
  /\ UNCHANGED error
  /\ \/ /\ timedOut'
        /\ Return(PWD_TIMEOUT)
        /\ UNCHANGED <<fileVars, listVars>>
     \/ /\ ~timedOut'
        /\ len > PWD_LEN \/ MayFail
        /\ Return(PWD_ERROR)
        /\ UNCHANGED <<fileVars, listVars>>
     \/ /\ ~timedOut'
        /\ len <= PWD_LEN
        /\ GoTo("read")
        /\ read_bytes' = 0 /\ img_eof' = FALSE /\ kept' = << >>
        /\ pwd_list' = << >> /\ sorted' = 0 /\ unsorted' = FALSE
  /\ UNCHANGED <<clockVars, countVars, job, len, cur_pwd, seenVars>>

-----------------------------------------------------------------------------
\* Mutation: the new strings are sorted, but not merged with those before them.
SortNewOnly(list, n, memory) ==
  pwdgen_img_remove_doubles_in_place(
    SubSeq(list, 1, n) \o pwdgen_img_sort(SubSeq(list, n + 1, Len(list)), memory.sort))

\* The first n strings of the list are in order; only the others must be sorted.
SortAndUnique(list, n, memory) ==
  pwdgen_img_remove_doubles_in_place(
    IF n > 0
      THEN pwdgen_img_merge(
             SubSeq(list, 1, n) \o pwdgen_img_sort(SubSeq(list, n + 1, Len(list)), memory.sort),
             n, memory.merge)
      ELSE pwdgen_img_sort(list, memory.sort))

\* Each of the two may find no memory for its scratch list.
Memory == [sort : {TRUE, ~MayLack}, merge : {TRUE, ~MayLack}]

Enough == [sort |-> TRUE, merge |-> TRUE]

SortList(n, list) ==
  /\ \E memory \in Memory :
       /\ pwd_list' = SortAndUnique(list, n, memory)
       /\ unsorted' = (unsorted \/ memory # Enough)
  /\ sorted' = Len(pwd_list')

Data == SubSeq(job.image, read_bytes + 1, Min({read_bytes + buffer_size(len), Len(job.image)}))

(***************************************************************************)
(* When invalid bytes end a string, bytes of a block are kept in front of  *)
(* the next one in the buffer: the FIRST len bytes of the block.  (A block *)
(* with fewer is the last one.)                                            *)
(***************************************************************************)
Kept == IF opt.skip_invalids THEN kept ELSE SubSeq(Data, 1, Min({len, Len(Data)}))

\* Mutation: what was gathered is forgotten when a block is added.
Replaced(list, new) == new

Gathered(list, new) == list \o new

(***************************************************************************)
(* One pass of the loop: a block is read, its strings are added to the     *)
(* list, and a long list is sorted.  An end that is met without any byte   *)
(* read adds nothing.                                                      *)
(***************************************************************************)
ReadBlock ==
  LET new  == Extracted(kept \o Data, len, opt)
      list == Gathered(pwd_list, new)
  IN  /\ phase = "read"
      /\ ~img_eof
      /\ read_bytes' = read_bytes + Len(Data)
      /\ img_eof' = (Len(Data) < buffer_size(len))
      /\ kept' = Kept
      /\ \/ /\ new = << >>
            /\ GoTo("read")
            /\ UNCHANGED <<listVars, cur_pwd>>
         \/ /\ new # << >>
            /\ ~MustSort(Len(list))
            /\ GoTo("read")
            /\ pwd_list' = list
            /\ UNCHANGED <<sorted, unsorted, cur_pwd>>
         \/ /\ new # << >>
            /\ MustSort(Len(list))
            /\ SortList(sorted, list)
            /\ IF MustSort(Len(pwd_list'))
                 THEN GoTo("check") /\ cur_pwd' = 1
                 ELSE GoTo("read") /\ UNCHANGED cur_pwd
      /\ UNCHANGED <<timerVars, error, job, len, seenVars>>

(***************************************************************************)
(* At the end of the image what is left in the list is sorted as a whole;  *)
(* sorted is not looked at any more.                                       *)
(***************************************************************************)
NextLength == GoTo("length") /\ len' = len + 1

LeftOver ==
  /\ phase = "read"
  /\ img_eof
  /\ \/ /\ pwd_list = << >>
        /\ NextLength
        /\ UNCHANGED <<listVars, cur_pwd>>
     \/ /\ pwd_list # << >>
        /\ SortList(0, pwd_list)
        /\ GoTo("left")
        /\ cur_pwd' = 1
        /\ UNCHANGED len
  /\ UNCHANGED <<timerVars, error, job, fileVars, seenVars>>

-----------------------------------------------------------------------------
dofunction(r) ==
  LET pwd == pwd_list[cur_pwd]
  IN  /\ calls' = OneMore(calls)
      /\ given' = given \union {pwd}
      /\ failed' = (failed \/ r = PWD_ERROR)
      /\ \/ r = (IF pwd = target THEN PWD_SUCCESS ELSE PWD_FAIL) /\ UNCHANGED error
         \/ MayFail /\ r = PWD_ERROR /\ error' \in BOOLEAN
         \/ MayFail /\ r = PWD_FAIL /\ error' = TRUE

\* Mutation: the list is not emptied once it was checked.
EmptiedOnly == pwd_list' = << >> /\ UNCHANGED <<sorted, unsorted>>

Emptied == pwd_list' = << >> /\ sorted' = 0 /\ unsorted' = FALSE

\* Mutation: the password that was found is not counted.
CountedBefore(n) == n - 1

Counted(n) == n

\* pwdgen_add(), and pwdgen_took() after pwdgen_img_check()
AddChecked ==
  /\ pwds' = AddUp(Counted(cur_pwd))
  /\ took' = Took
  /\ UNCHANGED <<clockVars, pwds_done, tstart, tlast, tlast_report, report_status, max_pwds, timedOut>>

(***************************************************************************)
(* pwdgen_img_check(): any result but 0 ends it with PWD_SUCCESS, an error *)
(* too; that pwd->error is set is only seen at the end, in cycle_pwds().   *)
(***************************************************************************)
CheckString ==
  /\ phase \in {"check", "left"}
  /\ \E r \in Results :
       /\ dofunction(r)
       /\ \/ /\ r # 0
             /\ AddChecked
             /\ Return(PWD_SUCCESS)
             /\ UNCHANGED <<len, listVars, cur_pwd>>
          \/ /\ r = 0
             /\ cur_pwd < Len(pwd_list)
             /\ cur_pwd' = cur_pwd + 1
             /\ UNCHANGED <<timerVars, phase, target, found, exitcode, len, listVars>>
          \/ /\ r = 0
             /\ cur_pwd = Len(pwd_list)
             /\ AddChecked
             /\ Emptied
             /\ cur_pwd' = 0
             /\ IF phase = "left" THEN NextLength ELSE GoTo("read") /\ UNCHANGED len
  /\ UNCHANGED <<job, fileVars>>

\* endfunction() has nothing left to compare.
Finish ==
  /\ phase = "end"
  /\ UNCHANGED error
  /\ Exit(found)
  /\ UNCHANGED <<imgVars, seenVars>>

PassTime == ClockTicks /\ UNCHANGED <<imgVars, seenVars>>

Work ==
  Start \/ Abort \/ AllLengthsDone \/ StartLength \/ ReadBlock \/ LeftOver \/ CheckString \/ Finish

WorkerImgNext == Work \/ PassTime

WorkerImgSpec == WorkerImgInit /\ [][WorkerImgNext]_workerImgVars

-----------------------------------------------------------------------------
Positions == DOMAIN job.image

\* The bytes of the image from position p up to position e.
From(p, e) == SubSeq(job.image, p, e)

\* The last position of the block that p is in, when blocks have n bytes.
BlockEnd(p, n) == Min({((p - 1) \div n + 1) * n, Len(job.image)})

\* The last string of a block is never extracted, see LastPosition.
Inside(p, l) == p + l <= BlockEnd(p, buffer_size(l))

DueInside(l) ==
  UNION {Due(From(p, BlockEnd(p, buffer_size(l))), l, opt) : p \in {q \in Positions : Inside(q, l)}}

Lengths == job.start .. job.end

Done(l) == l < len

OneBlock(l) == Len(job.image) <= buffer_size(l)

\* Strings that are in the image; skipping joins what is apart.
InImage(l) ==
  IF opt.utf8
    THEN {s \in given : Len(s) = l /\ WellFormed(s)}
    ELSE UNION {Due(From(p, Len(job.image)), l, opt) : p \in Positions}

-----------------------------------------------------------------------------
\* The strings of a block fit into the memory of the block's list, with one place
\* more for the string that is being put together, and those gathered into that of
\* the long list, whatever stages, mutations and passes a job asks for.
ListFits ==
  /\ Len(pwd_list) <= max_list
  /\ phase = "read" /\ ~img_eof =>
       /\ Len(Extracted(kept \o Data, len, opt)) < max_merge
       /\ Len(pwd_list) + max_merge <= max_list

\* When a length is done, every valid string of that length inside a block was
\* handed to dofunction(), with all its variants; and, unless the image has
\* several blocks and invalid bytes end a string, only strings of the image and
\* their variants were.
ImgExact ==
  \A l \in Lengths :
    /\ Done(l) => \A s \in DueInside(l) :
         (IF VariantsComplete(opt) THEN VariantsDue(s, opt) ELSE {s}) \subseteq given
    /\ OneBlock(l) \/ opt.skip_invalids =>
         {s \in given : Len(s) = l} \subseteq UNION {VariantsMade(s, opt) : s \in InImage(l)}

\* A list that is checked is sorted and has no string twice, also when it was
\* merged from parts, and unless there was no memory to sort it.
SortedUnique ==
  phase \in {"check", "left"} /\ ~unsorted =>
    \A i \in 1 .. Len(pwd_list) - 1 : Before(pwd_list[i], pwd_list[i + 1])

\* The exit code agrees with what dofunction() was given, and the counter with
\* its calls: it starts at 0 here, and is brought up to date after each list.
\* The worker ends without a find or a timeout only when all lengths are done.
\* (A dofunction() that returns PWD_ERROR without pwd->error counts as a find.)
ImgStopCode ==
  /\ exitcode = 0 => target \notin given /\ ~failed /\ \A l \in Lengths : Done(l)
  /\ exitcode = 1 => target \in given \/ failed
  /\ exitcode = 2 => timedOut /\ target \notin given /\ ~failed
  /\ phase \notin {"check", "left"} /\ calls < MaxPwds => pwds = calls

\* Extract.pod: "For each byte-position in the image file, we extract the string
\* at the current position of length N."  The last position is left out here.
EveryPosition ==
  \A l \in Lengths : Done(l) =>
    \A p \in Positions : p + l <= Len(job.image) => Due(From(p, Len(job.image)), l, opt) \subseteq given
=============================================================================
