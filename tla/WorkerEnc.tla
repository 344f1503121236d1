----------------------------- MODULE WorkerEnc -----------------------------
(***************************************************************************)
(* A worker that asked for its passwords in other encodings than the       *)
(* generator's, or with a prefix: pwdgen_next() then converts every        *)
(* password to the first encoding of the list and, call by call, to the    *)
(* others, before it makes the next one (pwdgen_finalize(),                *)
(* pwdgen_update_cur() and pwdgen_next() in src/src/main/pwdgen.c).        *)
(*                                                                         *)
(* A string is abstracted to the password it shows and to the encoding     *)
(* whose bytes it has; that is the generator's for all encodings in which  *)
(* it has the generator's bytes.                                           *)
(***************************************************************************)
EXTENDS Main

CONSTANTS
  Generator,   \* the encoding of the generator, ISO_8859_1 by default
  Tables,      \* the one-byte encodings with mapping tables, see encoding/mappings.h
  Above,       \* the encodings above MULTIBYTE_ENCODING
  Requests,    \* the lists of encodings an initfunction() may ask for
  MaxEnc,      \* length of the list of encodings, 32 in pwdgen.h
  HighChars,   \* the characters with the high bit set
  PrefixKinds  \* the fixed prefixes, as pwdgen_init() leaves them

\* UTF-16 and UTF-32 are the only ones above UTF-8 that have conversions.
Wide == {"UTF_16", "UTF_32"}

\* A prefix: the encoding it was left in, and whether it has high-bit characters.
NoPrefix == [enc |-> "none", high |-> FALSE]

(***************************************************************************)
(* The generator works on one byte per character (pwdgen_init()); a prefix *)
(* was put into the encoding of the console, which is no wide one, and     *)
(* that of an ASCII console has no high-bit characters.                    *)
(***************************************************************************)
ASSUME EncAssumption ==
  /\ Generator \in Tables
  /\ Wide \subseteq Above
  /\ Tables \intersect (Above \union {"ASCII", "UTF_8", "none"}) = {}
  /\ {"ASCII", "UTF_8", "none"} \intersect Above = {}
  /\ MaxEnc \in Nat \ {0}
  /\ \A r \in Requests : r \in Seq(ToSet(r)) /\ Len(r) > 0
  /\ PrefixKinds \subseteq
       {NoPrefix, [enc |-> "ASCII", high |-> FALSE]}
         \union [enc : Tables \union {"UTF_8"}, high : BOOLEAN]

VARIABLES
  encodings,     \* the encodings the passwords are to be presented in
  prefix,        \* the fixed prefix
  cur,           \* the string the worker reads
  cur_encoding,  \* how many encodings of the current password were done
  last_pwd,      \* the current password is the last one
  given,         \* history: strings handed to dofunction()
  calls          \* history: number of calls of dofunction()

encVars  == <<encodings, prefix, cur, cur_encoding, last_pwd>>
histVars == <<given, calls>>
allVars  == <<commonVars, encVars, histVars>>

-----------------------------------------------------------------------------
(***************************************************************************)
(* initfunction(): pwdgen_use_encoding() for the first encoding and        *)
(* pwdgen_add_encoding() for every other.                                  *)
(***************************************************************************)
AddEncoding(list, e) ==
  IF Len(list) >= MaxEnc \/ e \in ToSet(list) THEN list ELSE Append(list, e)

UseEncodings(request) == FoldLeft(AddEncoding, << Head(request) >>, Tail(request))

Encodings == UNION {ToSet(r) : r \in Requests}

HasHighBit(w) == ToSet(w) \intersect HighChars # {}

\* Prefix and password together.
HighText(w) == HasHighBit(w) \/ prefix.high

(***************************************************************************)
(* pwdgen_convert_to() for texts with high-bit characters.  There is no    *)
(* way from one table to another, nor to what else is above UTF-8: the     *)
(* string stays as it is, and nobody looks at the result of the call.      *)
(***************************************************************************)
HasConversion(from, e) ==
  \/ e = from
  \/ e \in Wide
  \/ from = "UTF_8" /\ e \in Tables
  \/ from \in Tables /\ e \in {"UTF_8", "ASCII"}

\* For a single encoding pwdgen_finalize() puts the prefix into the generator's,
\* if there is a conversion.
PrefixEncoding ==
  IF Len(encodings) = 1 /\ prefix.enc \in {"UTF_8", "ASCII"} THEN Generator ELSE prefix.enc

\* What pwdgen_update_cur() starts from: the password's own bytes, behind a prefix
\* of the same encoding or of none; else pwdgen_strcat() makes both UTF-8.
Joined == IF PrefixEncoding \in {"none", Generator} THEN Generator ELSE "UTF_8"

\* The encoding that the string is in when encoding e was asked for.
Reached(e) == IF HasConversion(Joined, e) THEN e ELSE Joined

\* The string that is made of password w for encoding e.  Without high-bit
\* characters it has the same bytes in UTF-8 and all encodings of one byte.
Show(w, e) ==
  [word |-> w,
   as   |-> IF Reached(e) \notin Wide /\ ~HighText(w) THEN Generator ELSE Reached(e)]

EncInit ==
  /\ MainInit
  /\ \E r \in Requests : encodings = UseEncodings(r)
  /\ prefix \in PrefixKinds
  \* otherwise cur is an alias of the password and Worker is the model
  /\ ~(encodings = << Generator >> /\ prefix = NoPrefix)
  /\ cur = [word |-> << >>, as |-> Generator] /\ cur_encoding = 1 /\ last_pwd = FALSE
  /\ given = {} /\ calls = 0

(***************************************************************************)
(* pwdgen_finalize() after pwdgen_init(): the first password is converted, *)
(* and a chunk of one password ends with its last encoding.                *)
(***************************************************************************)
ManyEncodings == Len(encodings) > 1

EncBegin ==
  /\ phase = "init"
  /\ ChunkAccepted
  /\ end_digit' = DigitsOf(end)
  /\ pwd_digit' = DigitsOf(start)
  /\ pwd' = start
  /\ overflow' = Len(start)
  /\ once' = IF sameText /\ ~ManyEncodings THEN 1 ELSE 0
  /\ last_pwd' = (sameText /\ ManyEncodings)
  /\ cur' = Show(start, encodings[1])
  /\ cur_encoding' = 1
  /\ phase' = "first"
  /\ UNCHANGED <<timerVars, chunkVars, target, found, error, exitcode, encodings, prefix>>

-----------------------------------------------------------------------------
(***************************************************************************)
(* The encoding the current password is due in next, and what becomes of   *)
(* it: pwdgen_update_cur() skips one that it takes for needless, and does  *)
(* not report one that left the password's bytes as they are, be it that   *)
(* they are the same or that there is no conversion.                       *)
(***************************************************************************)
Due == cur_encoding \in 1 .. Len(encodings) - 1

NextEncoding == encodings[cur_encoding + 1]

Skipped == NextEncoding \notin Above /\ ~HasHighBit(pwd)

Unchanged == prefix = NoPrefix /\ Show(pwd, NextEncoding).as = Generator

NextIsNew == Due /\ ~Skipped /\ ~Unchanged

\* Mutation: only passwords are counted, not their encodings.
NotCounted == pwds_done' = pwds_done

CountString == pwds_done' = pwds_done + 1

\* The next encoding of the current password; the time is not checked.
ShowNext(rc) ==
  /\ NextIsNew
  /\ cur' = Show(pwd, NextEncoding)
  /\ cur_encoding' = cur_encoding + 1
  /\ CountString
  /\ rc = PWD_OK
  /\ UNCHANGED <<clockVars, checkVars, pwds, genVars, last_pwd>>

\* An unreported conversion is in cur nevertheless.
Converted == IF Due /\ ~Skipped THEN Show(pwd, NextEncoding) ELSE cur

\* Mutation: the end of the last password is not reported.
StopMissed(rc) ==
  /\ ~NextIsNew
  /\ last_pwd
  /\ cur' = Converted
  /\ rc = PWD_OK
  /\ UNCHANGED <<timerVars, genVars, cur_encoding, last_pwd>>

\* The last encoding of the last password is done.
StopAtLast(rc) ==
  /\ ~NextIsNew
  /\ last_pwd
  /\ cur' = Converted
  /\ cur_encoding' = (IF Due THEN IF Skipped THEN 0 ELSE cur_encoding + 1 ELSE cur_encoding)
  /\ rc = 1
  /\ UNCHANGED <<timerVars, genVars, last_pwd>>

TimeUp(rc) ==
  /\ ~NextIsNew
  /\ ~last_pwd
  /\ CountPwd
  /\ timedOut'
  /\ cur' = Converted
  /\ cur_encoding' = 0
  /\ rc = PWD_TIMEOUT
  /\ UNCHANGED <<genVars, last_pwd>>

\* Mutation: the password is converted before it is changed.
ShownTooEarly == Show(pwd, encodings[1])

FirstShown == Show(pwd', encodings[1])

\* Mutation: the last password ends the loop in its first encoding.
NoneToCome == FALSE

EncodingsToCome == cur_encoding' < Len(encodings)

\* The next password, in the first encoding; after the last password the others
\* are still to come.
ShowFirst(rc) ==
  /\ ~NextIsNew
  /\ ~last_pwd
  /\ CountPwd
  /\ ~timedOut'
  /\ cur_encoding' = 1
  /\ \E last \in {PWD_OK, 1} :
       /\ MakeNext(last)
       /\ last_pwd' = (last = 1 /\ EncodingsToCome)
       /\ rc = (IF EncodingsToCome THEN PWD_OK ELSE last)
  /\ cur' = FirstShown

pwdgen_next_encoded(rc) ==
  /\ ShowNext(rc) \/ StopAtLast(rc) \/ TimeUp(rc) \/ ShowFirst(rc)
  /\ UNCHANGED <<chunkVars, encodings, prefix>>

-----------------------------------------------------------------------------
\* The worker compares the string it reads, as src/src/test_cnv does.
dofunction(s, r) ==
  /\ calls' = OneMore(calls)
  /\ given' = given \union {s}
  /\ r = (IF s = target THEN PWD_SUCCESS ELSE PWD_FAIL)
  /\ UNCHANGED error

Start == EncBegin /\ UNCHANGED histVars

Abort == Refuse /\ UNCHANGED <<encVars, histVars>>

FirstKey ==
  /\ phase = "first"
  /\ \E r \in Results : dofunction(cur, r) /\ Collect(r + once)
  /\ UNCHANGED <<timerVars, chunkVars, genVars, encVars>>

Cycle ==
  /\ phase = "loop"
  /\ \E rc \in {PWD_OK, 1, PWD_TIMEOUT}, r \in Results :
       pwdgen_next_encoded(rc) /\ dofunction(cur', r) /\ Collect(rc + r)

\* The rest of main(), with an endfunction() that does nothing.
Finish ==
  /\ phase = "end"
  /\ UNCHANGED <<chunkVars, genVars, error, encVars, histVars>>
  /\ Exit(found)

PassTime == Clock /\ UNCHANGED <<encVars, histVars>>

Work == Start \/ Abort \/ FirstKey \/ Cycle \/ Finish

EncNext == Work \/ PassTime

EncSpec == EncInit /\ [][EncNext]_allVars

\* The process is scheduled.
EncFairSpec == EncSpec /\ WF_allVars(Work)

-----------------------------------------------------------------------------
\* The other encodings neither leave out a key nor add one.
EncCoverage == calls > 0 => {s.word : s \in given} = Words(SoFar)

(***************************************************************************)
(* What a worker means by asking for encoding e: password w with the bytes *)
(* of e, whatever conversions there are.                                   *)
(***************************************************************************)
Meant(w, e) == [word |-> w, as |-> IF e \notin Above /\ ~HighText(w) THEN Generator ELSE e]

AllShown(ks) ==
  \A k \in ks, e \in ToSet(encodings) : Meant(Word(k), e) \in given

\* Every encoding of the list can be reached, from the generator's or, with a
\* prefix in another encoding, from UTF-8.
AllReached == \A i \in 1 .. Len(encodings) : HasConversion(Joined, encodings[i])

(***************************************************************************)
(* The lists for which every password is given in every encoding: the      *)
(* generator's own only first, then the wide ones, then those that may be  *)
(* skipped, which must not be needed for the sake of the prefix.           *)
(***************************************************************************)
GoodList ==
  /\ AllReached
  /\ encodings[1] \notin Wide
  /\ \A i \in 2 .. Len(encodings) : encodings[i] # Generator
  /\ \A i, j \in 2 .. Len(encodings) :
       i < j /\ encodings[j] \in Wide => encodings[i] \in Wide
  /\ prefix.high => \A i \in 2 .. Len(encodings) : encodings[i] \in Wide

\* For a good list no password is left before it was given in all its encodings,
\* the last password included.
GoodListShown ==
  GoodList /\ calls > 0 =>
    /\ AllShown(SoFar \ {pwd_digit})
    /\ exitcode \in {0, 2} => AllShown(SoFar)

\* Of any list: "For each password all the encodings will be generated and for
\* each unique representation, dofunction() will be called" (pwdgen.h), so that no
\* password is left before that.
EveryEncoding == calls > 0 => AllShown(SoFar \ {pwd_digit})

\* The counter falls behind the calls of dofunction() by one at most, and only
\* at the end of a chunk with several encodings, whose last string is given to
\* dofunction() twice.
EncCounted ==
  calls > 0 /\ calls < MaxPwds =>
    LET uncounted == calls - (pwds + pwds_done)
    IN  uncounted = 0 \/ (uncounted = 1 /\ last_pwd /\ phase \in {"end", "exited"})

\* The worker ends.
EncEnds == <>(phase = "exited")
=============================================================================
