------------------------------- MODULE PwdImg -------------------------------
(***************************************************************************)
(* Extraction of the strings of one length from a buffer: what             *)
(* pwdgen_img_extract() and pwdgen_img_extract_utf8() of                   *)
(* src/src/main/pwd_img.c put into a list.  A buffer is a sequence of      *)
(* bytes, here with indices from 1.                                        *)
(*                                                                         *)
(* What to extract is in a record opt: the set of valid bytes, whether     *)
(* invalid ones are skipped (skip_invalids) or end a string, the other     *)
(* options, and the stages and mutations that every string goes through.   *)
(***************************************************************************)
EXTENDS PwdMutate, PwdSort

\* The characters of an image are bytes.
ASSUME ImgCasesAssumption ==
  Upper \in [0 .. 255 -> 0 .. 255] /\ Lower \in [0 .. 255 -> 0 .. 255]

-----------------------------------------------------------------------------
(***************************************************************************)
(* The variants of a string, as pwddict_next() makes them when it reads no *)
(* words of its own: stage after stage, and in every stage mutation after  *)
(* mutation.  The masks of mutations start with the first bit for the      *)
(* first stage, and with first_mutation for the next one.                  *)
(***************************************************************************)
InOneStage(w, mutations, start) ==
  LET Pending == {p \in (SUBSET mutations) \X (SUBSET (0 .. 31)) :
                    p[2] # {} /\ \A bit \in p[2], m \in p[1] : bit <= m}
      Rest[p \in Pending] ==
        LET todo == p[1]
            next == Next_mutation(p[2], todo)
        IN  IF todo = {} THEN << >> ELSE <<MutateBy(next, w)>> \o Rest[<<todo \ next, next>>]
  IN  Rest[<<mutations, start>>]

Variants(w, opt) ==
  LET Stage(s, start) == InOneStage(Staged(s, w), opt.mutations, start)
      first == first_mutation(opt.mutations)
  IN  CASE opt.stages = {0} -> Stage(0, {0})
        [] opt.stages = {1} -> Stage(1, {0})
        [] opt.stages = {0, 1} -> Stage(0, {0}) \o Stage(1, first)

\* A string is compared with the last one in the list only, which is the last
\* variant of the string before it.
AddString(list, w, opt) ==
  IF list # << >> /\ Last(list) = w THEN list ELSE list \o <<w>> \o Variants(w, opt)

-----------------------------------------------------------------------------
(***************************************************************************)
(* pwdgen_img_extract(): step is how far it goes from byte to byte, 1 or 2.*)
(* Positions in the last len bytes of the buffer are not looked at, the    *)
(* string that ends with the last byte is not extracted.                   *)
(***************************************************************************)
\* How many valid bytes in a row there are from i on, up to len.
Run(buf, i, len, step, opt) ==
  Max({k \in 0 .. len :
         \A h \in 0 .. k - 1 : i + h * step <= Len(buf) /\ buf[i + h * step] \in opt.valid})

ByteSeq(buf, i, len, step) == [k \in 1 .. len |-> buf[i + (k - 1) * step]]

OnlyValid(bytes, opt) ==
  FoldLeft(LAMBDA s, b : IF b \in opt.valid THEN Append(s, b) ELSE s, << >>, bytes)

\* The valid bytes from i on.
ValidFrom(buf, i, step, opt) ==
  OnlyValid(ByteSeq(buf, i, (Len(buf) - i) \div step + 1, step), opt)

\* The first position from i on that is valid, or beyond the last one to look at.
SkipInvalid(buf, i, last, step, opt) ==
  LET Stop(k) == i + k * step > last \/ buf[i + k * step] \in opt.valid
  IN  i + step * Min({k \in 0 .. (last - i) \div step + 1 : Stop(k)})

\* Mutation: after an invalid byte the first one is lost.
JumpTooFar(i, run, len, step) == IF run = len THEN i + step ELSE i + (run + 2) * step

\* The next position: a string that is too short ends all that start inside it.
Jump(i, run, len, step) == IF run = len THEN i + step ELSE i + (run + 1) * step

LastPosition(n, len) == n - len

pwdgen_img_extract(buf, len, step, opt) ==
  LET last == LastPosition(Len(buf), len)
      \* a position, and the list so far
      Breaking[s \in (Nat \ {0}) \X Seq([1 .. len -> 0 .. 255])] ==
        LET i    == s[1]
            list == s[2]
            run  == Run(buf, i, len, step, opt)
        IN  IF i > last
              THEN list
              ELSE Breaking[<<Jump(i, run, len, step),
                              IF run = len THEN AddString(list, ByteSeq(buf, i, len, step), opt) ELSE list>>]
      Skipping[s \in (Nat \ {0}) \X Seq([1 .. len -> 0 .. 255])] ==
        LET i     == s[1]
            list  == s[2]
            at    == SkipInvalid(buf, i, last, step, opt)
            bytes == ValidFrom(buf, at, step, opt)
        IN  IF i > last
              THEN list
              ELSE Skipping[<<at + step,
                              IF Len(bytes) >= len THEN AddString(list, SubSeq(bytes, 1, len), opt) ELSE list>>]
  IN  IF Len(buf) <= len THEN << >>
      ELSE IF opt.skip_invalids THEN Skipping[<<1, << >> >>] ELSE Breaking[<<1, << >> >>]

-----------------------------------------------------------------------------
(***************************************************************************)
(* pwdgen_img_extract_utf8(): bytes that do not belong to a character of   *)
(* UTF-8, and control characters, are always skipped.                      *)
(***************************************************************************)
IsFollowUp(b) == b \in 128 .. 191

\* The number of bytes that must follow a start byte.
Need(b) ==
  CASE b < 128 -> 0
    [] b \in 192 .. 223 -> 1
    [] b \in 224 .. 239 -> 2
    [] b \in 240 .. 247 -> 3
    [] b \in 248 .. 251 -> 4
    [] b \in 252 .. 253 -> 5

StartsCharacter(b) == b > 31 /\ ~IsFollowUp(b) /\ b < 254

\* Only the scan for a start lets 0x1F pass.
StartsString(b) == b = 31 \/ StartsCharacter(b)

\* Mutation: the follow-up bytes are not looked at.
NoBrokenFollowUp(buf, pos) == {}

\* The first byte after a start byte at pos that is no follow-up byte.
BrokenFollowUp(buf, pos) ==
  {j \in 1 .. Need(buf[pos]) : ~IsFollowUp(buf[pos + j])}

(***************************************************************************)
(* The string at a position, << >> when there is none.  A character that   *)
(* does not fit into the buffer or into len ends the search.  The bytes    *)
(* that follow a start byte are skipped as such in their turn.  (In a      *)
(* buffer that is shorter than len the code looks at the bytes behind it   *)
(* for one that could start a string, and never extracts any.)             *)
(***************************************************************************)
Utf8String(buf, i, len) ==
  LET Taken == {s \in Seq(0 .. 255) : Len(s) <= len}
      From[at \in (1 .. Len(buf) + 1) \X Taken] ==
        LET pos  == at[1]
            s    == at[2]
            b    == buf[pos]
            need == Need(b)
            bad  == BrokenFollowUp(buf, pos)
        IN  IF Len(s) = len THEN s
            ELSE IF pos > Len(buf) THEN << >>
            ELSE IF ~StartsCharacter(b) THEN From[<<pos + 1, s>>]
            ELSE IF need > 0 /\ (pos + need > Len(buf) \/ Len(s) + need >= len) THEN << >>
            ELSE IF bad = {} THEN From[<<pos + 1, s \o SubSeq(buf, pos, pos + need)>>]
            ELSE From[<<pos + Min(bad), s>>]
  IN  From[<<i, << >> >>]

pwdgen_img_extract_utf8(buf, len, opt) ==
  LET At[i \in 0 .. Len(buf)] ==
        LET w == Utf8String(buf, i, len)
        IN  IF i = 0 THEN << >>
            ELSE IF StartsString(buf[i]) /\ w # << >> THEN AddString(At[i - 1], w, opt)
            ELSE At[i - 1]
  IN  IF Len(buf) <= len THEN << >> ELSE At[LastPosition(Len(buf), len)]

-----------------------------------------------------------------------------
(***************************************************************************)
(* The passes of pwdgen_img_read() over a buffer: at every byte, and, when *)
(* that is asked for, at every other byte from the first and from the      *)
(* second byte on.                                                         *)
(***************************************************************************)
Extracted(buf, len, opt) ==
  IF opt.utf8
    THEN pwdgen_img_extract_utf8(buf, len, opt)
    ELSE pwdgen_img_extract(buf, len, 1, opt) \o
         (IF opt.even_odd THEN pwdgen_img_extract(buf, len, 2, opt) ELSE << >>) \o
         (IF opt.even_odd /\ Len(buf) > 1 THEN pwdgen_img_extract(Tail(buf), len, 2, opt) ELSE << >>)
=============================================================================
