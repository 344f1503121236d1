----------------------------- MODULE PwdString -----------------------------
(***************************************************************************)
(* What the functions of pwd_conv.c compute that make, cut, copy, join,    *)
(* compare and reverse strings or change their case.  Each takes strings   *)
(* and gives an answer (see PwdConv); err is the error of the generator    *)
(* when the call is made.  The number of characters, the encoding and the  *)
(* size of the buffer are kept beside the content of a string, and every   *)
(* call has to keep them in step with it.                                  *)
(***************************************************************************)
EXTENDS PwdConv

CONSTANTS
  Replacement,   \* pwd->replacement
  Null           \* no string

-----------------------------------------------------------------------------
(* Making, checking and counting *)

\* The buffer is made larger when it does not hold the bytes and a zero byte.
pwdgen_string(units, enc, buffer_size) ==
  LET size  == Len(units) * UnitSize(enc)
      chars == IF enc = "UTF_8" THEN -1 ELSE Len(units)
  IN  [NewString(units, enc, chars, IF buffer_size < size + 1 THEN size + 16 - (size % 16)
                                    ELSE buffer_size) EXCEPT !.top = size + 1]

\* UTF-8 is checked byte by byte, but for the lengths that Unicode does not use.
StrictUtf8(bytes) ==
  /\ ~Broken(bytes)
  /\ \A i \in ToSet(Starts(bytes)) :
       \A k \in i + 1 .. i + utf8_followers(bytes[i]) : bytes[k] \in Continuation

pwdgen_check_string(s) ==
  CASE "invalid" \in s.flags -> Answer(s, -1, FALSE)
    [] "invalid" \notin s.flags /\ s.enc \in SingleByte -> Done(s)
    [] "invalid" \notin s.flags /\ s.enc \in Wide -> Done([s EXCEPT !.chars = Len(s.units)])
    [] "invalid" \notin s.flags /\ s.enc = "INVALID" -> Refused(s)
    [] OTHER -> IF StrictUtf8(s.units) THEN Done([s EXCEPT !.chars = Len(Starts(s.units))])
                ELSE pwdgen_make_string_invalid(s)

\* Only the start bytes are looked at; the count is computed once.
pwdgen_strlen(s) ==
  LET starts   == ToSet(Starts(s.units))
      rejected == \E i \in starts : utf8_followers(s.units[i]) = -1 \/ s.units[i] >= 254
  IN  CASE "invalid" \in s.flags -> pwdgen_make_string_invalid(s)
        [] "invalid" \notin s.flags /\ (s.chars # -1 \/ s.enc = "INVALID") -> Done(s)
        [] "invalid" \notin s.flags /\ s.chars = -1 /\ s.enc \in SingleByte \union Wide ->
             Done([s EXCEPT !.chars = Len(s.units)])
        [] OTHER -> IF rejected THEN pwdgen_make_string_invalid(s)
                    ELSE Done([s EXCEPT !.chars = Cardinality(starts)])

\* A conversion that fails is not noticed: the string keeps the input encoding.
pwdgen_decode_string(units, enc, output, err) ==
  LET checked == pwdgen_check_string(pwdgen_string(units, enc, 0))
  IN  IF checked.rc # 0 THEN Answer(Null, 0, checked.err)
      ELSE IF enc = output THEN checked
      ELSE [pwdgen_convert_to(checked.str, output, Replacement, err) EXCEPT !.rc = 0]

-----------------------------------------------------------------------------
(* Cutting and copying *)

\* The positions at which pwdgen_truncate_string() sees a character of UTF-8:
\* the continuation bytes after a high byte belong to it.
Fronts(bytes) ==
  {i \in DOMAIN bytes : i = 1 \/ bytes[i] \notin Continuation \/ bytes[i - 1] < 128}

\* Variant of CutUtf8: one character too many is kept.
CutUtf8Late(s, max_chars) ==
  LET beyond == {i \in Fronts(s.units) : Cardinality({j \in Fronts(s.units) : j < i}) > max_chars}
      kept   == IF beyond = {} THEN s.units ELSE SubSeq(s.units, 1, Min(beyond) - 1)
  IN  [s EXCEPT !.units = kept, !.chars = Cardinality(Fronts(kept)),
                !.top = IF beyond = {} THEN s.top ELSE Len(kept) + 1]

CutUtf8(s, max_chars) ==
  LET beyond == {i \in Fronts(s.units) : Cardinality({j \in Fronts(s.units) : j < i}) >= max_chars}
      kept   == IF beyond = {} THEN s.units ELSE SubSeq(s.units, 1, Min(beyond) - 1)
  IN  [s EXCEPT !.units = kept, !.chars = Cardinality(Fronts(kept)),
                !.top = IF beyond = {} THEN s.top ELSE Len(kept) + 1]

pwdgen_truncate_string(s, max_chars) ==
  LET seen == CASE s.chars = -1 -> Done(s)
                [] s.chars # -1 /\ s.enc \in SingleByte -> Done([s EXCEPT !.chars = Len(s.units)])
                [] OTHER -> pwdgen_check_string(s)
      t    == seen.str
      cut  == [t EXCEPT !.units = SubSeq(@, 1, max_chars), !.chars = max_chars,
                        !.top = max_chars * UnitSize(t.enc) + 1]
  IN  IF s.flags \intersect {"static", "read_only"} # {} THEN Refused(s)
      ELSE CASE t.chars # -1 /\ t.chars < max_chars -> Answer(t, 0, seen.err)
             [] (t.chars = -1 \/ t.chars >= max_chars) /\ t.enc = "UTF_8" ->
                  Answer(CutUtf8(t, max_chars), 1, seen.err)
             [] (t.chars = -1 \/ t.chars >= max_chars) /\ t.enc = "INVALID" ->
                  Refused([t EXCEPT !.chars = max_chars])
             [] OTHER -> Answer(cut, 1, seen.err)

\* Shrinking cuts the string; the single bytes are not counted again.  The zero
\* bytes at the end are only written into a buffer that has moved.
pwdgen_resize_string(s, min_size) ==
  LET shrinks == min_size <= Bytes(s)
      units   == IF shrinks THEN min_size \div UnitSize(s.enc) - 1 ELSE Len(s.units)
      t       == IF ~shrinks THEN s
                 ELSE [s EXCEPT !.units = SubSeq(@, 1, units),
                                !.chars = IF s.enc \in Wide THEN units ELSE -1]
  IN  IF \/ "static" \in s.flags
         \/ shrinks /\ ("read_only" \in s.flags \/ s.enc \in {"UTF_8", "INVALID"})
      THEN Refused(s)
      ELSE IF s.size = min_size THEN Done(t)
      ELSE Done([t EXCEPT !.size = min_size, !.room = min_size,
                          !.top = Bytes(t) + UnitSize(t.enc)])

pwdgen_strcpy(src, enc, err) ==
  LET dst    == [src EXCEPT !.flags = {}, !.room = src.size, !.top = Bytes(src)]
      result == pwdgen_convert_to(dst, enc, Replacement, err)
  IN  IF src.units = << >> \/ enc = src.enc THEN Done([dst EXCEPT !.enc = enc])
      ELSE IF result.rc # 0 THEN Answer(Null, -1, TRUE)
      ELSE result

pwdgen_strdup(dst, src) ==
  LET room == IF dst.size > Bytes(src) THEN Done(dst)
              ELSE pwdgen_resize_string(dst, Bytes(src) + 16)
  IN  IF room.rc # 0 THEN room
      ELSE Done([room.str EXCEPT !.enc = src.enc, !.units = src.units, !.chars = src.chars,
                                 !.top = Bytes(src) + 1])

-----------------------------------------------------------------------------
(* Joining and comparing *)

\* The content of t is put behind that of s, whose encoding it has.
Appended(s, t, new_size, chars) ==
  LET grown == IF new_size > s.size THEN pwdgen_resize_string(s, new_size) ELSE Done(s)
  IN  IF grown.rc # 0 THEN grown
      ELSE Done([grown.str EXCEPT !.enc = t.enc, !.units = s.units \o t.units, !.chars = chars,
                                  !.top = Len(s.units) * UnitSize(t.enc) + Bytes(t) + 1])

Counted(answer) ==
  IF answer.rc = 0 /\ answer.str.chars = -1
  THEN [pwdgen_strlen(answer.str) EXCEPT !.rc = 0] ELSE answer

\* Variants of SameEncoding: no room for the zero byte, and the count of the
\* second string added although it is missing.
SameEncodingNoZero(first, second) ==
  Counted(Appended(first, second, Bytes(first) + Bytes(second),
                   IF -1 \in {first.chars, second.chars} THEN -1
                   ELSE first.chars + second.chars))
SameEncodingOneCount(first, second) ==
  Counted(Appended(first, second, Bytes(first) + Bytes(second) + 1,
                   IF first.chars = -1 THEN -1 ELSE first.chars + second.chars))

SameEncoding(first, second) ==
  Counted(Appended(first, second, Bytes(first) + Bytes(second) + 1,
                   IF -1 \in {first.chars, second.chars} THEN -1
                   ELSE first.chars + second.chars))

\* The first string becomes Unicode and the second is brought to its encoding.
\* The new size is that of the second string before.
Upgraded(first, err) ==
  IF first.enc \in Unicode THEN Done(first)
  ELSE pwdgen_convert_to(first, "UTF_8", Replacement, err)
Fitting(first, second, err) ==
  IF first.enc = second.enc THEN Done(second) ELSE pwdgen_strcpy(second, first.enc, err)

Converted(up, s, second, err) ==
  IF err \/ up.err \/ s.err THEN Answer(up.str, -1, up.err \/ s.err)
  ELSE Counted(Appended(up.str, s.str, RoundUp(Bytes(up.str) + Bytes(second) + 1),
                        IF up.str.chars = -1 THEN -1 ELSE up.str.chars + s.str.chars))

ConvertedTo(up, second, err) ==
  Converted(up, Fitting(up.str, second, err \/ up.err), second, err)

pwdgen_strcat(first, second, err) ==
  CASE first.flags # {} -> Answer(first, -1, FALSE)
    [] first.flags = {} /\ second.units = << >> -> Done(first)
    [] /\ first.flags = {} /\ second.units # << >>
       /\ first.enc = second.enc \/ first.units = << >> -> SameEncoding(first, second)
    [] OTHER -> ConvertedTo(Upgraded(first, err), second, err)

\* Strings in different encodings are compared as UTF-8, by copies; the counts
\* that are missing are taken on the strings themselves.
InUtf8(s, other, err) ==
  IF s.enc # other.enc /\ s.enc # "UTF_8" THEN pwdgen_strcpy(s, "UTF_8", err) ELSE Done(s)

Incomparable(first, second, err) ==
  err \/ "invalid" \in first.flags \union second.flags

Compared(first, second, rc, error) ==
  [first |-> first, second |-> second, rc |-> rc, err |-> error]

Measured(s) == IF s.chars = -1 THEN pwdgen_strlen(s) ELSE Done(s)

\* The number of characters decides, then the bytes that the second string has.
Ranked(fc, sc) ==
  CASE sc.chars < fc.chars -> -1
    [] sc.chars > fc.chars -> 1
    [] sc.chars = fc.chars -> (IF IsPrefix(sc.units, fc.units) THEN 0 ELSE 1)

WithCounts(first, second, f, s, fc, sc) ==
  IF f.err \/ s.err THEN Compared(first, second, -1, TRUE)
  ELSE Compared(IF f.str = first THEN fc.str ELSE first, IF s.str = second THEN sc.str ELSE second,
                Ranked(fc.str, sc.str), fc.err \/ sc.err)

InOneEncoding(first, second, f, s) ==
  WithCounts(first, second, f, s, Measured(f.str), Measured(s.str))

pwdgen_strcmp(first, second, err) ==
  IF Incomparable(first, second, err) THEN Compared(first, second, -1, TRUE)
  ELSE InOneEncoding(first, second, InUtf8(first, second, err), InUtf8(second, first, err))

\* Variant of pwdgen_streq: a count that is missing decides too.
StreqAnyCount(first, second, err) ==
  LET f == InUtf8(first, second, err)
      s == InUtf8(second, first, err)
  IN  CASE Incomparable(first, second, err) -> Compared(first, second, -1, TRUE)
        [] ~Incomparable(first, second, err) /\ first.chars # second.chars ->
             Compared(first, second, 1, FALSE)
        [] OTHER -> IF f.err \/ s.err THEN Compared(first, second, -1, TRUE)
                    ELSE Compared(first, second, IF f.str.units = s.str.units THEN 0 ELSE 1, FALSE)

\* Zero for equal strings; counts that are known and differ decide at once.
pwdgen_streq(first, second, err) ==
  LET f == InUtf8(first, second, err)
      s == InUtf8(second, first, err)
  IN  CASE Incomparable(first, second, err) -> Compared(first, second, -1, TRUE)
        [] /\ ~Incomparable(first, second, err)
           /\ -1 \notin {first.chars, second.chars} /\ first.chars # second.chars ->
             Compared(first, second, 1, FALSE)
        [] OTHER -> IF f.err \/ s.err THEN Compared(first, second, -1, TRUE)
                    ELSE Compared(first, second, IF f.str.units = s.str.units THEN 0 ELSE 1, FALSE)

-----------------------------------------------------------------------------
(* Reversing *)

\* Variant of ReversedUtf8: byte by byte.
ReversedBytes(s) == Answer([s EXCEPT !.units = Reverse(@)], 1, FALSE)

\* From the back: the continuation bytes with the byte before them are moved as
\* one.  A start byte without any is an error.
ReversedUtf8(s) ==
  LET heads == {i \in DOMAIN s.units : s.units[i] \notin Continuation}
      tail(i) == SelectInSubSeq(s.units, i + 1, Len(s.units), LAMBDA b : b \notin Continuation)
      part(i) == SubSeq(s.units, i, IF tail(i) = 0 THEN Len(s.units) ELSE tail(i) - 1)
      bare    == \E i \in heads : s.units[i] >= 192 /\ Len(part(i)) = 1
  IN  IF bare THEN Answer(s, 0, TRUE)
      ELSE Answer([s EXCEPT !.units = Joined(Mapped(part, SetToSortSeq(heads, >)))], 1, FALSE)

pwdgen_strrev(s, err) ==
  LET flipped == [s EXCEPT !.units = Reverse(@)]
  IN  CASE s.units = << >> -> Answer(s, 0, FALSE)
        [] s.units # << >> /\ err -> Answer(s, -1, FALSE)
        [] s.units # << >> /\ ~err /\ s.enc = "UTF_8" -> ReversedUtf8(s)
        [] OTHER -> Answer(flipped, IF flipped = s THEN 0 ELSE 1, FALSE)

-----------------------------------------------------------------------------
(* Upper and lower case *)

LowerVowels == {97, 101, 105, 111, 117}
UpperVowels == {65, 69, 73, 79, 85}

\* Variant of Mode: odd and even are exchanged.
ModeOddEven(op, turn, b) ==
  CASE op \in {"uc", "lc_last"} -> "up"
    [] op \in {"lc", "uc_last"} -> "down"
    [] op = "uc_first" -> (IF turn = 0 THEN "up" ELSE "down")
    [] op = "lc_first" -> (IF turn = 0 THEN "down" ELSE "up")
    [] op = "uc_odd"   -> (IF turn = 1 THEN "down" ELSE "up")
    [] op = "uc_even"  -> (IF turn = 1 THEN "up" ELSE "down")
    [] OTHER -> "keep"

\* What is done to the character that starts with byte b at the given turn of
\* the loop: turn 0 is the first, then 1 and 2 alternate.
Mode(op, turn, b) ==
  CASE op \in {"uc", "lc_last"} -> "up"
    [] op \in {"lc", "uc_last"} -> "down"
    [] op = "uc_first" -> (IF turn = 0 THEN "up" ELSE "down")
    [] op = "lc_first" -> (IF turn = 0 THEN "down" ELSE "up")
    [] op = "uc_odd"   -> (IF turn = 1 THEN "up" ELSE "down")
    [] op = "uc_even"  -> (IF turn = 1 THEN "down" ELSE "up")
    [] op = "uc_vowels" -> (CASE b \in LowerVowels -> "up" [] b \in UpperVowels -> "keep"
                              [] OTHER -> "down")
    [] op = "uc_consonants" -> (CASE b \in UpperVowels -> "down" [] b \in LowerVowels -> "keep"
                                  [] OTHER -> "up")

CaseOps == {"uc", "lc", "uc_first", "lc_first", "uc_last", "lc_last", "uc_odd", "uc_even",
            "uc_vowels", "uc_consonants"}
LastOps == {"uc_last", "lc_last"}
LastMode(op) == IF op = "uc_last" THEN "up" ELSE "down"

NextTurn(turn) == IF turn = 1 THEN 2 ELSE 1

\* The table of utf8.h: the pairs as bytes.
FoldingBytes == [k \in DOMAIN Folding |-> Mapped(PutUtf8, Folding[k])]

\* The first pair of the table that holds the character, byte by byte.
FirstPair(old, side) ==
  LET hits == {k \in DOMAIN Folding : FoldingBytes[k][side] = old}
  IN  IF hits = {} THEN << >> ELSE FoldingBytes[Min(hits)][3 - side]
utf8_to_lower(old) == FirstPair(old, 1)
utf8_to_upper(old) == FirstPair(old, 2)

\* One character of a UTF-8 string to the other case: the string, where the
\* next one starts, and 1 for changed, 0 for unchanged.  A character whose other
\* case takes another number of bytes is an error and is not passed.
Turned(answer, next) == [answer |-> answer, next |-> next]

\* Where the character after the one at i starts, which has f more bytes; and a
\* variant that does not pass the last of these.
NotBehind(i, f) == i + f
Behind(i, f) == i + f + 1

OtherCase(s, i, mode) ==
  LET f   == utf8_followers(s.units[i])
      old == SubSeq(s.units, i, i + f)
      new == IF mode = "up" THEN utf8_to_upper(old) ELSE utf8_to_lower(old)
  IN  CASE mode = "keep" -> Turned(Done(s), i + 1)
        [] mode # "keep" /\ f = -1 -> Turned(pwdgen_make_string_invalid(s), i)
        [] mode # "keep" /\ f # -1 /\ (i + f > Len(s.units) \/ new = << >>) ->
             Turned(Done(s), Behind(i, f))
        [] OTHER -> IF Len(new) # Len(old) THEN Turned(Refused(s), i)
                    ELSE Turned(Answer([s EXCEPT !.units =
                                          SubSeq(@, 1, i - 1) \o new \o SubSeq(@, i + f + 1, Len(@))], 1, FALSE), Behind(i, f))

\* The case tables of the single-byte encodings.
TableCase(enc, mode, b) ==
  CASE mode = "up" -> uppercase_tables(enc, b)
    [] mode = "down" -> lowercase_tables(enc, b)
    [] mode = "keep" -> b

SingleByteCase(s, op) ==
  LET turn(i) == IF i = 1 THEN 0 ELSE 2 - ((i + 1) % 2)
      mode(i) == IF op \in LastOps /\ i = Len(s.units) THEN LastMode(op)
                 ELSE Mode(op, turn(i), s.units[i])
      t == [s EXCEPT !.units = [i \in DOMAIN @ |-> TableCase(s.enc, mode(i), @[i])]]
  IN  Answer(t, IF t = s THEN 0 ELSE 1, FALSE)
=============================================================================
