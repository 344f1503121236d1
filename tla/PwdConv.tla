------------------------------ MODULE PwdConv ------------------------------
(***************************************************************************)
(* The strings of pwd_conv.c, their conversions and the tables these read. *)
(* A text is a sequence of code points; stored in an encoding it is a      *)
(* sequence of units: bytes, 16-bit units in UTF_16, 32-bit units in       *)
(* UTF_32.  Two single-byte encodings stand for all the tables, which      *)
(* build/gen_tables.pl writes by one scheme, and the pairs in Folding for  *)
(* the case foldings.  The operators are what the functions compute; the   *)
(* calls that change a string are in PwdString.                            *)
(***************************************************************************)
EXTENDS Integers, Sequences, FiniteSets, SequencesExt, FiniteSetsExt

CONSTANT Folding   \* pairs <<upper, lower>> of code points, in the order of utf8.h

SingleByte == {"ASCII", "ISO_8859_1", "ISO_8859_15"}
Wide       == {"UTF_16", "UTF_32"}
Unicode    == Wide \union {"UTF_8"}
Encodings  == SingleByte \union Unicode

UnitSize(enc) == CASE enc = "UTF_16" -> 2 [] enc = "UTF_32" -> 4 [] OTHER -> 1

Joined(s) == FoldLeft(LAMBDA done, part : done \o part, << >>, s)

Mapped(f(_), s) == [i \in DOMAIN s |-> f(s[i])]

-----------------------------------------------------------------------------
(* UTF-8 *)

Continuation == 128 .. 191

\* The table of the continuation bytes.  Its last two entries are left out, so
\* that 0xFE and 0xFF pass for characters of one byte.
utf8_followers(b) ==
  CASE b <= 127 \/ b >= 254 -> 0
    [] b \in 128 .. 191 -> -1
    [] b \in 192 .. 223 -> 1
    [] b \in 224 .. 239 -> 2
    [] b \in 240 .. 247 -> 3
    [] b \in 248 .. 251 -> 4
    [] b \in 252 .. 253 -> 5

\* The bytes that the conversion from UTF-16 and UTF-32 puts for a code point.
PutUtf8(cp) ==
  LET follower(k) == 128 + ((cp \div 64 ^ k) % 64)
  IN  CASE cp <= 127            -> << cp >>
        [] cp \in 128 .. 2047   -> << 192 + ((cp \div 64) % 32), follower(0) >>
        [] cp \in 2048 .. 65535 -> << 224 + ((cp \div 4096) % 16), follower(1), follower(0) >>
        [] cp > 65535 ->
             << 240 + ((cp \div 262144) % 8), follower(2), follower(1), follower(0) >>

\* The code point that starts at byte i: the low bits of the start byte, then
\* six bits of each of the next f bytes, whatever these are.
GatherBits(bytes, i, f) ==
  FoldLeft(LAMBDA cp, b : cp * 64 + (b % 64),
           bytes[i] % (2 ^ (7 - f)), SubSeq(bytes, i + 1, i + f))

\* The positions at which characters start, when the start bytes are believed.
Starts(bytes) ==
  LET from[i \in 1 .. Len(bytes) + 6] ==
        IF i > Len(bytes) THEN << >>
        ELSE << i >> \o (IF utf8_followers(bytes[i]) = -1 THEN << >>
                         ELSE from[i + utf8_followers(bytes[i]) + 1])
  IN  from[1]

\* A continuation byte where a character should start, or a cut off character.
Broken(bytes) ==
  \E i \in ToSet(Starts(bytes)) :
    utf8_followers(bytes[i]) = -1 \/ i + utf8_followers(bytes[i]) > Len(bytes)

CodePoints(bytes) ==
  Mapped(LAMBDA i : GatherBits(bytes, i, utf8_followers(bytes[i])), Starts(bytes))

-----------------------------------------------------------------------------
(* The single-byte encodings; ASCII has no tables. *)

\* Runs <<number, first>> of consecutive code points, for consecutive bytes.
encoding_iso_8859_1  == << <<256, 0>> >>
encoding_iso_8859_15 ==
  << <<164, 0>>, <<1, 8364>>, <<1, 165>>, <<1, 352>>, <<1, 167>>, <<1, 353>>, <<11, 169>>,
     <<1, 381>>, <<3, 181>>, <<1, 382>>, <<3, 185>>, <<2, 338>>, <<1, 376>>, <<65, 191>> >>

cp_iso_8859_1(b)  == b
cp_iso_8859_15(b) ==
  CASE b = 164 -> 8364 [] b = 166 -> 352 [] b = 168 -> 353 [] b = 180 -> 381
    [] b = 184 -> 382  [] b = 188 -> 338 [] b = 189 -> 339 [] b = 190 -> 376
    [] OTHER -> b

\* The other case of a byte; 63 is the question mark, where the character of
\* the other case is not in the encoding.
uc_iso_8859_1(b) ==
  CASE b \in 97 .. 122 \/ (b \in 224 .. 254 /\ b # 247) -> b - 32
    [] b \in {181, 255} -> 63
    [] b = 223 -> 83
    [] OTHER -> b
uc_iso_8859_15(b) ==
  CASE b = 168 -> 166 [] b = 184 -> 180 [] b = 189 -> 188 [] b = 255 -> 190
    [] OTHER -> uc_iso_8859_1(b)

lc_iso_8859_1(b) ==
  IF b \in 65 .. 90 \/ (b \in 192 .. 222 /\ b # 215) THEN b + 32 ELSE b
lc_iso_8859_15(b) ==
  CASE b = 166 -> 168 [] b = 180 -> 184 [] b = 188 -> 189 [] b = 190 -> 255
    [] OTHER -> lc_iso_8859_1(b)

encoding_tables(enc) ==
  IF enc = "ISO_8859_1" THEN encoding_iso_8859_1 ELSE encoding_iso_8859_15
codepoint_tables(enc, b) ==
  CASE enc = "ISO_8859_1" -> cp_iso_8859_1(b)
    [] enc = "ISO_8859_15" -> cp_iso_8859_15(b)
uppercase_tables(enc, b) ==
  IF enc = "ISO_8859_1" THEN uc_iso_8859_1(b) ELSE uc_iso_8859_15(b)
lowercase_tables(enc, b) ==
  IF enc = "ISO_8859_1" THEN lc_iso_8859_1(b) ELSE lc_iso_8859_15(b)

\* The table to UTF-8 holds the bytes of the code point, and at its end the
\* largest number of bytes that a character takes.
encoding_mappings(enc, b) == PutUtf8(codepoint_tables(enc, b))
MostBytes(enc) == IF enc = "ISO_8859_1" THEN 2 ELSE 3

High(bytes) == {i \in DOMAIN bytes : bytes[i] >= 128}

\* Variant of ByteOf: the run that holds the code point moves the byte on too.
ByteOfOneRunMore(enc, cp, replace) ==
  LET runs == encoding_tables(enc)
      hits == {k \in DOMAIN runs : cp \in runs[k][2] .. runs[k][2] + runs[k][1] - 1}
  IN  IF enc = "ISO_8859_1" THEN (IF cp > 255 THEN replace ELSE cp)
      ELSE IF cp = 65533 \/ hits = {} THEN replace
      ELSE FoldLeft(LAMBDA byte, run : byte + run[1], cp - runs[Min(hits)][2],
                    SubSeq(runs, 1, Min(hits)))

\* The byte of a code point: the runs of the table are gone through, each
\* moving the byte on by its length.
ByteOf(enc, cp, replace) ==
  LET runs == encoding_tables(enc)
      hits == {k \in DOMAIN runs : cp \in runs[k][2] .. runs[k][2] + runs[k][1] - 1}
  IN  CASE enc = "ISO_8859_1" -> (IF cp > 255 THEN replace ELSE cp)
        [] enc # "ISO_8859_1" /\ (cp = 65533 \/ hits = {}) -> replace
        [] OTHER -> FoldLeft(LAMBDA byte, run : byte + run[1], cp - runs[Min(hits)][2],
                             SubSeq(runs, 1, Min(hits) - 1))

-----------------------------------------------------------------------------
(* Strings.  chars is -1 while the number of characters is not known; room   *)
(* is what the allocator gave for the buffer, size what the string says of   *)
(* it, and top how far the last call wrote into it.                          *)

Bytes(s) == Len(s.units) * UnitSize(s.enc)

RoundUp(n) == (n \div 16 + 1) * 16

Larger(m, n) == IF m > n THEN m ELSE n

NewString(units, enc, chars, size) ==
  [units |-> units, enc |-> enc, chars |-> chars, size |-> size, room |-> size,
   top |-> Len(units) * UnitSize(enc), flags |-> {}]

\* What a call answers: the string afterwards, its return code, and whether it
\* sets the error of the generator.
Answer(s, rc, error) == [str |-> s, rc |-> rc, err |-> error]
Done(s)    == Answer(s, 0, FALSE)
Refused(s) == Answer(s, -1, TRUE)

pwdgen_make_string_invalid(s) ==
  Refused([s EXCEPT !.units = << >>, !.enc = "INVALID", !.chars = 0, !.flags = {"invalid"}])

\* The error of a conversion that is not implemented is only returned.
_convert_error(s) == Answer(s, -1, FALSE)

-----------------------------------------------------------------------------
(* Conversion *)

Relabelled(s, enc) == Done([s EXCEPT !.enc = enc, !.chars = Len(s.units)])

NewBuffer(s, enc, units, chars, size, top) ==
  Done([s EXCEPT !.enc = enc, !.units = units, !.chars = chars,
                 !.size = size, !.room = size, !.top = top])

\* A scratch buffer is taken when the bytes written would run into units that
\* are still to be read.
WideToUtf8(s) ==
  LET put(n) == Joined(Mapped(PutUtf8, SubSeq(s.units, 1, n)))
      out    == put(Len(s.units))
      ahead  == \E n \in DOMAIN s.units : Len(put(n)) > n * UnitSize(s.enc)
  IN  IF \E i \in DOMAIN s.units : s.units[i] > 131071 THEN _convert_error(s)
      ELSE IF ahead
      THEN NewBuffer(s, "UTF_8", out, Len(s.units), Larger(RoundUp(Len(out)), s.size), Len(out) + 1)
      ELSE Done([s EXCEPT !.enc = "UTF_8", !.units = out, !.chars = Len(s.units),
                          !.top = Len(out) + 1])

SingleToUtf8(s) ==
  LET n    == Len(s.units)
      out  == Joined(Mapped(LAMBDA b : encoding_mappings(s.enc, b), s.units))
      size == RoundUp(Cardinality(High(s.units)) * MostBytes(s.enc) + n + 1)
  IN  IF High(s.units) = {} THEN Relabelled(s, "UTF_8")
      ELSE NewBuffer(s, "UTF_8", out, n, Larger(size, s.size), Len(out) + 1)

\* In place.  The size becomes the number of bytes there were.
Utf8ToSingle(s, enc, replace) ==
  LET out == Mapped(LAMBDA cp : ByteOf(enc, cp, replace), CodePoints(s.units))
  IN  CASE s.chars = Len(s.units) \/ High(s.units) = {} -> Relabelled(s, enc)
        [] s.chars # Len(s.units) /\ High(s.units) # {} /\ enc = "ASCII" -> _convert_error(s)
        [] OTHER -> IF Broken(s.units) THEN pwdgen_make_string_invalid(s)
                    ELSE Done([s EXCEPT !.enc = enc, !.units = out, !.chars = Len(out),
                                        !.size = Len(s.units), !.top = Len(out) + 1])

\* UTF_16 keeps the lower 16 bits: there are no surrogate pairs.
Utf8ToWide(s, enc) ==
  LET unit(cp) == IF enc = "UTF_16" THEN cp % 65536 ELSE cp
      out  == Mapped(unit, CodePoints(s.units))
      size == RoundUp(Len(s.units) * UnitSize(enc))
  IN  IF Broken(s.units) THEN pwdgen_make_string_invalid(s)
      ELSE NewBuffer(s, enc, out, Len(out), Larger(size, s.size), Len(out) * UnitSize(enc) + 1)

SingleToWide(s, enc) ==
  LET n == (Len(s.units) + 1) * UnitSize(enc)
  IN  IF s.enc \notin SingleByte \ {"ASCII"} THEN _convert_error(s)
      ELSE NewBuffer(s, enc, Mapped(LAMBDA b : codepoint_tables(s.enc, b), s.units),
                     Len(s.units), Larger(RoundUp(n), s.size), n)

\* In place; a replacement character of zero drops the character.
SingleToAscii(s, replace) ==
  LET kept == IF replace = 0 THEN SelectSeq(s.units, LAMBDA b : b < 128)
              ELSE Mapped(LAMBDA b : IF b < 128 THEN b ELSE replace, s.units)
  IN  Done([s EXCEPT !.enc = "ASCII", !.units = kept, !.chars = Len(kept),
                     !.top = IF High(s.units) = {} THEN s.top ELSE Len(kept) + 1])

pwdgen_convert_to(s, enc, replace, error) ==
  IF s.flags # {} \/ enc = "INVALID" \/ error THEN Refused(s)
  ELSE IF s.units = << >> THEN Done([s EXCEPT !.enc = enc, !.chars = 0])
  ELSE CASE s.enc = enc -> Done(s)
         [] s.enc = "ASCII" /\ enc \in {"ISO_8859_1", "ISO_8859_15", "UTF_8"} -> Relabelled(s, enc)
         [] s.enc \in Wide /\ enc = "UTF_8" -> WideToUtf8(s)
         [] s.enc \in SingleByte \ {"ASCII"} /\ enc = "UTF_8" -> SingleToUtf8(s)
         [] s.enc = "UTF_8" /\ enc \in Wide -> Utf8ToWide(s, enc)
         [] s.enc = "UTF_8" /\ enc \in SingleByte -> Utf8ToSingle(s, enc, replace)
         [] s.enc \notin {enc, "UTF_8"} /\ enc \in Wide -> SingleToWide(s, enc)
         [] s.enc \in SingleByte \ {"ASCII"} /\ enc = "ASCII" -> SingleToAscii(s, replace)
         [] OTHER -> _convert_error(s)
=============================================================================
