--------------------------- MODULE StringMeaning ---------------------------
(***************************************************************************)
(* What a string says, read without the code of pwd_conv.c: its characters *)
(* as code points, and what becomes of them in another encoding or in the  *)
(* other case.                                                             *)
(***************************************************************************)
EXTENDS PwdString

\* Each start byte is followed by the continuation bytes it announces, and each
\* continuation byte belongs to one.
WellFormed(s) ==
  CASE s.enc = "UTF_8" ->
         \A i \in DOMAIN s.units :
           LET ahead == {k \in 1 .. 3 : i + k <= Len(s.units) /\ \A j \in 1 .. k : s.units[i + j] \in Continuation}
               back  == {k \in 1 .. 3 : i - k >= 1 /\ s.units[i - k] >= 192}
           IN  CASE s.units[i] < 128           -> 1 \notin ahead
                 [] s.units[i] \in Continuation -> back # {}
                 [] s.units[i] \in 192 .. 223 -> 1 \in ahead /\ 2 \notin ahead
                 [] s.units[i] \in 224 .. 239 -> 2 \in ahead /\ 3 \notin ahead
                 [] s.units[i] \in 240 .. 247 -> 3 \in ahead
                 [] OTHER -> FALSE
    [] s.enc = "ASCII" -> High(s.units) = {}
    [] s.enc = "INVALID" -> FALSE
    [] OTHER -> TRUE

Characters(s) ==
  IF s.enc = "UTF_8" THEN Cardinality({i \in DOMAIN s.units : s.units[i] \notin Continuation})
  ELSE Len(s.units)

CodeOf(enc, b) == IF enc = "ASCII" THEN b ELSE codepoint_tables(enc, b)

Text(s) ==
  CASE s.enc = "UTF_8" -> CodePoints(s.units)
    [] s.enc \in Wide -> s.units
    [] OTHER -> Mapped(LAMBDA b : CodeOf(s.enc, b), s.units)

\* A text in another encoding: a character that is not in a single-byte encoding
\* becomes the replacement character, or is dropped where the code does that;
\* UTF_16 has the lower 16 bits of a code point.
Expressible(cp, enc) ==
  \E b \in IF enc = "ASCII" THEN 0 .. 127 ELSE 0 .. 255 : CodeOf(enc, b) = cp

Expressed(text, enc, replace, drops) ==
  CASE enc \in SingleByte ->
         Joined(Mapped(LAMBDA cp : CASE Expressible(cp, enc) -> << cp >>
                                     [] ~Expressible(cp, enc) /\ replace = 0 /\ drops -> << >>
                                     [] OTHER -> << replace >>, text))
    [] enc = "UTF_16" -> Mapped(LAMBDA cp : cp % 65536, text)
    [] OTHER -> text

\* The positions of the characters that a case change makes upper case.
Raised(op, text) ==
  LET all    == DOMAIN text
      vowels == {i \in all : text[i] \in LowerVowels \union UpperVowels}
  IN  CASE op = "uc" -> all
        [] op = "lc" -> {}
        [] op = "uc_first" -> {1}
        [] op = "lc_first" -> all \ {1}
        [] op = "uc_last" -> {Len(text)}
        [] op = "lc_last" -> all \ {Len(text)}
        [] op = "uc_odd" -> {i \in all : i % 2 = 0}
        [] op = "uc_even" -> {i \in all : i % 2 = 1}
        [] op = "uc_vowels" -> vowels
        [] op = "uc_consonants" -> all \ vowels

\* One character in the other case, where the table of its encoding has one.
Folded(enc, up, c) ==
  LET side == IF up THEN 2 ELSE 1
      hits == {k \in DOMAIN Folding : Folding[k][side] = c}
      byte == CHOOSE b \in 0 .. 255 : CodeOf(enc, b) = c
  IN  CASE enc = "UTF_8" /\ hits = {} -> c
        [] enc = "UTF_8" /\ hits # {} -> Folding[Min(hits)][3 - side]
        [] OTHER -> CodeOf(enc, TableCase(enc, IF up THEN "up" ELSE "down", byte))

Recased(op, s) ==
  LET text == Text(s) IN [i \in DOMAIN text |-> Folded(s.enc, i \in Raised(op, text), text[i])]
=============================================================================
