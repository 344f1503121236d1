----------------------------- MODULE MCStrings -----------------------------
(***************************************************************************)
(* Instances of Strings: a few short texts in every encoding, well formed  *)
(* or not, and the pairs of the case table that they meet.                 *)
(***************************************************************************)
EXTENDS StringText

In(enc, units) == [enc |-> enc, units |-> units]

\* A a, E e, I i, O o, U u; L l; micro sign and Greek mu in the order of the
\* table; U umlaut; S s and long s, whose upper case is one byte.
MCFolding == << <<65, 97>>, <<69, 101>>, <<73, 105>>, <<76, 108>>, <<79, 111>>, <<83, 115>>,
                <<85, 117>>, <<181, 956>>, <<220, 252>>, <<383, 115>>, <<924, 956>> >>

MCTexts == {
  In("UTF_8", <<97, 195, 188>>),              \* a, u umlaut
  In("UTF_8", <<197, 191, 108>>),             \* long s, l
  In("UTF_8", <<97, 188>>),                   \* a stray continuation byte
  In("UTF_8", <<108, 206>>),                  \* cut off
  In("ISO_8859_15", <<252, 65>>),             \* u umlaut, A
  In("ISO_8859_15", <<164, 108>>),            \* the Euro sign, l
  In("ISO_8859_1", <<181, 97, 76>>),          \* micro sign, a, L
  In("ASCII", <<97, 76>>),
  In("UTF_16", <<97, 252>>),
  In("UTF_16", <<8364, 8364, 97>>),           \* needs a scratch buffer for UTF-8
  In("UTF_32", <<119808, 97>>) }              \* a mathematical A, a

MCInputs == [x |-> MCTexts, y |-> {In("ISO_8859_15", <<252, 65>>)}]

MCCounts == {0, 1, 2, 8, 20}
=============================================================================
