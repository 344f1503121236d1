------------------------------ MODULE MCWorker ------------------------------
(***************************************************************************)
(* Worker on a GROUPED set: 0 or 1 in the first column (its set has the 0  *)
(* twice, which the file format does not forbid), x or y in the last, a or *)
(* b between.  The chunks: within one length and across two changes of     *)
(* length, one key as the same and as another text, with the end before    *)
(* the start, shorter than the start, and with a character that is not in  *)
(* its column.                                                             *)
(***************************************************************************)
EXTENDS Worker

MCDefault == <<"a", "b">>
MCPairs ==
  << [pos |-> 1,  chars |-> <<"0", "1", "0">>],
     [pos |-> -1, chars |-> <<"x", "y">>] >>
MCChars == {"0", "1", "a", "b", "x", "y"}
MCChunks ==
  { << <<"0">>, <<"1">> >>,
    << <<"0">>, <<"0", "a", "y">> >>,
    << <<"1">>, <<"1", "x">> >>,
    << <<"0", "y">>, <<"0", "y">> >>,
    << <<"1", "b", "x">>, <<"1", "a", "y">> >>,
    << <<"1", "y">>, <<"0", "x">> >>,
    << <<"1", "x">>, <<"0">> >>,
    << <<"0">>, <<"b">> >> }
MCTargets == { <<"1">>, <<"0", "a", "y">>, <<"z">> }
MCWarps == {1}
=============================================================================
