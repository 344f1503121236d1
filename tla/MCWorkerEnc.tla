---------------------------- MODULE MCWorkerEnc ----------------------------
(***************************************************************************)
(* WorkerEnc on a SIMPLE set of a plain letter and one with the high bit,  *)
(* for lists of one to five encodings in good and in other orders, with    *)
(* and without conversions.                                                *)
(***************************************************************************)
EXTENDS WorkerEnc

MCDefault == <<"a", "ue">>
MCPairs == << >>
MCChars == {"a", "ue", "c"}
MCHigh == {"ue"}
MCTables == {"ISO_8859_1", "ISO_8859_15", "CP850"}
MCAbove == Wide \union {"GBK"}

\* A list without a conversion to its second encoding, and one whose second
\* encoding is skipped for a plain password.
MCNoConversion == { << "ISO_8859_1", "CP850", "UTF_8" >> }
MCOtherOrder   == { << "ISO_8859_1", "UTF_8", "UTF_16" >> }

MCRequests ==
  { << "ISO_8859_1" >>,
    << "UTF_8" >>,
    << "CP850" >>,
    << "ISO_8859_1", "ISO_8859_1", "UTF_8" >>,
    << "UTF_8", "UTF_16" >>,
    << "ASCII", "UTF_16", "CP850" >>,
    << "ISO_8859_1", "UTF_16", "UTF_32", "UTF_8", "CP850" >>,
    << "UTF_16", "ISO_8859_1", "GBK", "UTF_8" >> } \union MCNoConversion \union MCOtherOrder

MCNone == { NoPrefix }
MCPrefixKinds ==
  MCNone \union { [enc |-> "ASCII", high |-> FALSE],
                  [enc |-> "ISO_8859_1", high |-> TRUE],
                  [enc |-> "ISO_8859_15", high |-> TRUE],
                  [enc |-> "UTF_8", high |-> FALSE],
                  [enc |-> "UTF_8", high |-> TRUE] }
MCChunks ==
  { << <<"ue">>, <<"ue">> >>,
    << <<"a">>, <<"a", "ue">> >>,
    << <<"ue", "a">>, <<"a", "ue">> >>,
    << <<"a">>, <<"c">> >> }
MCTargets == { [word |-> <<"a", "a">>, as |-> "UTF_16"], [word |-> <<"c">>, as |-> "UTF_8"] }
MCWarps == {1}
=============================================================================
