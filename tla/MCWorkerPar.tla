---------------------------- MODULE MCWorkerPar ----------------------------
(***************************************************************************)
(* WorkerPar on a SIMPLE set of two letters, with blocks of two passwords. *)
(***************************************************************************)
EXTENDS WorkerPar

MCDefault == <<"a", "b">>
MCPairs == << >>
MCChars == {"a", "b", "c"}
MCChunks ==
  { << <<"a">>, <<"a">> >>,
    << <<"a">>, <<"b", "b">> >>,
    << <<"b">>, <<"a", "b", "a">> >>,
    << <<"a", "a", "a">>, <<"b", "b", "b">> >>,
    << <<"b", "b">>, <<"a", "a">> >>,
    << <<"a">>, <<"c">> >> }
MCTargets ==
  { <<"a">>, <<"b">>, <<"a", "b">>, <<"b", "a">>, <<"b", "b">>, <<"a", "a", "b">>,
    <<"b", "b", "b">>, <<"c">> }
MCWarps == {1}
=============================================================================
