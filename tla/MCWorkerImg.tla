---------------------------- MODULE MCWorkerImg ----------------------------
(***************************************************************************)
(* WorkerImg on images of up to 14 bytes in blocks of six, three for the   *)
(* longest strings: letters A to D and a, b, some in UTF-16 and UTF-8,     *)
(* with bytes between them that belong to no string.  As in the code's     *)
(* tables, the sharp s has an upper case that is not mapped back.          *)
(***************************************************************************)
EXTENDS WorkerImg

Letters == {65, 66, 67, 68, 97, 98}

MCUpper == [b \in 0 .. 255 |-> IF b \in 97 .. 122 THEN b - 32 ELSE IF b = 223 THEN 83 ELSE b]
MCLower == [b \in 0 .. 255 |-> IF b \in 65 .. 90 THEN b + 32 ELSE b]
MCVowels == {97}

Opt(skip, odd, stages, mutations) ==
  [valid |-> Letters, skip_invalids |-> skip, even_odd |-> odd, utf8 |-> FALSE,
   stages |-> stages, mutations |-> mutations]

Plain == Opt(FALSE, FALSE, {0}, {10})
Skip  == Opt(TRUE, FALSE, {0}, {10})
Utf8  == [Plain EXCEPT !.utf8 = TRUE]

Job(image, start, end, o) == [image |-> image, start |-> start, end |-> end, opt |-> o]

Text  == <<65, 66, 0, 67, 68, 65, 65, 66, 67, 0, 65, 66, 66, 66>>
Dots  == <<66, 0, 66, 0, 66, 65, 66>>
Wide  == <<0, 65, 0, 66, 0, 67>>
Case  == <<97, 66, 97, 0, 65, 98>>
Euro  == <<128, 195, 164, 226, 130, 172, 98, 31, 98, 195, 98, 98>>
Many  == <<65, 66, 65, 66, 65, 66, 65, 66, 65, 66, 65, 66>>

Sharp == <<223, 83, 0, 83, 223>>

MCJobs ==
  { Job(Text, 1, 3, Plain),
    Job(Text, 2, 3, Skip),
    Job(Dots, 1, 2, Skip),
    Job(Wide, 2, 2, Opt(FALSE, TRUE, {0}, {10})),
    Job(Text, 2, 2, Opt(TRUE, TRUE, {0}, {10})),
    Job(Case, 1, 2, Opt(FALSE, FALSE, {0}, {0, 1})),
    Job(Case, 2, 2, Opt(FALSE, FALSE, {0, 1}, {10})),
    Job(Case, 2, 2, Opt(FALSE, FALSE, {1}, {3})),
    Job(Text, 1, 2, Opt(FALSE, TRUE, {0, 1}, {0, 8})),
    Job(Case, 2, 2, Opt(FALSE, FALSE, {0, 1}, {2})),
    Job(Sharp, 1, 1, [Opt(FALSE, FALSE, {0}, {0, 1}) EXCEPT !.valid = {83, 223}]),
    Job(Euro, 2, 3, Utf8),
    Job(SubSeq(Euro, 7, 12), 2, 2, Utf8),
    Job(Many, 1, 2, Plain),
    Job(<< >>, 1, 1, Opt(FALSE, TRUE, {0}, {10})),
    Job(<<0, 65, 66>>, 1, 1, Plain),
    Job(<<65, 66>>, 3, 4, Plain),
    Job(<<65, 66>>, 2, 1, Plain) }

MCTargets == { <<65, 66>>, <<97>> }

MCLongLengths == {3}
MCWarps == {1}

\* Images of more than one block in which invalid bytes end a string.
MCLargeImages == { Job(Text, 2, 2, Plain), Job(Text, 1, 3, Plain), Job(Many, 3, 3, Plain) }
=============================================================================
