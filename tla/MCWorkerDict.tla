---------------------------- MODULE MCWorkerDict ----------------------------
(***************************************************************************)
(* WorkerDict on files of up to three short words.  The jobs: every        *)
(* mutation, alone and in company; both stages; appended and prepended     *)
(* passwords of a SIMPLE and of a GROUPED set, in one and in two lengths;  *)
(* a chunk at the start, in the middle and at the end of a file, with and  *)
(* without a newline there; words that are not in the file; an empty line. *)
(***************************************************************************)
EXTENDS WorkerDict

MCUpper == [c \in {"a", "b", "c", "A", "B", "C", "1"} |->
              CASE c = "a" -> "A" [] c = "b" -> "B" [] c = "c" -> "C" [] OTHER -> c]
MCLower == [c \in DOMAIN MCUpper |->
              CASE c = "A" -> "a" [] c = "B" -> "b" [] c = "C" -> "c" [] OTHER -> c]
MCVowels == {"a"}
MCGarbage == {0, 1, 7}

Ab == <<"A", "b">>
cab == <<"c", "a", "b">>
b1 == <<"b", "1">>

Digit == [type |-> "SIMPLE", chars |-> <<"0", "1">>, pairs |-> << >>]
XThenDigit == [type |-> "GROUPED", chars |-> <<"0", "1">>, pairs |-> <<[pos |-> 1, chars |-> <<"x", "y">>]>>]

Pair(pos, set, startlen, endlen) ==
  [pos |-> pos, set |-> set, startlen |-> startlen, endlen |-> endlen]

Job(words, newline, ofs, start, end, stages, mutations, pairs) ==
  [words |-> words, newline |-> newline, ofs |-> ofs, start |-> start, end |-> end,
   stages |-> stages, mutations |-> mutations, pairs |-> pairs]

Three == <<Ab, cab, b1>>

MCJobs ==
  { Job(<<cab, Ab>>, FALSE, 0, << >>, << >>, {0, 1}, 0 .. 10, << >>),
    Job(Three, TRUE, 0, Ab, cab, {0}, {1, 4, 10}, << >>),
    Job(Three, TRUE, 0, Ab, b1, {1}, {10}, <<Pair(0, Digit, 1, 2)>>),
    Job(Three, FALSE, 0, cab, b1, {0, 1}, {0, 5}, << >>),
    Job(Three, FALSE, 1, cab, b1, {0}, {3, 8}, <<Pair(0, XThenDigit, 1, 1), Pair(1, Digit, 1, 1)>>),
    Job(Three, TRUE, 0, << >>, << >>, {0}, {7, 9}, << >>),
    Job(<<Ab, b1>>, FALSE, 0, << >>, << >>, {0}, {10}, <<Pair(1, Digit, 2, 2)>>),
    Job(<<Ab, b1>>, FALSE, 0, << >>, << >>, {0}, {10}, <<Pair(1, XThenDigit, 1, 2), Pair(0, Digit, 1, 1)>>),
    Job(Three, TRUE, 0, b1, << >>, {0}, {2}, << >>),
    Job(Three, TRUE, 0, b1, << >>, {0}, {3}, << >>),
    Job(Three, TRUE, 1, b1, << >>, {1}, {0, 9}, <<Pair(0, Digit, 2, 2)>>),
    Job(Three, FALSE, 2, b1, Ab, {0}, {10}, << >>),
    Job(Three, FALSE, 0, Ab, b1, {0}, {2, 6}, << >>),
    Job(Three, FALSE, 0, <<"x">>, << >>, {0}, {10}, << >>),
    Job(<<Ab, << >>, b1>>, TRUE, 0, << >>, << >>, {0}, {10}, << >>),
    Job(<<Ab, << >>, b1>>, TRUE, 0, b1, << >>, {0}, {10}, << >>),
    Job(<<Ab, cab, << >> >>, TRUE, 0, cab, << >>, {0}, {10}, << >>) }

MCTargets == { Ab, <<"b", "A", "1", "1">>, <<"1", "B">>, <<"z">> }

MCWarps == {1}

\* Jobs whose mutations make masks of two bits.
MCTwoBitJobs ==
  { Job(Three, FALSE, 0, << >>, << >>, {0}, {2}, << >>),
    Job(Three, FALSE, 0, << >>, << >>, {0}, {2, 3}, << >>),
    Job(Three, FALSE, 0, << >>, << >>, {0}, {4}, << >>) }
=============================================================================
