------------------------------ MODULE PwdSort ------------------------------
(***************************************************************************)
(* Sorting of the extracted strings (src/src/main/pwdsort.c).  A string is *)
(* a sequence of bytes, and all strings of a list have the same length.    *)
(***************************************************************************)
EXTENDS Integers, SequencesExt

\* _compare(a, b, len) < 0
Before(a, b) ==
  \E i \in DOMAIN a : a[i] < b[i] /\ \A j \in 1 .. i - 1 : a[j] = b[j]

(***************************************************************************)
(* The loop with two indices and a scratch list that is in                 *)
(* pwdgen_img_merge_sort() and in pwdgen_img_merge(): while both lists     *)
(* have strings left it takes the lesser one, of equals that of the first  *)
(* list; then the rest of the other follows.  The lists need not be sorted *)
(* (see pwdgen_img_sort).                                                  *)
(***************************************************************************)
Merged(a, b) ==
  LET From[at \in (1 .. Len(a) + 1) \X (1 .. Len(b) + 1)] ==
        LET i == at[1]
            j == at[2]
        IN  IF i > Len(a) THEN SubSeq(b, j, Len(b))
            ELSE IF j > Len(b) THEN SubSeq(a, i, Len(a))
            ELSE IF Before(b[j], a[i]) THEN <<b[j]>> \o From[<<i, j + 1>>]
            ELSE <<a[i]>> \o From[<<i + 1, j>>]
  IN  From[<<1, 1>>]

\* Two strings are swapped in place, more are halved at the median.
pwdgen_img_merge_sort(list) ==
  LET Sort[part \in {p \in (DOMAIN list) \X (DOMAIN list) : p[1] <= p[2]}] ==
        LET first  == part[1]
            last   == part[2]
            median == (first + last - 2) \div 2 + 1
        IN  IF first = last
              THEN <<list[first]>>
              ELSE Merged(Sort[<<first, median>>], Sort[<<median + 1, last>>])
  IN  IF list = << >> THEN list ELSE Sort[<<1, Len(list)>>]

\* With no memory for the scratch list the list is left as it is.
pwdgen_img_sort(list, memory) ==
  IF memory THEN pwdgen_img_merge_sort(list) ELSE list

\* The first fh strings of the list and those behind them are two sorted lists.
\* Two strings in all are swapped in place, and need no memory.
pwdgen_img_merge(list, fh, memory) ==
  IF memory \/ Len(list) = 2
    THEN Merged(SubSeq(list, 1, fh), SubSeq(list, fh + 1, Len(list)))
    ELSE list

\* Each string that differs from the one before it is kept.
pwdgen_img_remove_doubles_in_place(list) ==
  FoldLeft(LAMBDA s, w : IF s # << >> /\ Last(s) = w THEN s ELSE Append(s, w), << >>, list)
=============================================================================
