----------------------------- MODULE PwdMutate -----------------------------
(***************************************************************************)
(* Stages and mutations of a word (src/src/main/pwddict.c, with the        *)
(* changes of case and the reversal of src/src/main/pwd_conv.c), for words *)
(* from a dictionary and for strings from an image.  A word is a sequence  *)
(* of characters, a bit mask the set of the numbers of its bits.           *)
(***************************************************************************)
EXTENDS Integers, FiniteSets, SequencesExt

CONSTANTS
  Upper,       \* the case mappings of the characters, as functions
  Lower,
  Vowels       \* the lower case vowels (a, e, i, o, u)

-----------------------------------------------------------------------------
(***************************************************************************)
(* The mutations, by the numbers of their bits.  All of them but the last  *)
(* write some characters in upper case and the others in lower case.       *)
(***************************************************************************)
Uppercased(m, w) ==
  LET n == Len(w)
      IsVowel(i) == Lower[w[i]] \in Vowels
  IN  CASE m = 0 -> {}                                \* DICT_LOWER
        [] m = 1 -> 1 .. n                            \* DICT_UPPER
        [] m = 2 -> 2 .. n                            \* DICT_LOWER_FIRST
        [] m = 3 -> {1}                               \* DICT_UPPER_FIRST
        [] m = 4 -> 1 .. n - 1                        \* DICT_LOWER_LAST
        [] m = 5 -> {n}                               \* DICT_UPPER_LAST
        [] m = 6 -> {i \in 1 .. n : i % 2 = 0}        \* DICT_UPPER_ODD
        [] m = 7 -> {i \in 1 .. n : i % 2 = 1}        \* DICT_UPPER_EVEN
        [] m = 8 -> {i \in 1 .. n : IsVowel(i)}       \* DICT_UPPER_VOWELS
        [] m = 9 -> {i \in 1 .. n : ~IsVowel(i)}      \* DICT_UPPER_CONSONANTS

DICT_ORIGINAL == 10

Mutated(m, w) ==
  IF m = DICT_ORIGINAL
    THEN w
    ELSE [i \in 1 .. Len(w) |-> IF i \in Uppercased(m, w) THEN Upper[w[i]] ELSE Lower[w[i]]]

DICT_REVERSE == 1

Staged(s, w) == IF s = DICT_REVERSE THEN Reverse(w) ELSE w

(***************************************************************************)
(* The next mutation is found by shifting a mask until it meets one of     *)
(* those to do.  After the first stage of the first word the shifting      *)
(* starts from first_mutation, which is not the mask of the first          *)
(* mutation's bit but that bit's number, counted from 1; there is no case  *)
(* for a mask of two bits and the word stays as it is.                     *)
(***************************************************************************)
Shifted(mask, n) == {b + n : b \in mask}

Next_mutation(mask, todo) ==
  Shifted(mask, Min({n \in 0 .. 31 : Shifted(mask, n) \intersect todo # {}}))

BitsOf(n) == {b \in 0 .. 3 : (n \div <<1, 2, 4, 8>>[b + 1]) % 2 = 1}

first_mutation(mutations) == BitsOf(Min(mutations) + 1)

MutateBy(mask, w) == IF Cardinality(mask) = 1 THEN Mutated(Min(mask), w) ELSE w
=============================================================================
