----------------------------- MODULE ImgMeaning -----------------------------
(***************************************************************************)
(* What extraction promises, without looking at how PwdImg does it: which  *)
(* strings of a length begin at a place of an image, and which variants of *)
(* a string a worker is to be given.                                       *)
(***************************************************************************)
EXTENDS PwdImg

(***************************************************************************)
(* What is due: the strings of length l that bytes begin with, all of them *)
(* taken or every step-th one.                                             *)
(***************************************************************************)
EveryNth(bytes, step) ==
  [k \in 1 .. (Len(bytes) + step - 1) \div step |-> bytes[(k - 1) * step + 1]]

StringsOf(bytes, l, step, o) ==
  LET each  == EveryNth(bytes, step)
      from  == IF o.skip_invalids THEN OnlyValid(each, o) ELSE each
      taken == SubSeq(from, 1, l)
  IN  IF Len(from) >= l /\ ToSet(taken) \subseteq o.valid THEN {taken} ELSE {}

\* A sequence of characters: every byte that does not start one belongs to one.
WellFormed(s) ==
  LET Rest(i) == i + 1 .. i + Need(s[i])
      starts  == {i \in DOMAIN s : StartsCharacter(s[i])}
  IN  /\ \A i \in starts : Rest(i) \subseteq DOMAIN s /\ Rest(i) \intersect starts = {}
      /\ DOMAIN s = starts \union UNION {Rest(i) : i \in starts}
      /\ \A i \in starts : \A k \in Rest(i) : IsFollowUp(s[k])

Utf8Of(bytes, l) ==
  {s \in {SubSeq(bytes, 1, l)} : Len(bytes) >= l /\ WellFormed(s)}

Due(bytes, l, o) ==
  IF o.utf8
    THEN Utf8Of(bytes, l)
    ELSE StringsOf(bytes, l, 1, o) \union (IF o.even_odd THEN StringsOf(bytes, l, 2, o) ELSE {})

VariantsDue(s, o) ==
  {s} \union {Mutated(m, Staged(st, s)) : m \in o.mutations, st \in o.stages}

\* The variants of the second stage may be left unmutated, see first_mutation.
VariantsMade(s, o) == VariantsDue(s, o) \union {Staged(st, s) : st \in o.stages}

(***************************************************************************)
(* Jobs whose variants are complete.  A string that is the last variant of *)
(* the one before it does not get its own: they are the same as those of   *)
(* the one before only when the two case mappings agree, or nothing is     *)
(* changed.  The variants of a reversed string differ.                     *)
(***************************************************************************)
CasesAgree(o) ==
  \A b \in o.valid :
    Lower[Lower[b]] = Lower[b] /\ Lower[Upper[b]] = Lower[b] /\
    Upper[Lower[b]] = Upper[b] /\ Upper[Upper[b]] = Upper[b]

VariantsComplete(o) ==
  \/ o.mutations = {DICT_ORIGINAL}
  \/ o.stages = {0} /\ (DICT_ORIGINAL \in o.mutations \/ CasesAgree(o))
=============================================================================
