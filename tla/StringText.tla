----------------------------- MODULE StringText -----------------------------
(***************************************************************************)
(* What the calls of Strings promise about the texts that strings hold.    *)
(***************************************************************************)
EXTENDS Strings, StringMeaning

\* No call writes behind the buffer of a string, zero bytes included, and a
\* string never claims a larger buffer than it has: size is what strcat, strdup
\* and resize decide by, and several conversions change it.
Fits ==
  \A x \in Made : /\ str[x].top <= str[x].room
                 /\ Bytes(str[x]) <= str[x].size
                 /\ str[x].size <= str[x].room

\* The number of characters that is kept beside a well-formed string is missing
\* or right, whatever calls have cut, joined, converted or copied it.
CountRight ==
  \A x \in Made : WellFormed(str[x]) => str[x].chars \in {-1, Characters(str[x])}

Called(op) == calls' # calls /\ loop' = Idle /\ last'.op = op

\* A conversion that succeeds keeps the text, but for the characters that the
\* encoding does not have, which are replaced, or dropped where the replacement is
\* 0; one that fails leaves the string alone, or says that it is invalid.
\* ZeroDrops is about a replacement of 0 for a string in UTF-8.
ConvertsText ==
  [][Called("convert") =>
       LET x == last'.slot
       IN  IF last'.rc = 0
           THEN WellFormed(str[x]) =>
                  /\ str'[x].enc = last'.enc
                  /\ ~(last'.n = 0 /\ str[x].enc = "UTF_8") =>
                       Text(str'[x]) = Expressed(Text(str[x]), last'.enc, last'.n, TRUE)
           ELSE str'[x] = str[x] \/ ("invalid" \in str'[x].flags /\ error')]_vars

\* "Setting the replacement character to 0x00 means the character will instead be
\* dropped" (pwdgen_convert_to()), from whatever encoding.
ZeroDrops ==
  [][Called("convert") =>
       LET x == last'.slot
       IN  last'.rc = 0 /\ last'.n = 0 /\ WellFormed(str[x]) =>
             Text(str'[x]) = Expressed(Text(str[x]), last'.enc, 0, TRUE)]_vars

\* Cutting by characters or by bytes leaves a prefix of the text: of the number
\* of characters asked for, or small enough for the buffer asked for.
CutsToPrefix ==
  [][\A op \in {"truncate", "resize"} :
       LET x == last'.slot
       IN  Called(op) /\ last'.rc # -1 /\ ~error' /\ WellFormed(str[x]) =>
             /\ IsPrefix(Text(str'[x]), Text(str[x]))
             /\ op = "truncate" =>
                  Len(Text(str'[x])) = Min({last'.n, Len(Text(str[x]))})
             /\ op = "resize" => str'[x].size = last'.n /\ Bytes(str'[x]) < last'.n]_vars

\* Both functions tell well-formed strings that say the same from others, whatever
\* encodings they are in and whether or not their characters have been counted:
\* pwdgen_strcmp() by a zero, pwdgen_streq() by what it answers for a string and
\* itself.
ComparesText ==
  [][(Called("strcmp") \/ Called("streq")) /\ ~error' =>
       LET x == last'.slot
           y == last'.from
           equal == IF last'.op = "strcmp" THEN 0 ELSE pwdgen_streq(str[x], str[x], FALSE).rc
       IN  WellFormed(str[x]) /\ WellFormed(str[y]) =>
             (last'.rc = equal <=> Text(str[x]) = Text(str[y]))]_vars

\* pwdgen_streq() answers as the comment above it says: "Return 1 if strings are
\* equal, 0 otherwise."
EqualIsOne ==
  [][Called("streq") /\ ~error' =>
       LET x == last'.slot
           y == last'.from
       IN  WellFormed(str[x]) /\ WellFormed(str[y]) =>
             last'.rc = (IF Text(str[x]) = Text(str[y]) THEN 1 ELSE 0)]_vars

\* Reversing turns the order of the characters round and nothing else.  A copy
\* says what the original says.  Joining puts the second text behind the first,
\* in the encoding of the first where that is Unicode.
MovesText ==
  [][LET x == last'.slot
         y == last'.from
     IN  /\ Called("strrev") /\ last'.rc # -1 /\ WellFormed(str[x]) =>
              Text(str'[x]) = Reverse(Text(str[x]))
         /\ Called("strdup") /\ last'.rc = 0 /\ WellFormed(str[y]) =>
              Text(str'[x]) = Text(str[y]) /\ str'[x].enc = str[y].enc
         /\ Called("strcpy") /\ last'.rc = 0 /\ WellFormed(str[y]) =>
              Text(str'[x]) = Expressed(Text(str[y]), last'.enc, Replacement, FALSE)
         /\ Called("strcat") /\ last'.rc = 0 /\ WellFormed(str[x]) /\ WellFormed(str[y]) =>
              Text(str'[x]) = Text(str[x]) \o Expressed(Text(str[y]), str'[x].enc, Replacement, FALSE)]_vars

\* A case change that returns no error has given every character its case by
\* its place in the string, and has left the string alone if it returns zero.
CasesText ==
  [][(loop' = Idle /\ (loop # Idle \/ calls' # calls) /\ last'.op \in CaseOps /\ last'.rc # -1) =>
       LET was == IF loop = Idle THEN str[last'.slot] ELSE loop.was
       IN  WellFormed(was) =>
             /\ Text(str'[last'.slot]) = Recased(last'.op, was)
             /\ last'.rc = 0 => str'[last'.slot] = was]_vars

\* The loop is at a character whose other case takes another number of bytes.
Stuck ==
  /\ loop # Idle
  /\ Inside(loop)
  /\ \A turned \in {Turn([loop EXCEPT !.turn = turn]) : turn \in {1, 2}} : turned.answer.rc = -1
  /\ \E k \in DOMAIN Folding : Len(PutUtf8(Folding[k][1])) # Len(PutUtf8(Folding[k][2]))

\* A case change comes to its end, unless it is stuck.
CaseEnds == (loop # Idle) ~> (loop = Idle \/ Stuck)
=============================================================================
