------------------------------ MODULE Strings ------------------------------
(***************************************************************************)
(* The caller of pwd_conv.c: strings in a few variables, and the calls     *)
(* that make, change, join and compare them in any order.  One call is one *)
(* step, but for the case changes of UTF-8 strings, whose loops go one     *)
(* character at a time and may not come to an end.                         *)
(***************************************************************************)
EXTENDS PwdString

CONSTANTS
  Slots,      \* the variables of the caller that hold strings
  Inputs,     \* for each slot, records [units, enc]: the texts its string is made from
  Counts,     \* the numbers of characters and bytes it cuts strings to
  Locale,     \* pwd->locale
  MaxCalls    \* bound: the calls that are made

VARIABLES
  str,        \* the string of each slot
  error,      \* pwd->error
  loop,       \* the case change that is under way, or Idle
  last,       \* the last call, with its arguments and its return code
  calls       \* the number of calls made

vars == << str, error, loop, last, calls >>

Idle == [op |-> "idle"]
Made == {x \in Slots : str[x] # Null}

Call(op, x, n, enc) == 
  [op |-> op, slot |-> x, from |-> "", n |-> n, enc |-> enc, rc |-> 0]
CallWith(op, x, y, enc) == [Call(op, x, 0, enc) EXCEPT !.from = y]

Init ==
  /\ \E input \in [Slots -> UNION {Inputs[x] : x \in Slots} \union {Null}] :
       /\ \A x \in Slots : input[x] \in Inputs[x] \union {Null}
       /\ str = [x \in Slots |-> IF input[x] = Null THEN Null
                               ELSE pwdgen_string(input[x].units, input[x].enc, 0)]
  /\ error = FALSE
  /\ loop = Idle
  /\ last = Call("start", "", 0, "")
  /\ calls = 0

\* The caller is not in a loop and makes one more call.
Calls ==
  /\ loop = Idle
  /\ calls < MaxCalls
  /\ calls' = calls + 1

Returns(call, answer) ==
  /\ str' = [str EXCEPT ![call.slot] = answer.str]
  /\ error' = (error \/ answer.err)
  /\ last' = [call EXCEPT !.rc = answer.rc]
  /\ UNCHANGED loop

-----------------------------------------------------------------------------
(* Calls on one string *)

NewStringCall(x) ==
  \E size \in {0, 16}, enc \in {"UTF_8", "UTF_16"} :
    /\ Calls /\ str[x] = Null
    /\ Returns(Call("new", x, size, enc),
               IF size = 0 THEN Answer(Null, 0, TRUE)
               ELSE Answer(NewString(<< >>, enc, 0, size), 0, FALSE))

DecodeString(x) ==
  \E i \in Inputs[x], enc \in Encodings :
    /\ Calls /\ str[x] = Null
    /\ Returns(Call("decode", x, 0, enc), pwdgen_decode_string(i.units, i.enc, enc, error))

\* A static string is freed all the same.
FreeString(x) ==
  /\ Calls /\ x \in Made
  /\ Returns(Call("free", x, 0, ""), Answer(Null, 0, "static" \in str[x].flags))

EmptyString(x) ==
  /\ Calls /\ x \in Made
  /\ Returns(Call("empty", x, 0, ""),
             IF str[x].flags \intersect {"invalid", "read_only"} # {} THEN Refused(str[x])
             ELSE Done([str[x] EXCEPT !.units = << >>, !.chars = 0]))

CheckString(x) ==
  /\ Calls /\ x \in Made
  /\ Returns(Call("check", x, 0, ""), pwdgen_check_string(str[x]))

Strlen(x) ==
  /\ Calls /\ x \in Made
  /\ Returns(Call("strlen", x, 0, ""), pwdgen_strlen(str[x]))

\* The macros that set a flag.
MakeString(x) ==
  \E flag \in {"static", "read_only"} :
    /\ Calls /\ x \in Made
    /\ Returns(Call("flag", x, 0, ""), Done([str[x] EXCEPT !.flags = @ \union {flag}]))

ConvertTo(x) ==
  \E enc \in Encodings, replace \in {Replacement, 0} :
    /\ Calls /\ x \in Made /\ (replace = 0 => enc \in SingleByte)
    /\ Returns(Call("convert", x, replace, enc), pwdgen_convert_to(str[x], enc, replace, error))

\* The string is converted in place, to whatever its conversion gives.
PrintString(x) ==
  /\ Calls /\ x \in Made
  /\ Returns(Call("convert", x, 63, Locale),
             IF str[x].enc = Locale THEN Done(str[x])
             ELSE pwdgen_convert_to(str[x], Locale, 63, error))

\* Obligation: a string of single bytes that resizing has cut is counted before
\* it is truncated, or it is not made longer.
TruncateString(x) ==
  \E n \in Counts :
    /\ Calls /\ x \in Made
    /\ str[x].chars = -1 /\ str[x].enc # "UTF_8" => n <= Len(str[x].units)
    /\ Returns(Call("truncate", x, n, ""), pwdgen_truncate_string(str[x], n))

\* Obligation: the new buffer has room for the zero unit at the end.
ResizeString(x) ==
  \E n \in Counts :
    LET unit == UnitSize(str[x].enc)
    IN  /\ Calls /\ x \in Made
        /\ n >= unit /\ n \notin Bytes(str[x]) + 1 .. Bytes(str[x]) + unit - 1
        /\ Returns(Call("resize", x, n, ""), pwdgen_resize_string(str[x], n))

\* Obligation: the string does not start with a continuation byte.
Strrev(x) ==
  /\ Calls /\ x \in Made
  /\ str[x].enc = "UTF_8" /\ str[x].units # << >> => str[x].units[1] \notin Continuation
  /\ Returns(Call("strrev", x, 0, ""), pwdgen_strrev(str[x], error))

-----------------------------------------------------------------------------
(* Calls on two strings *)

StrcpyCall(x, y) ==
  \E enc \in Encodings :
    /\ Calls /\ x \in Made /\ str[y] = Null
    /\ Returns(CallWith("strcpy", y, x, enc), pwdgen_strcpy(str[x], enc, error))

Strdup(x, y) ==
  /\ Calls /\ {x, y} \subseteq Made
  /\ Returns(CallWith("strdup", x, y, ""), pwdgen_strdup(str[x], str[y]))

\* The buffer grows by the bytes of the second string as it is, which may take
\* more of them in the encoding of the first.
Outgrown(first, second) ==
  LET up == Upgraded(first, error).str
      s  == Fitting(up, second, error).str
  IN  s # Null /\ Bytes(up) + Bytes(s) + 1
                    > Larger(RoundUp(Bytes(up) + Bytes(second) + 1), up.size)

\* Obligations: a second string in another encoding fits once it is converted,
\* and its characters have been counted.
Strcat(x, y) ==
  /\ Calls /\ {x, y} \subseteq Made
  /\ str[x].enc # str[y].enc /\ str[x].units # << >> =>
       ~Outgrown(str[x], str[y]) /\ str[y].chars # -1
  /\ Returns(CallWith("strcat", x, y, ""), pwdgen_strcat(str[x], str[y], error))

Compares(op, x, y, answer) ==
  /\ str' = [str EXCEPT ![x] = answer.first, ![y] = answer.second]
  /\ error' = (error \/ answer.err)
  /\ last' = [CallWith(op, x, y, "") EXCEPT !.rc = answer.rc]
  /\ UNCHANGED loop

Strcmp(x, y) ==
  /\ Calls /\ {x, y} \subseteq Made
  /\ Compares("strcmp", x, y, pwdgen_strcmp(str[x], str[y], error))

Streq(x, y) ==
  /\ Calls /\ {x, y} \subseteq Made
  /\ Compares("streq", x, y, pwdgen_streq(str[x], str[y], error))

-----------------------------------------------------------------------------
(* Case changes *)

Recasable(x) == x \in Made /\ "invalid" \notin str[x].flags /\ ~error

\* Refused for an invalid string, after an error, and where there is no table.
RecaseRefused(x) ==
  \E op \in CaseOps :
    /\ Calls /\ x \in Made
    /\ ~Recasable(x) \/ str[x].enc \notin {"UTF_8", "ISO_8859_1", "ISO_8859_15"}
    /\ Returns(Call(op, x, 0, ""), Refused(str[x]))

\* Obligation: there is a first and a last character.
RecaseBytes(x) ==
  \E op \in CaseOps :
    /\ Calls /\ Recasable(x)
    /\ str[x].enc \in {"ISO_8859_1", "ISO_8859_15"} /\ str[x].units # << >>
    /\ Returns(Call(op, x, 0, ""), SingleByteCase(str[x], op))

\* before is the character that the loop has seen last; was is what the string
\* is when the loop begins.
RecaseUtf8(x) ==
  \E op \in CaseOps :
    /\ Calls /\ Recasable(x)
    /\ str[x].enc = "UTF_8" /\ str[x].units # << >>
    /\ loop' = [op |-> op, slot |-> x, ofs |-> 1, before |-> 1, turn |-> 0, rc |-> 0,
                was |-> str[x]]
    /\ UNCHANGED << str, error, last >>

\* rc |= the return code of one character
OrRc(rc, new) == IF -1 \in {rc, new} THEN -1 ELSE Larger(rc, new)

Inside(l) == l.ofs <= Len(str[l.slot].units)
Turn(l)   == OtherCase(str[l.slot], l.ofs, Mode(l.op, l.turn, str[l.slot].units[l.ofs]))

\* The last character in its own case, after the loop.
LastTurn(l) ==
  LET s == str[l.slot]
  IN  IF l.op \in LastOps /\ s.enc = "UTF_8"
      THEN OtherCase(s, l.before, LastMode(l.op)).answer ELSE Done(s)

RecaseChar ==
  /\ loop # Idle
  /\ Inside(loop)
  /\ \E turned \in {Turn(loop)} :
       /\ str' = [str EXCEPT ![loop.slot] = turned.answer.str]
       /\ error' = (error \/ turned.answer.err)
       /\ loop' = [loop EXCEPT !.ofs = turned.next, !.before = loop.ofs,
                               !.turn = NextTurn(@), !.rc = OrRc(@, turned.answer.rc)]
  /\ UNCHANGED << last, calls >>

\* The last character gets its own case when the loop has passed it.
RecaseReturn ==
  /\ loop # Idle
  /\ ~Inside(loop)
  /\ \E answer \in {LastTurn(loop)} :
       /\ str' = [str EXCEPT ![loop.slot] = answer.str]
       /\ error' = (error \/ answer.err)
       /\ last' = [Call(loop.op, loop.slot, 0, "") EXCEPT !.rc = OrRc(loop.rc, answer.rc)]
  /\ loop' = Idle
  /\ UNCHANGED calls

-----------------------------------------------------------------------------
Single(x) ==
  \/ NewStringCall(x) \/ DecodeString(x) \/ FreeString(x) \/ EmptyString(x)
  \/ CheckString(x) \/ Strlen(x) \/ MakeString(x) \/ ConvertTo(x) \/ PrintString(x)
  \/ TruncateString(x) \/ ResizeString(x) \/ Strrev(x)
  \/ RecaseRefused(x) \/ RecaseBytes(x) \/ RecaseUtf8(x)

Double(x, y) ==
  x # y /\ (StrcpyCall(x, y) \/ Strdup(x, y) \/ Strcat(x, y) \/ Strcmp(x, y) \/ Streq(x, y))

Next ==
  \/ \E x \in Slots : Single(x)
  \/ \E x, y \in Slots : Double(x, y)
  \/ RecaseChar
  \/ RecaseReturn

\* A loop that has begun goes on.
Fairness == WF_vars(RecaseChar \/ RecaseReturn)

Spec == Init /\ [][Next]_vars /\ Fairness

=============================================================================
