------------------------------- MODULE PwdCfg -------------------------------
(***************************************************************************)
(* Configuration files: what pwdcfg.c reads from one and how its keys are  *)
(* asked for.  A file is a sequence of lines, each said to be what the     *)
(* scanner of pwdcfg_read() takes it for; a list of keys is a function     *)
(* from names to values, Null where there is none.                         *)
(***************************************************************************)
EXTENDS PwdString

\* A name is tried here, one directory up and two directories up.
pwdgen_find_file(copies) ==
  LET found == {i \in DOMAIN copies : copies[i] # Null}
  IN  IF found = {} THEN Null ELSE copies[Min(found)]

Has(cfg, key) == cfg # Null /\ key \in DOMAIN cfg

pwdcfg_find_key(cfg, key) == IF Has(cfg, key) THEN cfg[key] ELSE Null

\* Comments and empty lines are passed over; a line without a name or without a
\* value, one that is too long and a name that was there before end the reading.
Unreadable(lines, pairs) ==
  \/ \E i \in DOMAIN lines : lines[i].what \in {"no value", "no name", "too long"}
  \/ \E i, j \in DOMAIN pairs : i # j /\ pairs[i].key = pairs[j].key

Extract(lines, pairs) ==
  IF Unreadable(lines, pairs) THEN Null
  ELSE [key \in {pairs[i].key : i \in DOMAIN pairs} |->
          pairs[CHOOSE i \in DOMAIN pairs : pairs[i].key = key].value]

pwdcfg_read(copies) ==
  LET file == pwdgen_find_file(copies)
  IN  IF file = Null THEN Null ELSE Extract(file, SelectSeq(file, LAMBDA l : l.what = "pair"))

\* The number of keys that are not in the list of valid ones.
pwdcfg_valid_keys(cfg, names) == IF cfg = Null THEN 0 ELSE Cardinality(DOMAIN cfg \ names)

pwdcfg_as_int(cfg, key) == IF Has(cfg, key) THEN cfg[key] ELSE 0

-----------------------------------------------------------------------------
(* Names of encodings *)

\* The name in the table, up to the first space and without CP.
_encoding_names(enc) ==
  CASE enc = "ASCII" -> "ASCII"            [] enc = "ISO_8859_1" -> "ISO-8859-1"
    [] enc = "ISO_8859_15" -> "ISO-8859-15" [] enc = "UTF_8" -> "UTF-8"
    [] enc = "UTF_16" -> "UTF-16"          [] enc = "UTF_32" -> "UTF-32"
    [] enc = "INVALID" -> "INVALID"

\* Only the capital letters at the start of a name are also tried in lower case.
Lowered(enc) ==
  CASE enc = "ASCII" -> "ascii"            [] enc = "ISO_8859_1" -> "iso-8859-1"
    [] enc = "ISO_8859_15" -> "iso-8859-15" [] enc = "UTF_8" -> "utf-8"
    [] enc = "UTF_16" -> "utf-16"          [] enc = "UTF_32" -> "utf-32"
    [] enc = "INVALID" -> "invalid"

pwdgen_encoding_from_name(name) ==
  LET named == {enc \in Encodings : name \in {_encoding_names(enc), Lowered(enc)}}
  IN  CASE name \in {"C", "POSIX"} -> "ASCII"
        [] name = "euro" -> "ISO_8859_15"
        [] name \in {"utf8", "utf-8"} -> "UTF_8"
        [] name \in {"latin", "latin1", "Latin1", "CP819", "cp819", "IBM819", "ibm819", "l1"} ->
             "ISO_8859_1"
        [] name \in {"wchar_t", "WCHAR_T"} -> "UTF_16"
        [] OTHER -> IF named = {} THEN "INVALID" ELSE CHOOSE enc \in named : TRUE

\* A locale language.charset@modifier is known by the last of these that it has,
\* a list of categories by its first.
pwdgen_parse_locale(locale) ==
  CASE locale = "" -> "ASCII"
    [] locale # "" -> pwdgen_encoding_from_name(locale)

LastPart(locale) ==
  CASE locale.modifier # "" -> locale.modifier
    [] locale.modifier = "" /\ locale.charset # "" -> locale.charset
    [] OTHER -> locale.language

pwdgen_query_locale(locale) ==
  LET enc == pwdgen_parse_locale(LastPart(locale))
  IN  IF enc = "INVALID" THEN "ASCII" ELSE enc
=============================================================================
