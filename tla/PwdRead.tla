------------------------------- MODULE PwdRead -------------------------------
(***************************************************************************)
(* What the generator is configured from (pwdread.c): the table of the     *)
(* character sets in charsets.def, and the settings of a chunk or job      *)
(* description file.                                                       *)
(***************************************************************************)
EXTENDS PwdCfg

CONSTANT MAXPAIRS   \* the fields that a grouped set may have

-----------------------------------------------------------------------------
(* Character sets.  A set points to others by their places in the table.   *)

Types == << "simple", "grouped", "dictionary", "extract" >>

NewSet(id, type) == [id |-> id, type |-> type, chars |-> << >>, def |-> 0, pairs |-> << >>]

NewTable == [max |-> 0, sets |-> << >>, failed |-> FALSE]

\* The place of the first set with an id, 0 if there is none.
pwdgen_find_set(sets, id) ==
  LET hits == {i \in DOMAIN sets : sets[i].id = id} IN IF hits = {} THEN 0 ELSE Min(hits)

\* The types of the sets that a set may refer to; and a variant that takes any.
AnyType(type) == ToSet(Types)
Referable(type) == IF type = "grouped" THEN {"simple"} ELSE {"simple", "grouped"}

\* A field is a character or a reference to another set.  The definition itself
\* is in the table already, and can be found by its id.
Known(sets, line) == Append(sets, NewSet(line.id, line.type))

Refers(known, type, field) ==
  LET at == pwdgen_find_set(known, field.set)
  IN  field.legal /\ at # 0 /\ known[at].type \in Referable(type)

Sound(known, line) ==
  \A i \in DOMAIN line.fields :
    CASE line.type = "extract" -> TRUE
      [] line.type = "simple"  -> line.fields[i].legal
      [] OTHER                 -> Refers(known, line.type, line.fields[i])

\* In a grouped set position 0 is the default, the last of which counts.
Defaults(line) ==
  {i \in DOMAIN line.fields : line.type = "grouped" /\ line.fields[i].pos = 0}

IsPair(type, f) == type = "dictionary" \/ (type = "grouped" /\ f.pos # 0)

Paired(line) ==
  FoldLeft(LAMBDA pairs, f : IF IsPair(line.type, f) THEN Append(pairs, f) ELSE pairs,
           << >>, line.fields)

\* Only the pairs of a grouped set are counted.
Filled(known, line, defaults, paired) ==
  IF \/ ~Sound(known, line)
     \/ line.type = "grouped" /\ (defaults = {} \/ Len(paired) > MAXPAIRS)
  THEN Null
  ELSE [NewSet(line.id, line.type) EXCEPT
          !.chars = IF line.type = "simple" THEN Mapped(LAMBDA f : f.char, line.fields) ELSE @,
          !.def = IF defaults = {} THEN @ ELSE pwdgen_find_set(known, line.fields[Max(defaults)].set),
          !.pairs = Mapped(LAMBDA f : [pos |-> f.pos, set |-> pwdgen_find_set(known, f.set),
                                       startlen |-> f.min, endlen |-> f.max], paired)]

\* One set more than were declared is stored behind the table before it is refused.
Define(t, line) ==
  LET set == Filled(Known(t.sets, line), line, Defaults(line), Paired(line))
  IN  IF \/ t.max = 0
         \/ line.separator # ":"
         \/ line.id < 1 \/ line.id > 9999
         \/ pwdgen_find_set(t.sets, line.id) # 0
         \/ set = Null
         \/ Len(t.sets) = t.max
      THEN [t EXCEPT !.failed = TRUE]
      ELSE [t EXCEPT !.sets = Append(@, set)]

\* One line of charsets.def; a line that starts with anything else is ignored.
pwdgen_read_charset(t, line) ==
  CASE line.what = "ignored" -> t
    [] line.what = "too long" -> [t EXCEPT !.failed = TRUE]
    [] line.what = "count" -> [t EXCEPT !.max = line.n, !.failed = (line.n = 0)]
    [] line.what = "set" -> Define(t, line)

AllRead(t) == t.max # 0 /\ Len(t.sets) >= t.max

\* A set that is in no file: any byte, or a dictionary or an extraction without
\* anything to append.
pwdgen_virtual_set(id) ==
  LET type == Types[-id]
  IN  IF id \notin -4 .. -1 THEN Null
      ELSE [NewSet(id, type) EXCEPT !.chars = IF type = "simple" THEN [i \in 1 .. 256 |-> i - 1] ELSE @]

-----------------------------------------------------------------------------
(* Settings *)

\* pwd->encoding[] with its number of entries.
pwdgen_use_encoding(conf, enc) == [conf EXCEPT !.encodings = << enc >>]

pwdgen_add_encoding(conf, enc) ==
  IF Len(conf.encodings) >= 32 \/ enc \in ToSet(conf.encodings) THEN conf
  ELSE [conf EXCEPT !.encodings = Append(@, enc)]

pwdgen_use_encodings(conf, encs) == FoldLeft(pwdgen_add_encoding, conf, encs)

\* Two hex digits are a byte; the text ends at a zero byte.
h2a(digits) == [i \in 1 .. Len(digits) \div 2 |-> digits[2 * i - 1] * 16 + digits[2 * i]]
UpToZero(bytes) ==
  LET zeros == {i \in DOMAIN bytes : bytes[i] = 0}
  IN  IF zeros = {} THEN bytes ELSE SubSeq(bytes, 1, Min(zeros) - 1)

Prefixed(conf, bytes, enc) ==
  [conf EXCEPT !.prefix.units = bytes, !.prefix.chars = -1, !.prefix.enc = enc]

ConfigEncoding(cfg) ==
  IF Has(cfg, "config_encoding") THEN pwdgen_encoding_from_name(cfg["config_encoding"]) ELSE "UTF_8"

\* The hexadecimal prefix first, which the other one overwrites.
PrefixKeys(conf, cfg) ==
  LET legacy == IF Has(cfg, "password_prefix")
                THEN Prefixed(conf, UpToZero(h2a(cfg["password_prefix"])), "ISO_8859_1") ELSE conf
  IN  IF Has(cfg, "prefix")
      THEN [Prefixed(legacy, cfg["prefix"], ConfigEncoding(cfg)) EXCEPT
              !.error = @ \/ ConfigEncoding(cfg) = "INVALID"]
      ELSE legacy

Setting(cfg, key, default) == IF Has(cfg, key) THEN cfg[key] ELSE default

DictionaryKeys(conf, cfg) ==
  [conf EXCEPT !.dictionary = Setting(cfg, "dictionary", Setting(cfg, "dictionary_file", @)),
               !.ofs        = Setting(cfg, "dictionary_file_offset", @),
               !.mutations  = Setting(cfg, "dictionary_mutations", @),
               !.stages     = Setting(cfg, "dictionary_stages", @)]

\* The output encodings of a file that was read before are forgotten.
OutputKeys(conf, cfg) ==
  IF Has(cfg, "output_encoding")
  THEN pwdgen_use_encoding(conf, pwdgen_encoding_from_name(cfg["output_encoding"]))
  ELSE [conf EXCEPT !.encodings = << >>]

\* A setting that makes an error ends the call: the ones after it are not read.
EncodingKeys(conf, cfg) ==
  LET gen == pwdgen_encoding_from_name(cfg["input_encoding"])
  IN  CASE ~Has(cfg, "input_encoding") -> OutputKeys(conf, cfg)
        [] Has(cfg, "input_encoding") /\ gen = "INVALID" -> [conf EXCEPT !.gen = gen, !.error = TRUE]
        [] OTHER -> OutputKeys([conf EXCEPT !.gen = gen], cfg)

\* Variant of pwdgen_set_cfg_keys: a file without a prefix clears the prefix.
SetCfgKeysAnew(conf, cfg) ==
  EncodingKeys(DictionaryKeys(PrefixKeys(Prefixed(conf, << >>, "UTF_8"), cfg), cfg), cfg)

pwdgen_set_cfg_keys(conf, cfg) ==
  IF Has(cfg, "prefix") /\ ConfigEncoding(cfg) = "INVALID" THEN PrefixKeys(conf, cfg)
  ELSE EncodingKeys(DictionaryKeys(PrefixKeys(conf, cfg), cfg), cfg)

\* A job description file; Null when it is not read.
JobKeys == {"password_prefix", "prefix", "config_encoding", "dictionary_file",
            "dictionary_mutations", "dictionary_stages", "charset_id", "input_encoding",
            "output_encoding"}

pwdgen_readset(conf, cfg) ==
  IF cfg = Null \/ pwdcfg_valid_keys(cfg, JobKeys) # 0 THEN Null
  ELSE pwdgen_set_cfg_keys([conf EXCEPT !.id = Setting(cfg, "charset_id", @)], cfg)
=============================================================================
