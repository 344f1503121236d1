------------------------------- MODULE Config -------------------------------
(***************************************************************************)
(* How a worker gets ready: init() of main.c reads the command line and    *)
(* the chunk description file, pwdgen_init() the character sets and, where *)
(* the set is named by one, a job description file; the worker's           *)
(* initfunction() may ask for encodings, and pwdgen_finalize() makes the   *)
(* first password.  The files and the worker are the environment.          *)
(*                                                                         *)
(* Files hold values as the C code takes them: hex digits and the bytes of *)
(* a text as sequences of numbers, numbers as numbers, bit masks as the    *)
(* sets of the numbers of their bits, names as strings.                    *)
(***************************************************************************)
EXTENDS PwdRead, StringMeaning

CONSTANTS
  Charsets,      \* the lines that charsets.def may have
  ChunkFiles,    \* what may be found at the three places of a chunk description file
  CommandLines,  \* firstkey, lastkey and pwdset on a command line
  JobFiles,      \* as ChunkFiles, for a job description file
  Dictionaries,  \* the words of the dictionary files that exist
  Locales,
  InitFunctions, \* what the worker does: [does, encs]
  MaxBit         \* bound on first_mutation

(***************************************************************************)
(* What the scanners make of the files and what a worker asks for: hex     *)
(* digits, bit numbers, fields of a set in the order of the line, a type   *)
(* for every set (a line that names none is not taken for one), and        *)
(* members of the enumeration of the encodings. A count of sets with a     *)
(* sign, which atoi() would take, is left out.                             *)
(***************************************************************************)
HexDigits == Seq(0 .. 15)

Fields == [legal : BOOLEAN, char : 0 .. 255, set : Int, pos : Int, min : Int, max : Int]

CharsetLines ==
  [what : {"ignored", "too long", "count", "set"}, type : ToSet(Types) \union {""}, id : Int,
   separator : STRING, fields : Seq(Fields), n : Nat]

Scanned(keys) ==
  keys # Null =>
    /\ IsFiniteSet(DOMAIN keys)
    /\ Setting(keys, "start", << >>) \in HexDigits /\ Setting(keys, "end", << >>) \in HexDigits
    /\ Setting(keys, "dictionary_mutations", {}) \subseteq 0 .. MaxBit - 1

\* A dictionary or an extraction without mutations has one, the word itself.
DICT_ORIGINAL == 10

ASSUME ConfigAssumption ==
  /\ MAXPAIRS \in Nat /\ MaxBit \in Nat /\ DICT_ORIGINAL < MaxBit
  /\ \A i \in DOMAIN Charsets :
       Charsets[i] \in CharsetLines /\ (Charsets[i].what = "set" => Charsets[i].type # "")
  /\ \A i \in DOMAIN ChunkFiles : Scanned(pwdcfg_read(ChunkFiles[i]))
  /\ \A i \in DOMAIN JobFiles : Scanned(pwdcfg_read(JobFiles[i]))
  /\ \A i \in DOMAIN CommandLines :
       CommandLines[i].start \in HexDigits /\ CommandLines[i].end \in HexDigits
  /\ \A i \in DOMAIN InitFunctions :
       /\ InitFunctions[i].does \in {"nothing", "fails", "one", "more"}
       /\ InitFunctions[i].encs \in Seq(Encodings)
       /\ InitFunctions[i].does = "one" => InitFunctions[i].encs # << >>

VARIABLES
  phase,         \* what is to be done next, or how it ended
  table,         \* pwdgen_read_charsets(): the sets
  call,          \* the arguments of pwdgen_init()
  job,           \* the keys of the job description file, Null without one
  conf,          \* the generator
  code           \* the exit code of the process

vars == << phase, table, call, job, conf, code >>

NoCall == [start |-> << >>, end |-> << >>, set |-> [plain |-> TRUE, id |-> 0], keys |-> Null]

\* The defaults of pwdgen_init().
NewConf(locale) ==
  [id |-> 0, type |-> "none", prefix |-> NewString(<< >>, "UTF_8", 0, 1536), cur |-> Null,
   gen |-> "ISO_8859_1", encodings |-> << >>, dictionary |-> "not set", ofs |-> 0,
   mutations |-> {}, stages |-> {}, first |-> 1, todo |-> {}, locale |-> locale, error |-> FALSE]

Init ==
  /\ phase = "args" /\ table = NewTable /\ call = NoCall /\ job = Null
  /\ conf = NewConf("ASCII") /\ code = 0

PWD_ERROR == 7

Refuse == phase' = "refused" /\ code' = PWD_ERROR
Exit(c) == phase' = "exited" /\ code' = c
Goto(p) == phase' = p /\ UNCHANGED code

-----------------------------------------------------------------------------
(* The command line *)

\* Without a charset_id the charset_type names a set that is in no file.
SetOf(keys) ==
  LET type == Setting(keys, "charset_type", "none")
      k    == SelectInSeq(Types, LAMBDA t : t = type)
  IN  Setting(keys, "charset_id", [plain |-> TRUE, id |-> -k])

CallWithFile ==
  /\ phase = "args"
  /\ \E i \in DOMAIN ChunkFiles :
       LET keys == pwdcfg_read(ChunkFiles[i])
       IN  IF keys = Null THEN Refuse /\ UNCHANGED call
           ELSE /\ call' = [start |-> Setting(keys, "start", << >>), end |-> Setting(keys, "end", << >>),
                            set |-> SetOf(keys), keys |-> keys]
                /\ Goto("charsets")
  /\ UNCHANGED << table, job, conf >>

CallDirect ==
  /\ phase = "args"
  /\ \E i \in DOMAIN CommandLines :
       LET args == CommandLines[i]
       IN  call' = [start |-> args.start, end |-> args.end, set |-> args.set, keys |-> Null]
  /\ Goto("charsets")
  /\ UNCHANGED << table, job, conf >>

CallWrong == phase = "args" /\ Refuse /\ UNCHANGED << table, call, job, conf >>

\* --identify: a file that is not there or that the worker does not know is 3.
Identify == phase = "args" /\ (Exit(0) \/ Exit(3)) /\ UNCHANGED << table, call, job, conf >>

-----------------------------------------------------------------------------
(* pwdgen_init() *)

\* Obligation: the sets are counted once, before the first of them.
ReadLine ==
  /\ phase = "charsets" /\ ~table.failed
  /\ \E i \in DOMAIN Charsets :
       /\ Charsets[i].what = "count" => table.max = 0
       /\ table' = pwdgen_read_charset(table, Charsets[i])
  /\ UNCHANGED << phase, call, job, conf, code >>

EndOfSets ==
  /\ phase = "charsets"
  /\ IF table.failed \/ ~AllRead(table) THEN Refuse ELSE Goto("keys")
  /\ UNCHANGED << table, call, job, conf >>

ReadKeys ==
  /\ phase = "keys"
  /\ \E locale \in Locales :
       conf' = pwdgen_set_cfg_keys(NewConf(pwdgen_query_locale(locale)), call.keys)
  /\ Goto("set")
  /\ UNCHANGED << table, call, job >>

PlainSet ==
  /\ phase = "set" /\ call.set.plain
  /\ conf' = [conf EXCEPT !.id = call.set.id]
  /\ Goto("find")
  /\ UNCHANGED << table, call, job >>

ReadJob ==
  /\ phase = "set" /\ ~call.set.plain
  /\ \E i \in DOMAIN JobFiles :
       LET keys == pwdcfg_read(JobFiles[i])
           read == pwdgen_readset(conf, keys)
       IN  IF read = Null THEN Refuse /\ UNCHANGED << job, conf >>
           ELSE conf' = read /\ job' = keys /\ Goto("find")
  /\ UNCHANGED << table, call >>

\* The set of the generator, Null if there is none.
ChosenSet(id) ==
  LET at == pwdgen_find_set(table.sets, id)
  IN  IF id < 0 THEN pwdgen_virtual_set(id) ELSE IF at = 0 THEN Null ELSE table.sets[at]

\* Obligation: no virtual grouped set, whose default set is what malloc() left.
FindSet ==
  /\ phase = "find" /\ conf.id # -2
  /\ LET set == ChosenSet(conf.id)
     IN  IF set = Null THEN Refuse /\ UNCHANGED conf
         ELSE /\ conf' = [conf EXCEPT !.type = set.type]
              /\ Goto(IF set.type \in {"simple", "grouped"} THEN "tables" ELSE "mutations")
  /\ UNCHANGED << table, call, job >>

\* The columns of a set, as in Keyspace.
K(sets, set) == INSTANCE Keyspace WITH
  SetType <- IF set.type = "simple" THEN "SIMPLE" ELSE "GROUPED",
  Default <- IF set.type = "simple" THEN set.chars ELSE sets[set.def].chars,
  Pairs <- [j \in DOMAIN set.pairs |-> [pos |-> set.pairs[j].pos, chars |-> sets[set.pairs[j].set].chars]],
  MAXCHARS <- 256, PWD_LEN <- 256

DefaultEncoding(enc) == [conf EXCEPT !.encodings = IF @ = << >> THEN << enc >> ELSE @]

\* A SIMPLE or GROUPED set: both passwords must be made of its characters.
CheckPasswords ==
  /\ phase = "tables"
  /\ conf' = DefaultEncoding("ISO_8859_1")
  /\ LET start == h2a(call.start)
         end   == h2a(call.end)
         set   == ChosenSet(conf.id)
     IN  IF Len(end) < Len(start) \/ ~K(table.sets, set)!Legal(end) \/ ~K(table.sets, set)!Legal(start)
         THEN Refuse ELSE Goto("first")
  /\ UNCHANGED << table, call, job >>

\* Variant of TodoMutations: the default is forgotten.
TodoAsRead(mutations) == mutations

TodoMutations(mutations) == IF mutations = {} THEN {DICT_ORIGINAL} ELSE mutations

StartMutations ==
  /\ phase = "mutations"
  /\ conf' = [conf EXCEPT !.stages = IF @ = {} THEN {0} ELSE @,
                          !.mutations = TodoMutations(@), !.todo = TodoMutations(conf.mutations)]
  /\ Goto("shift")
  /\ UNCHANGED << table, call, job >>

\* The number of the lowest bit that is set is looked for, counted from 1.
ShiftBit ==
  /\ phase = "shift" /\ 0 \notin conf.todo
  /\ conf' = [conf EXCEPT !.first = Min({@ + 1, MaxBit}), !.todo = {bit - 1 : bit \in @}]
  /\ UNCHANGED << phase, table, call, job, code >>

ShiftDone ==
  /\ phase = "shift" /\ 0 \in conf.todo
  /\ Goto(conf.type)
  /\ UNCHANGED << table, call, job, conf >>

\* The set of an extraction that is not in UTF-8 is looked up; that it must be
\* named ends the process.
InitExtract ==
  /\ phase = "extract"
  /\ LET named == Has(call.keys, "extractset_id")
         at    == pwdgen_find_set(table.sets, pwdcfg_as_int(call.keys, "extractset_id"))
         utf8  == pwdcfg_as_int(call.keys, "extract_utf8") = 1
         enc   == IF utf8 THEN "UTF_8" ELSE "ISO_8859_1"
     IN  /\ conf' = [DefaultEncoding(enc) EXCEPT !.gen = enc]
         /\ CASE ~utf8 /\ ~named -> Exit(1)
              [] ~utf8 /\ named /\ (at = 0 \/ table.sets[at].type # "simple") -> Refuse
              [] OTHER -> Goto("first")
  /\ UNCHANGED << table, call, job >>

\* The line with the start word, which is done already unless it is the first.
pwddict_fastforward(words, ofs, start) ==
  \E i \in ofs + 1 .. Len(words) :
    start \in {<< >>, words[i]} /\ (start = << >> \/ i = 1 \/ i < Len(words))

InitDictionary ==
  /\ phase = "dictionary"
  /\ conf' = [DefaultEncoding("UTF_8") EXCEPT !.gen = "UTF_8"]
  /\ IF /\ conf.dictionary \in DOMAIN Dictionaries
        /\ pwddict_fastforward(Dictionaries[conf.dictionary], conf.ofs, h2a(call.start))
     THEN Goto("first") ELSE Refuse
  /\ UNCHANGED << table, call, job >>

-----------------------------------------------------------------------------
(* The first password *)

Convert(s, enc, err) == pwdgen_convert_to(s, enc, Replacement, err)

WithPrefix(c, converted) == [c EXCEPT !.prefix = converted.str, !.error = @ \/ converted.err]

\* The prefix is printed, which leaves it in the encoding of the locale.
Printed(c) ==
  IF c.prefix.units = << >> \/ c.prefix.enc = c.locale THEN c
  ELSE WithPrefix(c, Convert(c.prefix, c.locale, FALSE))

FirstString ==
  /\ phase = "first"
  /\ conf' = [IF conf.error THEN conf ELSE Printed(conf) EXCEPT
                !.cur = pwdgen_string(h2a(call.start), conf.gen, 1028)]
  /\ IF conf.error THEN Refuse ELSE Goto("user")
  /\ UNCHANGED << table, call, job >>

InitFunction ==
  /\ phase = "user"
  /\ \E i \in DOMAIN InitFunctions :
       LET f == InitFunctions[i]
       IN  /\ conf' = CASE f.does = "one" -> pwdgen_use_encoding(conf, f.encs[1])
                        [] f.does = "more" -> pwdgen_use_encodings(conf, f.encs)
                        [] f.does \in {"nothing", "fails"} -> conf
           /\ IF f.does = "fails" \/ conf.error THEN Refuse ELSE Goto("finalize")
  /\ UNCHANGED << table, call, job >>

\* The password behind the prefix; and a variant that does not look at the
\* encoding of the prefix.
RawBehind(c, copy, pwd) == Done([copy EXCEPT !.units = @ \o pwd, !.chars = -1])
PutBehindRaw(c, copy, pwd) == RawBehind(c, copy, pwd)

PutBehind(c, copy, pwd) ==
  IF c.gen = c.prefix.enc THEN RawBehind(c, copy, pwd)
  ELSE pwdgen_strcat(copy, pwdgen_string(pwd, c.gen, 1536), c.error)

\* pwdgen_update_cur(pwd, 1) for the first encoding.
WithCur(c, final, failed) == [c EXCEPT !.cur = final.str, !.error = @ \/ failed \/ final.err]

Encoded(c, joined) ==
  WithCur(c, Convert(joined.str, c.encodings[1], c.error \/ joined.err), joined.err)

pwdgen_update_cur(c, pwd) ==
  Encoded(c, IF c.prefix.units # << >> THEN PutBehind(c, pwdgen_strdup(c.cur, c.prefix).str, pwd)
             ELSE Done([c.cur EXCEPT !.units = pwd, !.chars = -1, !.enc = c.gen]))

OnePrefix(c) ==
  IF Len(c.encodings) # 1 \/ c.gen = c.prefix.enc THEN c
  ELSE WithPrefix(c, Convert(c.prefix, c.gen, c.error))

\* Without a prefix and a conversion cur is another name for the password.
First(c) ==
  IF c.prefix.units = << >> /\ c.gen = c.encodings[1] THEN c
  ELSE pwdgen_update_cur(c, h2a(call.start))

\* Variant of Ended: errors on the way to the first password are not seen.
EndedAnyway(c) == TRUE
Ended(c) == ~c.error

pwdgen_finalize ==
  /\ phase = "finalize"
  /\ conf' = First(OnePrefix(conf))
  /\ IF Ended(conf') THEN Goto("ready") ELSE Refuse
  /\ UNCHANGED << table, call, job >>

-----------------------------------------------------------------------------
Next ==
  \/ CallWithFile \/ CallDirect \/ CallWrong \/ Identify
  \/ ReadLine \/ EndOfSets \/ ReadKeys \/ PlainSet \/ ReadJob \/ FindSet
  \/ CheckPasswords \/ StartMutations \/ ShiftBit \/ ShiftDone \/ InitExtract \/ InitDictionary
  \/ FirstString \/ InitFunction \/ pwdgen_finalize

\* The one loop that is not over a file: it goes on once it has begun.
Fairness == WF_vars(ShiftBit \/ ShiftDone)

Spec == Init /\ [][Next]_vars /\ Fairness

-----------------------------------------------------------------------------
(* Properties *)

\* The sets that a set uses are before it in the table and have a type that it
\* may refer to.  (The pairs of a dictionary set are not counted.)
Uses(set) == {set.pairs[j].set : j \in DOMAIN set.pairs} \union ({set.def} \ {0})

WellReferred(sets, i) ==
  LET set == sets[i]
  IN  /\ \A u \in Uses(set) :
           /\ u \in 1 .. i - 1
           /\ sets[u].type \in (IF set.type = "grouped" THEN {"simple"} ELSE {"simple", "grouped"})
      /\ set.type \in {"simple", "extract"} => Uses(set) = {}
      /\ set.type = "grouped" => set.def # 0 /\ Len(set.pairs) <= MAXPAIRS

\* Every set that was read has an id of its own, and refers only to sets that
\* were read before it and have a type that it may refer to: what the
\* generators rely on when they follow the pointers without a look at the type.
SetsSound ==
  ~table.failed =>
    /\ Len(table.sets) <= table.max
    /\ \A i \in DOMAIN table.sets :
         /\ table.sets[i].id > 0
         /\ \A j \in DOMAIN table.sets : table.sets[j].id = table.sets[i].id => j = i
         /\ WellReferred(table.sets, i)

\* A key of the last file that has it, in the order in which they are read.
Latest(key, default) ==
  IF Has(job, key) THEN job[key] ELSE Setting(call.keys, key, default)

PrefixIn(cfg) ==
  CASE Has(cfg, "prefix") -> << cfg["prefix"], ConfigEncoding(cfg) >>
    [] ~Has(cfg, "prefix") /\ Has(cfg, "password_prefix") ->
         << UpToZero(h2a(cfg["password_prefix"])), "ISO_8859_1" >>
    [] OTHER -> << << >>, "UTF_8" >>

HasPrefix(cfg) == Has(cfg, "prefix") \/ Has(cfg, "password_prefix")

GivenPrefix == IF HasPrefix(job) THEN PrefixIn(job) ELSE PrefixIn(call.keys)

\* The prefix of the one file that has one, and that of either where both have one.
GivenPrefixes == {GivenPrefix, IF HasPrefix(call.keys) THEN PrefixIn(call.keys) ELSE GivenPrefix}

\* What a setting can be, if it is that of the one file that has the key, and of
\* either file where both have it.
Either(key, default) ==
  {Latest(key, default), Setting(call.keys, key, Latest(key, default))}

DictionaryIn(default) == Setting(call.keys, "dictionary", Setting(call.keys, "dictionary_file", default))

\* When both files are read every setting is that of a file that has it, whichever
\* of the two was read first, and a prefix comes with the encoding of its own
\* file.  Which file precedes is said by ChunkFilePrecedes; what becomes of an
\* output encoding that only the chunk description file has, by OutputKept.
Layered ==
  (phase = "find" /\ ~conf.error) =>
    /\ << conf.prefix.units, conf.prefix.enc >> \in GivenPrefixes
    /\ conf.mutations \in Either("dictionary_mutations", {})
    /\ conf.stages \in Either("dictionary_stages", {})
    /\ LET given == DictionaryIn("not set")
       IN  conf.dictionary \in {Setting(job, "dictionary_file", given),
                                DictionaryIn(Setting(job, "dictionary_file", given))}
    /\ conf.gen \in {pwdgen_encoding_from_name(name) : name \in Either("input_encoding", "ISO-8859-1")}
    /\ LET last == IF job = Null THEN call.keys ELSE job
       IN  job = Null \/ Has(job, "output_encoding") =>
             conf.encodings = IF Has(last, "output_encoding")
                              THEN << pwdgen_encoding_from_name(last["output_encoding"]) >> ELSE << >>

\* Of the keys that both files may have: "If they are specified in both files, then
\* CDF takes precedence" (Config.pod), the chunk description file.
ChunkFilePrecedes ==
  (phase = "find" /\ ~conf.error) =>
    /\ HasPrefix(call.keys) =>
         << conf.prefix.units, conf.prefix.enc >> = PrefixIn(call.keys)
    /\ conf.mutations = Setting(call.keys, "dictionary_mutations", conf.mutations)
    /\ conf.stages = Setting(call.keys, "dictionary_stages", conf.stages)
    /\ conf.dictionary = DictionaryIn(conf.dictionary)

\* The output encoding of a chunk description file, the "list of the encodings that
\* each password should be produced in" (Config.pod), is not lost when the set is
\* named by a job description file without one.
OutputKept ==
  (phase = "find" /\ ~conf.error /\ ~Has(job, "output_encoding")
   /\ Has(call.keys, "output_encoding")) =>
    conf.encodings = << pwdgen_encoding_from_name(call.keys["output_encoding"]) >>

\* "Specify the encoding of the input passwords, either for the dictionary file ..."
\* (Config.pod on input_encoding, UTF-8 by default): the words of a dictionary are
\* taken to be in it.
DictionaryEncoding ==
  phase = "ready" /\ conf.type = "dictionary" =>
    conf.gen = pwdgen_encoding_from_name(Latest("input_encoding", "UTF-8"))

\* A generator that is ready has no error behind it, knows in what encodings it
\* makes its passwords, starts from passwords that its set has, and begins with
\* the first of its mutations.
StartsSound ==
  phase = "ready" =>
    /\ ~conf.error
    /\ conf.gen \in Encodings
    /\ conf.encodings # << >> /\ ToSet(conf.encodings) \subseteq Encodings
    /\ Cardinality(ToSet(conf.encodings)) = Len(conf.encodings)
    /\ conf.type \in {"simple", "grouped"} =>
         \A w \in {h2a(call.start), h2a(call.end)} :
           w \in Seq(0 .. 255) /\ K(table.sets, ChosenSet(conf.id))!Legal(w)
    /\ conf.type \in {"dictionary", "extract"} =>
         conf.first - 1 \in conf.mutations /\ \A bit \in conf.mutations : conf.first - 1 <= bit

\* The conversions that pwd_conv.c has.
Convertible(from, to) ==
  \/ from = to
  \/ "UTF_8" \in {from, to}
  \/ "ASCII" \in {from, to} /\ {from, to} \subseteq SingleByte
  \/ from \in SingleByte \ {"ASCII"} /\ to \in Wide

\* The text can be said in each of the encodings, and taken from one to the next.
Passes(text, encs) ==
  /\ \A i \in DOMAIN encs : Expressed(text, encs[i], 0, TRUE) = text
  /\ \A i \in 1 .. Len(encs) - 1 : Convertible(encs[i], encs[i + 1])

Said(units, enc) == Text([units |-> units, enc |-> enc])

PrefixText == Said(GivenPrefix[1], GivenPrefix[2])
StartText  == Said(h2a(call.start), conf.gen)

\* The first password that the worker is given is the prefix and the start
\* password, in the first of the encodings, whatever encodings the files, the
\* generator and the console have, as long as all of them have its characters.
FirstPassword ==
  LET first == conf.encodings[1]
      ways(enc) == {<< enc, conf.locale, conf.gen, first >>, << enc, conf.locale, first >>}
      kept(given) == LET text == Said(given[1], given[2])
                     IN  text # << >> => \A way \in ways(given[2]) : Passes(text, way)
  IN  (/\ phase = "ready"
       /\ WellFormed([units |-> h2a(call.start), enc |-> conf.gen])
       /\ \A given \in GivenPrefixes : kept(given)
       /\ Passes(StartText, << conf.gen, first >>)) =>
         /\ conf.cur.enc = first /\ WellFormed(conf.cur)
         /\ \E given \in GivenPrefixes : Text(conf.cur) = Said(given[1], given[2]) \o StartText

\* Config.pod: a prefix is a fixed prefix for each password, so the first
\* password has it when its own encodings have the characters.
PrefixKept ==
  (/\ phase = "ready"
   /\ Passes(PrefixText, << GivenPrefix[2], conf.gen, conf.encodings[1] >>)) =>
     WellFormed(conf.cur) /\ IsPrefix(PrefixText, Text(conf.cur))

\* The search for the first mutation comes to an end, whatever mutations the
\* files ask for: it runs over the bits of a number that must not be zero.
SearchEnds == (phase = "shift") ~> (phase # "shift")
=============================================================================
