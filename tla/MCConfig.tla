------------------------------ MODULE MCConfig ------------------------------
(***************************************************************************)
(* Config with three character sets at a time, in every order in which     *)
(* they can be declared, sound or not; description files for every type of *)
(* set, with prefixes, encodings and mutations, and broken ones; a console *)
(* that has the u umlaut of the prefixes and one that has not.             *)
(***************************************************************************)
EXTENDS Config

MCFolding == << >>

-----------------------------------------------------------------------------
(* charsets.def *)

Char(c)  == [legal |-> TRUE, char |-> c, set |-> 0, pos |-> 0, min |-> 0, max |-> 0]
Ref(pos, set, min, max) == [legal |-> TRUE, char |-> 0, set |-> set, pos |-> pos, min |-> min, max |-> max]

Set(type, id, fields) ==
  [what |-> "set", type |-> type, id |-> id, separator |-> ":", fields |-> fields, n |-> 0]
Line(what, n) == [Set("", 0, << >>) EXCEPT !.what = what, !.n = n]

MCCharsets == <<
  Line("ignored", 0), Line("too long", 0), Line("count", 0), Line("count", 3),
  Set("simple", 1, << Char(97), Char(252) >>),
  Set("simple", 2, << Char(49) >>),
  Set("grouped", 3, << Ref(0, 1, 0, 0), Ref(-1, 2, 0, 0) >>),
  Set("dictionary", 4, << Ref(0, 1, 1, 2), Ref(1, 3, 1, 1) >>),
  Set("extract", 5, << [Char(0) EXCEPT !.legal = FALSE] >>),
  Set("dictionary", 6, << >>),
  Set("grouped", 7, << Ref(0, 6, 0, 0) >>),                      \* a set of the wrong type
  Set("grouped", 8, << Ref(1, 1, 0, 0) >>),                      \* no default
  Set("grouped", 9, << Ref(0, 1, 0, 0), Ref(1, 1, 0, 0), Ref(2, 1, 0, 0), Ref(3, 1, 0, 0) >>),
  Set("simple", 10, << [Char(0) EXCEPT !.legal = FALSE] >>),
  Set("simple", 0, << Char(97) >>),
  [Set("simple", 11, << Char(97) >>) EXCEPT !.separator = "="] >>

-----------------------------------------------------------------------------
(* Description files *)

Hex(bytes) == [i \in 1 .. 2 * Len(bytes) |->
                 IF i % 2 = 1 THEN bytes[(i + 1) \div 2] \div 16 ELSE bytes[i \div 2] % 16]

Pair(key, value) == [what |-> "pair", key |-> key, value |-> value]
Other(what) == [what |-> what]

Here(lines) == << lines, Null, Null >>
Above(lines) == << Null, Null, lines >>

InFile(id)   == Pair("charset_id", [plain |-> TRUE, id |-> id])
ByJob        == Pair("charset_id", [plain |-> FALSE, id |-> 0])
Virtual(type) == Pair("charset_type", type)
From(bytes)  == Pair("start", Hex(bytes))
To(bytes)    == Pair("end", Hex(bytes))
Prefix(bytes) == Pair("prefix", bytes)
HexPrefix(bytes) == Pair("password_prefix", Hex(bytes))

u8 == << 195, 188 >>      \* u umlaut in UTF-8

MCChunkFiles == <<
  Here(<< Other("comment"), Other("empty"), InFile(1), From(<< 97 >>), To(<< 97, 252 >>), Prefix(<< 120 >> \o u8) >>),
  Above(<< InFile(3), From(<< 252, 49 >>), To(<< 252, 49 >>), HexPrefix(<< 252, 0, 97 >>),
           Pair("output_encoding", "UTF-8") >>),
  Here(<< ByJob, From(<< 97 >>), To(<< 97 >>), Prefix(<< 252 >>), Pair("config_encoding", "ISO-8859-1"),
          Pair("dictionary_mutations", {2, 3}), Pair("output_encoding", "UTF-16") >>),
  Here(<< ByJob, From(u8), HexPrefix(<< 97 >>), Prefix(u8), Pair("dictionary", "words") >>),
  Here(<< Virtual("dictionary"), From(u8), Pair("dictionary", "words"), Pair("output_encoding", "ISO-8859-15"),
          HexPrefix(<< 120 >>) >>),
  Here(<< InFile(4), From(<< 97 >>), Pair("dictionary_file", "words"), Pair("dictionary_mutations", {1, 2}),
          Pair("dictionary_stages", {1}), Pair("dictionary_file_offset", 1) >>),
  Here(<< InFile(6), From(<< 97 >>), Pair("dictionary", "nowhere"), Pair("dictionary_file", "words") >>),
  Here(<< Virtual("extract"), Pair("extract_utf8", 1), Pair("dictionary_mutations", {3}) >>),
  Here(<< InFile(5), Pair("extractset_id", 1), Prefix(u8) >>),
  Here(<< Virtual("extract"), Pair("extractset_id", 4) >>),
  Here(<< Virtual("extract") >>),
  Here(<< Virtual("simple"), From(<< 97 >>), To(<< 252 >>), Prefix(u8), Pair("config_encoding", "Klingon") >>),
  Here(<< InFile(1), From(<< 97 >>), To(<< 97 >>), Pair("input_encoding", "Klingon"), Pair("output_encoding", "UTF-8") >>),
  Here(<< InFile(1), From(<< 97 >>), To(<< 97 >>), Pair("output_encoding", "Klingon") >>),
  Here(<< Virtual("simple"), From(u8), To(u8), Pair("input_encoding", "utf-8"), Pair("output_encoding", "latin1") >>),
  Here(<< From(<< 97 >>), To(<< 97 >>) >>),
  Here(<< InFile(1), InFile(1) >>), Here(<< InFile(1), Other("no name") >>), Here(<< Other("too long") >>),
  << Null, Null, Null >> >>

\* A dictionary in another encoding than UTF-8, as in Config.pod.
MCEncodingFiles == <<
  Here(<< Virtual("dictionary"), From(<< 120 >>), Pair("dictionary", "words"),
          Pair("input_encoding", "ISO-8859-1") >>) >>

MCCommandLines == <<
  [start |-> Hex(<< 97 >>), end |-> Hex(<< 252, 97 >>), set |-> [plain |-> TRUE, id |-> 1]],
  [start |-> Hex(<< 97, 97 >>), end |-> Hex(<< 97 >>), set |-> [plain |-> TRUE, id |-> 1]],
  [start |-> Hex(<< 97, 252 >>), end |-> Hex(<< 97, 49 >>), set |-> [plain |-> TRUE, id |-> 3]],
  [start |-> Hex(<< 252 >>), end |-> Hex(<< 252 >>), set |-> [plain |-> TRUE, id |-> -1]],
  [start |-> << >>, end |-> << >>, set |-> [plain |-> TRUE, id |-> -5]] >>

MCJobFiles == <<
  Here(<< Pair("charset_id", 1), Prefix(<< 121 >>), Pair("output_encoding", "UTF-8") >>),
  Here(<< Pair("charset_id", -3), Pair("dictionary_mutations", {1}), Pair("dictionary_file", "words"),
          HexPrefix(<< 252 >>) >>),
  Here(<< Pair("charset_id", -1), Pair("input_encoding", "ISO-8859-15"), Pair("dictionary_stages", {0}) >>),
  Here(<< Prefix(u8) >>),
  Here(<< Pair("charset_id", 1), Pair("start", Hex(<< 97 >>)) >>),
  << Null, Null, Null >> >>

MCDictionaries == [words |-> << << 120 >>, u8, << 97 >>, << 98 >> >>]

MCLocales == {
  [language |-> "C", charset |-> "", modifier |-> ""],
  [language |-> "de_DE", charset |-> "UTF-8", modifier |-> ""],
  [language |-> "de_DE", charset |-> "", modifier |-> "euro"] }

MCInitFunctions == <<
  [does |-> "nothing", encs |-> << >>], [does |-> "fails", encs |-> << >>],
  [does |-> "one", encs |-> << "UTF_16" >>],
  [does |-> "more", encs |-> << "ISO_8859_1", "UTF_8" >>] >>
=============================================================================
