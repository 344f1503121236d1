# The DiCoP Workerframe in TLA+

The Workerframe (`src/src`) is the program that every DiCoP worker is linked
with: it makes the passwords of a *chunk*, one after the other or in blocks,
hands each of them to the worker's own `dofunction()`, and says in its exit code
whether the chunk was searched in vain (0), the target was found (1), the time
was up (2) or something failed (7). A server splits a search into chunks and
believes these codes: a password left out, a chunk left too early or a wrong code
is a search that misses its target without any visible error. That is what the
models are about.

The process has one thread. What makes it hard is not the interleaving of
threads but long sequences of small steps over tables of different sizes, a
clock that anybody may set, results that are sums of return codes, and worker
functions that may fail at any call.

## 1. Inventory

| Component | State it keeps | Operations | Modelled in |
|---|---|---|---|
| Clock and counter (`pwdgen.c`) | `tstart`, `tlast`, `tlast_report`, `report_status`, `took`, `max_pwds`, `pwds_done`, `pwds` | `pwdgen_time_check`, `pwdgen_took`, `pwdgen_stop`, the counting in `pwdgen_next` | `PwdTimer` |
| Key room (`pwdgen.c`) | `tables`, `lens`, `pwd_digit`, `end_digit` | `pwdgen_init_tables`, carry and change of length | `Keyspace`, `KeyRoom` |
| Table-driven generator (`pwdgen.c`) | `start`, `end`, `pwd`, `overflow`, `once` | `pwdgen_init`, `pwdgen_next`, `pwdgen_reinit` | `PwdGen`; `pwdgen_reinit` in `PwdDict`; the order of everything `pwdgen_init` does in `Config` |
| Encodings and prefix (`pwdgen.c`) | `encoding[]`, `cur_encoding`, `_last_pwd`, `prefix`, `cur` | `pwdgen_finalize`, `pwdgen_update_cur`, `pwdgen_add_encoding`, `pwdgen_use_encodings` | `WorkerEnc`; the bytes of the first password in `Config` |
| Dictionary generator (`pwddict.c`) | file position, `org_word`, `word`, `word_2`, masks of stages and mutations, `append`, `prepend`, secondary generators | `pwddict_fastforward`, `pwddict_nextword`, `pwddict_next`, `pwddict_trynext`, `pwddict_stage` | `PwdMutate`, `PwdDict`, `WorkerDict` |
| `main()` and worker interface (`main.c`) | `found`, `error`, exit code | `cycle_pwds`, `gather_pwds`, `main` | `Main`, `MainEnd`, `Worker` |
| Block interface (`pwd_par.c`) | `par_buff`, `par_cnt`, `par_len`, `par_maxcnt` | `pwdgen_par_init`, `_push`, `_process`, `_done` | `WorkerPar` |
| Extraction from images (`pwd_img.c`) | position in the image, block buffer, list of strings and its sorted part | `pwdgen_extract`, `pwdgen_img_read`, `pwdgen_img_extract`, `pwdgen_img_extract_utf8`, `pwdgen_img_check` | `PwdImg`, `ImgMeaning`, `WorkerImg` |
| Sorting (`pwdsort.c`) | list of strings | sort, merge, unique | `PwdSort` (the shell sort and the sort by index are used by no worker) |
| Strings and encodings (`pwd_conv.c`) | of each string: bytes, size of the buffer, number of characters, encoding, flags | making, checking, counting, converting, printing, cutting, resizing, joining, comparing, reversing, change of case | `PwdConv`, `PwdString`, `Strings` |
| Character sets and job files (`pwdread.c`) | table of sets, keys of the set and the job | `pwdgen_read_sets`, `pwdgen_find_set`, `pwdgen_set_cfg_keys` | `PwdRead`, `Config` |
| Configuration files (`pwdcfg.c`) | lists of keys | finding and reading a file, asking for keys | `PwdCfg`, `Config` |
| Utilities, messages, sample workers, build scripts | none | | `pwdgen_find_file`, `h2a` and the `dofunction()` of `pwdtest`, `test_par` and `test_cnv` where they are used |

**How they interact.** `main()` calls `init()`, which reads the command line and
the chunk description file, then `pwdgen_init()`, which reads the character sets and a job
description file (and, for a dictionary, seeks the first word), then the worker's
`initfunction()`, which may ask for encodings, and `pwdgen_finalize()`, which makes the
first password. Everything up to there is `Config`; the other modules begin where it
ends, and their constants range over what it lets through. After that one of two loops
runs: `cycle_pwds()` calls the generator and `dofunction()` in turn, `gather_pwds()`
calls the generator and `pwdgen_par_push()`, which calls `dofunction()` for a full block.
For an extraction `cycle_pwds()` leaves the loop to `pwdgen_extract()`, which gathers the
strings of an image, with `pwddict_next()` for their variants, and then calls
`dofunction()` for each. Whoever handles a text (the prefix, the start password, the
words) calls the functions of `pwd_conv.c`, which change strings in place.
All calls are synchronous and share one `struct ssPWD`. Both loops add the return
codes of the two calls up; `main()` takes the sum for a bit set, may call
`endfunction()`, and turns it into the exit code.

**Which behaviours are hard.**

- *Boundaries of the key room*: a carry over columns of different sizes, the
  change of length that replaces all tables, the end password that is looked for in
  three places, chunks of one password, chunks with the end before the start.
- *Time*: the clock is looked at after a number of passwords that adapts itself and
  may wrap around, and may be set back between two looks. The timeout can come
  together with the last password or with a find.
- *Failures*: `initfunction()`, `dofunction()` and `endfunction()` may fail by their
  result, by `pwd->error` or by both; the block buffer may not get its memory.
- *Results out of order*: a find while a block is flushed for a later password; a
  last password that still has encodings to come; the last pair of the last mutation
  of the last stage of a word, where three loops restart in one call.
- *Stale state*: `pwd` against `cur`, digits of secondary generators, the line that a
  failed read leaves in the buffer, text compared before it is decoded, how much of a
  list is sorted.
- *Things kept in step*: a string's bytes, the size of its buffer, its number of characters
  and its encoding; the settings of two files and a command line, read one after the
  other over the same fields.
- *Limits*: the lists of an extraction are allocated once for the most a block can give;
  a block's end is kept for the next one.

**What makes each part correct** is stated in the modules: a timeout never too early
and always in the end (`PwdTimer`); every key of the chunk once and in order, no
other (`Worker`, refining `KeyRoom`); blocks of one length that lose nothing
(`WorkerPar`); every encoding of every password, for lists in a good order whose
conversions exist (`WorkerEnc`); strings whose parts agree and calls that do to the text what they are for
(`Strings`); a worker that only begins when its sets, its settings and its first password
are sound (`Config`); every word of the chunk once, with all its variants (`WorkerDict`); every
string inside a block of the image, and no list too small for them (`WorkerImg`); and
for each kind of worker an exit code that agrees with what was compared and a counter
that agrees with the calls. `PROJECT.json` lists the hazards at their lines with the
properties that would catch them.

## 2. Modules and how they correspond to the code

```
Keyspace ──┐                        KeyRoom (abstract walk)
           ├─ PwdGen ─┐                ▲ refinement
PwdTimer ──┤          ├─ Main ─┬─ Worker        cycle_pwds()
           ├─ MainEnd ┘        ├─ WorkerPar     gather_pwds(), pwd_par.c
           │     │             └─ WorkerEnc     cycle_pwds() with conversion
PwdMutate ────┴─ PwdDict ─────── WorkerDict    dictionary loop
    └─ PwdImg (with PwdSort) ─ ImgMeaning ─ WorkerImg    extraction (with MainEnd)

PwdConv ─ PwdString ─┬─ Strings ──────┬─ StringText   calls of pwd_conv.c, promises
                     ├─ StringMeaning ┴────┐
                     └─ PwdCfg ─ PwdRead ─ Config     from the command line to the
                                                      first password
```

- **PwdTimer**: one action each for a tick of the clock, a clock that is set back,
  and a password made (`CountPwd`, with the whole of `pwdgen_time_check()` when a check
  is due). `real` and `warps` are histories. `max_pwds` keeps its width (`ULongMod`).
- **Keyspace**: `Column`/`Table`/`Lens` are the tables of `pwdgen_init_tables()` as a
  function of length and column, `Carry` and `Extend` the two ways to the next key,
  `DigitsOf` the search for a password's digits. The order of keys and `Successor` are
  the reference definition they are compared with.
- **PwdGen**: `pwdgen_init` and `pwdgen_next` over these, with the three tests for the
  end password and the counting of `PwdTimer`. `pwdgen_next(rc)` is the whole call, `rc`
  its result.
- **MainEnd**: `main()` after its loop (`CallsEndfunction`, `ExitCode`, `Exit`) and the
  test at the end of every pass of a loop (`Collect`). **Main** adds `main()` up to the
  loop for the table-driven generator.
- **Worker**: `FirstKey` and `Cycle` are the two calls in `cycle_pwds()`; `Cycle` is
  `pwdgen_next(pwd) + dofunction(pwd)` evaluated from left to right. `dofunction` and
  `endfunction` gather `BATCH` passwords and compare them together (1 is `pwdtest`), and
  may fail.
- **WorkerPar**: a pass of the loop of `gather_pwds()` is `MakeKey` and `Push`;
  `par_push` has a disjunct for every path of `pwdgen_par_push()` (push only, new block,
  flush and push, flush without memory), and `Crash` is the write through the NULL
  pointer after the last. `par_dofunction` is that of `test_par`, with `pwdgen_found()`.
- **WorkerEnc**: `pwdgen_next_encoded` is `pwdgen_next()` with a list of encodings: next
  encoding of the same password (`ShowNext`), end after the last one (`StopAtLast`), or
  the next password in the first encoding (`ShowFirst`). A string is its password and
  the encoding whose bytes it has. `HasConversion` are the conversions that exist: not from
  one table of one-byte characters to another, nor to anything above UTF-8 but UTF-16 and
  UTF-32. `Reached` is the encoding a string ends up in, from that of prefix and password
  together (`Joined`), when the result of the conversion is not looked at; `Show` is the
  string made, `Meant` the one that was asked for.
- **PwdMutate**: what stages and mutations make of a word, and the shifting of the masks
  of mutations.
- **PwdDict**: `pwddict_next(rc)` is the whole call: `AddPair` (append or prepend, then
  advance the secondary generator, its successor or the next mutation) or `NextVariant`
  (mutation, then pairs or the next one); both go through `pwddict_trynext`, which
  restarts mutations, stages and words. A bit mask is the set of its bits' numbers, so
  that a mask with two bits is a mask with two bits.
- **WorkerDict**: `Seek` and `Skip` are `pwddict_fastforward()` line by line; `MakeWord`
  and `Check` the two halves of the dictionary loop.
- **PwdSort**: the merge sort, the merge of two sorted parts and the weeding of doubles as
  functions of a list, each also for the case that there is no scratch memory (the list
  then stays as it is).
- **PwdImg**: what one pass over a buffer puts into a list: `pwdgen_img_extract` (with its
  two ways to treat invalid bytes, the jump over strings that are too short, and steps of
  one or two bytes) and `pwdgen_img_extract_utf8`; `AddString` adds a string with its
  `Variants`. `Extracted` are all passes over a block. All are written as recursive
  functions over positions, byte values are those of the code.
- **WorkerImg**: `StartLength` is a pass of the loop of `pwdgen_extract()`, `ReadBlock` one
  of the loop of `pwdgen_img_read()` (read, extract, append, sort, decide whether to
  check), `LeftOver` what follows it, `CheckString` a pass of `pwdgen_img_check()`.
  `max_merge`, `max_list` and `buffer_size` are the sizes it computes.
- **ImgMeaning**: what extraction promises. `Due` says, without any buffer, jump or
  recursion, which strings of a length some bytes begin with, `VariantsDue` which variants
  of a string are asked for, `VariantsMade` which ones a worker may be given at most, and
  `VariantsComplete` for which jobs it gets all of them.
- **PwdConv**: a string as units (bytes, or 16 or 32 bits) with its encoding, its number
  of characters, its size and its flags, and the conversions: the runs of the generated
  tables, UTF-8 taken apart and put together, wide units, the `?` for what an encoding
  lacks. **PwdString**: what each function of `pwd_conv.c` computes from its strings.
- **Strings**: a caller with two strings and any call on them; every call is one step with
  its return code in `last`, apart from the change of case of a UTF-8 string, whose loop
  is one step per character (`RecaseChar`) until it returns. `room` and `top` are
  histories: how large the buffer really is, and how far calls have written.
- **StringMeaning** reads a string without that code: its characters as code points, what
  they become elsewhere. **StringText** states with it what the calls promise.
- **PwdCfg**, **PwdRead**: which of three places of a file is read, which lines end the
  reading, how sets are declared, referred to and found, what `pwdgen_set_cfg_keys()`
  takes from a file.
- **Config**: the phases of `init()` (command line, identification), `pwdgen_init()` (one
  action per line of `charsets.def`, the keys of the chunk, those of the job, the set, the
  start and end password, the mutations bit by bit, extraction or dictionary, the first
  string with its prefix), `initfunction()` and `pwdgen_finalize()`. Each may refuse;
  `main()` then ends with the code of the model. The masks of stages and mutations are
  the sets of their bits' numbers here too; `K(sets, set)` is `Keyspace` with the columns
  of the set that was chosen.
- **KeyRoom**: the abstract specification: keys visited one by one, each the immediate
  successor of the one before, until the last was visited or there is another reason
  to stop. `Worker!WalksTheRoom` is the refinement.
- **MC…** modules give the constants of the runs values; **…Proofs** modules hold the
  theorems.

Operators whose comment starts with "Mutation:" are wrong variants of the operator
below them. They are used to see that a property notices such an error, and in no
specification.

**Histories.** `checked`, `given`, `compared`, `calls`, `rounds`, `hits`, `failed`,
`unsorted`, `real`, `warps`, `room`, `top` and `last` do not exist in the code and no guard reads them, apart
from the bound on `warps` and, in `Strings`, the bound on `calls`.

## 3. Runs

| Run | Bounds | What it shows |
|---|---|---|
| `timer` | timeout 1 s, clock to 6, set back by one or two seconds up to twice, `max_pwds` modulo 8 | `NeverTooEarly`, `CheckInterval` and `CheckedInTime` also across a wrap of `max_pwds`; `Stops` |
| `worker` | GROUPED set with three tables, eight chunks of up to three characters, batches of two, all failures, clock set back once | `Coverage`, `InsideChunk`, `StopCode`, `Counted`, `OverflowTells`, `Ends`, refinement `WalksTheRoom` |
| `par` | two letters, lengths 1 to 3, blocks of two, memory may be missing | `BlockFits`, `NoneLost`, `ParStopCode`, `ParEnds` |
| `enc` | a plain letter and one with the high bit, ten lists of up to five encodings (four are kept), three tables, an encoding above UTF-8 without conversions, six prefixes | `EncCoverage`, `GoodListShown`, `EncCounted`, `EncEnds` |
| `dict` | seventeen jobs on files of up to three lines, with empty ones, with and without a newline at the end, start words in each line, every mutation, both stages, appended and prepended passwords, `malloc()` garbage 0, 1 or 7 | `DictWords`, `OncePerWord`, `DictStopCode` (code and counter), `DictEnds` |
| `img` | eighteen jobs on images of up to 14 bytes, blocks of six bytes (three for the longest strings), lists of 18 strings, one spare place, no memory for any sort or merge, all failures | `ListFits`, `ImgExact`, `SortedUnique`, `ImgStopCode` |
| `strings` | two strings of up to four characters, well formed or not, in six encodings; any two calls on them after they are made (the second string is made empty, copied, or decoded from one text) | `Fits`, `CountRight`, `ConvertsText`, `CutsToPrefix`, `ComparesText`, `MovesText`, `CasesText`, `CaseEnds` |
| `config` | every command line, chunk and job file of `MCConfig`, sets of up to three kinds in any order, two consoles, workers that ask for encodings | `SetsSound`, `Layered`, `StartsSound`, `FirstPassword`, `SearchEnds` |
| `par_found` | as `par` | finding: found twice is reported as timeout |
| `dict_mutations` | three jobs, three words | finding: mutations of all words but the first lost |
| `img_borders` | three images of two to five blocks | finding: strings across the border of two blocks lost |
| `config_prefix` | as `config` | finding: a prefix loses characters when it is printed |

**Why the bounds are enough.** Every branch of the code is taken: the runs fire each
action and each disjunct. Three characters of length give two changes of length and a
carry over two columns; a first column of three characters, one of them repeated, gives
columns of unequal size and passwords with two spellings; `FirstMaxPwds = 1` puts a
check of the time between any two passwords, and `ULongMod = 8` makes `max_pwds` wrap
within the run. The numbers 32 passwords and 30 to 1920 seconds of the code enter only
as `FirstMaxPwds`, `FirstReport` and `LastReport`, the 128 K of a block and the millions
of strings of a list as `BUFSIZE` and `ManyStrings`; these are chosen so that an image
has up to five blocks, and a list is sorted once, sorted and merged, and checked before
the end. Bounds that cut behaviour off are named in the modules: `MaxClock` (the clock
stops; every timeout is reached before), `MaxWarps`, `Warps`, `MaxPwds` (the counter
saturates; properties on it are stated below that value). What depends on the size of an
alphabet or a chunk is proved for all sizes instead (section 4).

For strings, two calls after the making of the strings are what it takes to see a call
that leaves something wrong behind and another that trusts it; four characters hold two
characters of two bytes, or one of three that is cut at each of its bytes. A character of each kind
is among them: ASCII, one with two bytes, one that only one of the single-byte encodings
has, one whose other case has another length, stray and missing continuation bytes. For
the configuration, three sets are the fewest in which a reference can point to itself, to an
earlier and to a later set, `MAXPAIRS = 2` lets a grouped set have one pair too many, and
`MaxBit` lies behind the last mutation.

Deadlock is not checked: a worker that has exited (or crashed) does nothing more,
the clock stops at its bound, and a caller of strings makes no more calls than `MaxCalls`.

**Fairness.** `WF(Work)`: the process is scheduled, so a step that it can take is taken
in the end; it never waits for anything else (`dofunction()` is taken to return). In the
`timer` run also `WF(Tick)`: time passes. Ticks are not assumed for the workers: they
end by reaching the end of the chunk, however slow the clock. For `Strings` only `WF(RecaseChar \/ RecaseReturn)`, and for
`Config` only `WF(ShiftBit \/ ShiftDone)`: a loop that has begun goes on. Whether another
call is made is never assumed. The extraction has no
liveness property: its loops run over the lengths, the blocks and the strings of a list,
and each ends with its counter. That the clock is set back, or that a worker function
fails or succeeds, is never assumed.

### Findings

1. `main.c:251` *par_found*. A find during the flush of a block is found again in the
   left-over block: 2 + 2 is the code of a timeout.
2. `pwddict.c:66` *dict_mutations*. `first_mutation` is the number of a bit and used as a
   mask.
3. `pwd_img.c:320` *img_borders*. The bytes kept in front of the next block are the first
   of the block that was read, not its last: strings across a border are missed, and
   strings that are nowhere in the image are tried.
4. `pwd_conv.c:921` *config_prefix*. `pwdgen_print()` converts the prefix in place to the
   encoding of the console; characters the console lacks become `?` in every password.

**Stated and refuted.** Six statements of comments and documents are definitions of their
own, which the code does not keep. They belong to no run; each has a configuration in which
TLC refutes it. The properties of the runs are stated so that they do not decide the question.

| Statement | Of whom | Configuration | What the code does |
|---|---|---|---|
| `EveryEncoding` | `pwdgen.h:41` | `MCWorkerEncLost` | The result of a conversion is not looked at (`pwdgen.c:1025`). There is none from one table of one-byte characters to another (`pwd_conv.c:833`), so the bytes stay as they are, which counts as an encoding that brings nothing new, and that ends the list (1036, 1100): with ISO_8859_1, CP850, UTF_8 a password with the high bit set is given in the first only. With `Requests <- MCOtherOrder`: UTF_8 is skipped for a plain password and ends the list too (967), so that UTF_16 behind it is lost. `GoodListShown` says for which lists nothing is lost: those whose conversions all exist, with the wide encodings before those that may be skipped |
| `EqualIsOne` | `pwd_conv.c:1710` | `MCStringsEqual` | `pwdgen_streq()` returns 0 for equal strings and 1 for others (1768); nothing calls it. `ComparesText` says that it tells them apart |
| `ZeroDrops` | `pwd_conv.c:183` | `MCStringsDropped` | From UTF-8 a replacement of 0 is written like any other (632, 639); it is dropped only from a single-byte encoding to ASCII (817). `ConvertsText` leaves a replacement of 0 out for UTF-8 |
| `ChunkFilePrecedes` | `Config.pod:356` | `MCConfigPrecedence` | The job description file is read after the chunk description file, over the same fields (`pwdgen.c:295`, `pwdread.c:578`). `Layered` holds for either order |
| `OutputKept` | `Config.pod:343` | `MCConfigOutput` | Reading a job description file removes the output encoding of the chunk description file (`pwdread.c:701`) |
| `DictionaryEncoding` | `Config.pod:318` | `MCConfigDictionary` | For a dictionary `input_encoding` is read, checked and overwritten by UTF_8 (`pwdgen.c:462`) |

**Seen on the way**, without a run of their own.

*The table-driven worker.* The correction for a clock that went back has the wrong sign
(`pwdgen.c:903`): the elapsed time shrinks by twice the jump, although `BUGS:22` says it is
"correctly compensated for"; a timeout is late, never early (`NeverTooEarly`).
`endfunction()` is not called at a timeout (`main.c:428`) although the comment above it
(`main.c:424`) promises otherwise, so the last batch of a worker that gathers passwords is
not compared. When a block's buffer is refused and the length changes again at once, a
password is lost; `NoneLost` and `ParStopCode` are stated for workers that had memory.

*Dictionary.* The last word of a dictionary that ends with a newline is done twice when no
end word stops the chunk (`OncePerWord` makes the exception explicit), and is done once more
when it is the start word, which the chunk before has done (`DoneAgain` in `DictWords`); a pair after one
that prepends corrupts the word; an empty line crashes; a change of case that changes the
number of bytes loops for ever; `Config.pod:77` has append and prepend the other way round
than `pwddict.c:172`; the counter is one too high (`DictStopCode`).

*Extraction.* The string that ends with the last byte of a block is never extracted
(`Inside` leaves it out); a string that equals the last variant of the string before it
gets no variants (`pwd_img.c:814`). With one stage these are those of the string before it,
provided that the two case mappings agree: the upper case of `ß` is not a letter that `ß`
is the lower case of, so an `S` behind a `ß` loses its own lower case, and `VariantsComplete`
asks for `CasesAgree`. With a mask of two bits for the first mutation (finding 2) a string
of the second stage is given as it is, without a mutation that was asked for
(`VariantsMade`). Both were found when `ImgExact` was to be proved: an earlier form of it,
which no run had refuted, was wrong for such jobs. A `PWD_ERROR` of `dofunction()` is a find for
`pwdgen_img_check()` unless `pwd->error` is set (`ImgStopCode`); `Config.pod:287` names
the option `extract_odd_even` that the code and `Extract.pod` call `extract_even_odd`.

*Strings.* `pwdgen_strcat()` sizes the buffer by the second string before that is
converted, adds -1 for a second string that was not counted, and leaves the first one
converted when it fails later; `pwdgen_truncate_string()` can lengthen a single-byte string that was
not counted; resizing below one wide unit and the change of case by position of an empty
single-byte string underflow; `pwdgen_strrev()` underflows for a string that begins with a
continuation byte; `pwdgen_decode_string()` does not check ASCII and keeps the input's encoding when the
conversion fails; READ_ONLY is not looked at by case changes, reversal and copies; 0xFE
and 0xFF pass for UTF-8; the upper case of a micro sign is `?` in ISO 8859; surrogates are
unknown to UTF_16; the loop of a case change never ends on a character whose other case has
another number of bytes, although the comment says "-1 for errors" (`Stuck` in `CaseEnds`).

*Configuration.* The default encoding of an extraction is ISO_8859_1, where `Config.pod:337`
says UTF-8. A missing `extractset_id` ends with code 1, which is "found a
solution" (`main.c:41`), and `main()` returns 7 where `main.c:37` says 3. A wrong
`output_encoding` is only refused at the end, or never when a job file is read.
`de_DE.UTF-8@euro` is taken for ISO_8859_15. The pairs of a
dictionary set are never counted against `MAXPAIRS`, and a grouped set writes the pair at
index `MAXPAIRS` before it refuses it (`pwdread.c:393`). A key `dictionary` in a file beats
`dictionary_file`. A negative number of sets is accepted.
`pwdgen_use_encodings()` tests `i` where it means `j`. One set too many is stored behind
the table before it is refused. A list of encodings separated by commas, and the key
`dictionary` in a job file, are documented and refused. A missing `=` in a grouped field is
printed and passed over.

## 4. Proofs

All proofs are checked by TLAPS for every value of the constants that satisfies the
assumptions named in the modules. Eight modules hold them; each has one inductive
invariant per question, with one lemma for each action.

- **`TimerProofs`**, from `TimerAssumption` only. `TypeCorrect` is inductive as it stands,
  and every proof about a counter rests on it. `NeverStoppedEarly` is not inductive: that
  a timeout needs more than `Timeout` real seconds follows only when the measured time
  never runs ahead of the real one, which is `NotAhead` (`now - tstart <= real`);
  `EarlyInv` adds it, and the wrong sign of the correction only helps it. `ChecksInTime`
  and `NeverUnchecked` use `PaceInv`, the two pace properties together with the types:
  doubling keeps `max_pwds` below what was counted because a check adds more than
  `max_pwds` passwords first. At the end of the module is what all the others need: sets of
  numbers have a least and a greatest member, a function defined by recursion over a
  measure exists (`Recursion`), and folds are what their recursion says
  (`FoldExists`). Properties of what recursion computes are shown by taking the least
  argument for which they would fail (`LeastOf`).
- **`GeneratorProofs`**, from `CharsetAssumption` and `ChunkAssumption`. The order of keys is
  irreflexive, total and transitive; `CarryIsSuccessor` and `ExtendIsSuccessor` say that the
  carry and the change of length lead to the immediate successor, for any tables. Then what
  `pwdgen_init()` makes of a chunk (the digits it finds are the first key that shows the
  password), what `pwdgen_next()` makes of a key and what its result says, and `EndReached`:
  a key at which the search stops is not before the end's own key. The three table-driven
  workers share it.
- **`WorkerProofs`**. `NoKeyLeftOut` (`Coverage`) needs `CoverInv`: from the first password
  on the digits are a key that is not before the start and `pwd` is its word (`AtKey`),
  nothing is given before, and in the loop the key is not longer than the end password, so
  that there is room for the next; each step to a successor extends the keys so far by
  exactly one. `OverflowIsRight` is an action property on top of it. `ChunkNotLeft`
  (`InsideChunk`) needs `ReachInv`: the loop goes on only from keys that are not the end's
  own, but for a first key that is. `CodeTrusted` (`StopCode`) needs `VerdictInv`, which
  says of the sum of the results which calls it can come from, and that what is in no batch
  was compared. `CounterRight` (`Counted`) has its own `CountInv`. `WalkIsOfTheRoom` is the
  refinement: with these invariants every step of the worker is a step of `KeyRoom` or
  leaves its variables alone.
- **`LoopProofs`**, about the two other loops. From `ParAssumption` too: `ParInv` says where
  each password is at each phase: compared, in the block, or being pushed. `NeverTooMany`
  (`BlockFits`), `NoPasswordLost` (`NoneLost`) and `ParCodeTrusted` (`ParStopCode`) follow
  from it. From `EncAssumption` too: `UseEncodings`, a fold over the request, gives
  a list of encodings that is not empty (`ListOfRequest`), for
  requests of any length. `EncInv` gives `NoKeyUnshown` (`EncCoverage`), `ShownInv` adds
  which encodings of the current password were made (`AllMade`, in terms of `Show`). For a
  good list all conversions exist, so that what is made is what was meant (`MadeAsMeant`),
  and that gives `GoodListComplete` (`GoodListShown`). `CountInv` allows for the one call at the end that is not counted and
  gives `CounterNearlyRight` (`EncCounted`).
- **`DictProofs`**, from `TimerAssumption` and `DictAssumption`, which says that a job has at
  least one stage and mutation and that the columns of its pairs' sets have 1 to `MAXCHARS`
  characters, as `pwdgen_read_charsets()` makes sure. `WordsOnce` (`OncePerWord`) needs
  `OnceInv`: until the start word is met it is in no line read so far, so the line at which
  it is met is its first; from then on rounds and lines go together (`InStep`), and the end
  of the file is met with the last line or by one read more (`Place`). `DictCodeTrusted`
  (`DictStopCode`) needs `WordInv`, the sum of the results and the counter, whatever the
  generator makes of a word.
  `EveryWord` (`DictWords`) is the longest proof; like the property it leaves out jobs that
  finding 2 or a pair behind one that prepends spoils (`Regular`), and no other. Its invariant is `WholeInv`, which has
  three levels. In the middle of a word (`MidWord`): the generator of the pair that is at
  work has shown every key before its digits, the others have overshot or, with the first
  word, were never used (`GeneratorsAt`); the pairs before it, the mutations that are not
  to do any more and the stages before this one were shown completely (`PairAt`,
  `MutationsDone`, `StageAt`); the word a password is put before or behind is kept in
  `word_2` or in the head of the last password (`IsKept`); and the mask is that of a single
  mutation not above any that is left (`MaskFits`). Of the chunk (`Whole`): each line
  before the current one was gone through and was not the end word (`LinesDone`), nothing
  else was given (`OfWordsBegun`). And before the first word nothing was given and the
  generators are raw (`BeforeFirst`). The lemmas below it say that a successor leaves no key
  of the room of a pair between itself and its predecessor and that overshooting leaves none
  behind (`NextIsClean`), that `pwdgen_reinit()` brings a generator that has overshot back to
  its first key although it sets only one digit of a SIMPLE set (`SetBackGenerator`), that
  generators with digits out of `malloc()` still show only passwords of their room
  (`NextIsLoose`), that shifting a mask finds the least mutation left (`NextMask`), and that
  the head of a combined password is the word (`JoinedTexts`).
- **`ExtractProofs`**, about the functions of `PwdImg` for every buffer of bytes, from
  `ImgCasesAssumption` only (`Upper` and `Lower` map bytes to bytes). How many strings the
  passes over a buffer give: one string with all its variants for each position at most, for
  both ways to treat invalid bytes and for UTF-8 (`AllPasses`). And which: the variants made
  are those that `ImgMeaning` asks for (`VariantsContent`: the shifting of masks meets each
  mutation once, also where it starts from two bits). A pass is a walk; `WalkFinds` says that
  a walk finds everything due when no single move misses anything. A move behind a string
  too short misses nothing since every string in between would hold the invalid byte
  (`BreakingMisses`); one behind skipped bytes misses nothing since the same valid bytes
  follow (`SkippingMisses`). The scanner of UTF-8, which starts anew at every byte, gives the
  well-formed sequences and no others (`ScannedWell`, `WellScanned`, a loop invariant over
  characters). A string left out because it is the last of the list has its variants there
  already (`NothingMissed`, where `CasesAgree` is needed). And what is due for a buffer is
  due for the image it was read from: a longer buffer has every string of a shorter one
  (`DueExtends`).
- **`ImgProofs`**, from `ImgAssumption` too (there are finitely many long lengths, an image is
  a sequence of bytes, a job has a stage and a mutation). `ImgCodeTrusted`
  (`ImgStopCode`) needs `ImgInv`: while a list is gone through, the counter is behind by the
  strings before `cur_pwd`, and a call that sets `pwd->error` lets the rest of the list go
  on, so what is said of the target is said for `~error` only. `MemoryEnough` (`ListFits`)
  and `GivenInOrder` (`SortedUnique`) follow from `RoomInv`: the strings of the list have the
  current length, the first `sorted` of them are in order unless memory to sort ever
  lacked, and before a block is read `max_merge` places are free (enough, by `AllPasses`).
  That sorting sorts
  is shown of the functions as the code has them: the order of strings is total
  (`BeforeTotal`), merging keeps it and loses none, the merge sort is the merge of two
  shorter sorts, and weeding leaves an increasing list.
  `EveryString` (`ImgExact`) is about the whole way of a string, from the image to
  `dofunction()`. Its invariant `ReadInv` says where the reading is (`FilePlace`: a block
  begins behind `read_bytes`, a multiple of the size of the blocks, and what is kept is what
  the blocks before left); that every string due in the blocks read so far was given or
  waits in the list (`NothingLost`); that every string of the list is one that is due
  somewhere, or a variant of one (`AllTrue`); and that those before `cur_pwd` were given
  (`GivenBefore`). `ExactInv` adds what was done for the lengths before this one. A block
  keeps `NothingLost` since what is due for the buffer is due for the image and the other
  way round (`BlockComplete`, `BlockSound`, which needs that there is one block or that no
  bytes are kept), and sorting since it keeps what is in a list (`ListKept`). `ReadInv` was
  checked by TLC on the run's jobs first.
- **`ConfigProofs`**, from `ConfigAssumption`, which says what the scanners make of the files
  and a worker may ask for, and nothing of the order or the soundness of what they hold.
  `TableSound` (`SetsSound`) needs `TableInv`, which holds after every line of `charsets.def`
  whatever it says: a reference of a set leads to a set that was defined before it, so
  `pwdgen_find_set()` never finds a set that is still being read, and a set without an error
  has characters in each of its columns. `SettingsLayered` (`Layered`) is shown by `InOrder`,
  which says more: each setting is that of the file read later, if it has the key.
  This and `StartSound` (`StartsSound`) need `ReadyInv`, the conjunction of what is known of the settings
  (`SettingsInv`: what each of the three sources left, so that the comparison with all
  three at the end is a comparison with fields nobody wrote in between), of the search
  for the first mutation (`SearchInv`: the mask left is the mask asked for, moved down by
  the shifts made, so the bit found is the lowest), and of what is demanded of a worker that
  starts (`StartInv`). The folds over keys, fields and lists of encodings are shown to be
  what their recursion says (`FoldExists`, by a least counterexample; `FoldKeeps` is the
  induction), for lists of any length.

**Model-checked only.** Liveness (`Stops`, `Ends`, `ParEnds`, `EncEnds`, `DictEnds`,
`CaseEnds`, `SearchEnds`): ENABLED and fairness are beyond the prover. Everything in
`Strings`: what calls make of texts is a claim about the bytes of particular characters,
and `Fits` and `CountRight` are claims about the strings of the run, not about every
sequence of units, so no theorem states them. A lead byte of UTF-8 for a character beyond
the last code point, converted, copied and cut, could be counted otherwise. And with the
byte 0xFE or 0xFF in a UTF-8 text, which passes for a character of one byte, a conversion
to a single-byte encoding gives the string a size of exactly its bytes
(`pwd_conv.c:499`); a copy takes that size over (`pwd_conv.c:1445`), and `Fits`, which asks
for one more byte for the closing zero, does not hold of it. The texts of the run leave
both out. `FirstPassword`, which compares what `pwd_conv.c` made of prefix and password with
their characters.

## 5. What is left out, and why

- The scanning of a line: `PwdCfg` and `PwdRead` begin with what it takes a line for.
- A clock that is set forward: the code has no way to tell it from time that passed, and
  a timeout that comes early because of it is no surprise.
- Undefined behaviour that would only add noise: an empty start password
  (`ChunkAssumption`: the field before the array, `pwdgen.c:1332`) and the order of
  evaluation in `pwdgen_next(pwd) + dofunction(pwd)` (`main.c:353`, left to right as the
  compilers in use do it).
- Strings: what happens when memory runs out; wide strings with an odd number of bytes;
  and the calls that the observations above describe as writing outside, which the caller
  in `Strings` does not make (`Outgrown` and the guards of the other calls): joining with a
  second string that needs more bytes once it is converted or has no count, cutting a
  single-byte string that has none, resizing below one unit, reversing a string that
  begins with a continuation byte, changing the case of an empty single-byte string.
- Sets: a virtual grouped set (its field is not initialised), references to the set 0, and
  more than one line with the number of sets.
- The CRC, output, and the memory of strings (one string per password is not freed when a prefix
  is in another encoding, `pwdgen.c:987`). The text printed for a password that was found:
  `pwdgen_found()` (`main.c:456`) uses the length of the next one.
- Dictionaries in several output encodings (where skipping equal words, `main.c:290`,
  compares another string than the worker sees), with a prefix, or through the block
  interface; an empty line (`pwddict.c:490`) only as the phase `crashed`.
- Fixed-width padding of blocks.
- Extraction: the case changes of UTF-8 strings, several output encodings, the block
  interface, and what a buffer shorter than a string makes of the bytes behind it (it never
  extracts any). A list gets its memory or the worker ends.

## 6. Plan

1. *(done)* the table-driven worker: `PwdTimer`, `Keyspace`, `PwdGen`, `MainEnd`,
   `Main`, `Worker`, abstract `KeyRoom`; theorems on all of its safety properties and the
   refinement.
2. *(done)* the other loops: `WorkerPar`, `WorkerEnc`, `PwdDict` with `WorkerDict`;
   theorems on all their safety properties.
3. *(done)* the extraction: `PwdSort`, `PwdImg`, `ImgMeaning`, `WorkerImg`; theorems on all
   its safety properties.
4. *(done)* the strings (`PwdConv`, `PwdString`, `Strings`) and the way to the first
   password (`PwdCfg`, `PwdRead`, `Config`); theorems on `SetsSound`, `Layered` and
   `StartsSound`.
5. What remains: theorems on `FirstPassword` and on what the calls of `Strings` do to texts,
   which need the tables of the encodings as data; dictionaries through the block interface
   and in several encodings; fixed-width blocks.
