------------------------------ MODULE PwdDict ------------------------------
(***************************************************************************)
(* The dictionary generator of src/src/main/pwddict.c: it reads word after *)
(* word from a file, puts each through the job's stages (as it is,         *)
(* reversed), each stage through the job's mutations (changes of case) and *)
(* each mutation through its pairs, which append or prepend the passwords  *)
(* of a secondary table-driven generator.                                  *)
(*                                                                         *)
(* As in PwdGen the worker gets the passwords in the generator's encoding, *)
(* UTF-8 here, and without a prefix: cur is an alias of pwd.               *)
(***************************************************************************)
EXTENDS PwdTimer, PwdMutate

CONSTANTS
  Jobs,        \* what a command line and the job's file may ask for
  Garbage,     \* what the fields of memory from malloc() may hold
  MAXCHARS,    \* see Keyspace
  PWD_LEN

(***************************************************************************)
(* A job names the dictionary (the words of its lines, and whether the     *)
(* last line ends with a newline), the first and the last word (<< >> for  *)
(* none), how many lines the offset into the file skips, its stages and    *)
(* mutations, and the pairs of its DICTIONARY set.  A pair's set has no    *)
(* character twice, and what pwdgen_read_charsets() guarantees of it is    *)
(* what Keyspace assumes of the chunk's own set.                           *)
(***************************************************************************)
SetSound(set) ==
  /\ set.type \in {"SIMPLE", "GROUPED"}
  /\ set.type = "SIMPLE" => set.pairs = << >>
  /\ Len(set.pairs) \in Nat
  /\ Len(set.chars) \in 1 .. MAXCHARS
  /\ \A i \in 1 .. Len(set.pairs) : Len(set.pairs[i].chars) \in 1 .. MAXCHARS

ASSUME DictAssumption ==
  /\ MAXCHARS \in Nat \ {0} /\ Garbage \subseteq Nat
  /\ \A j \in Jobs :
       /\ j.words \in Seq(ToSet(j.words)) /\ \A w \in ToSet(j.words) : w \in Seq(ToSet(w))
       /\ j.ofs \in 0 .. Len(j.words)
       /\ j.stages # {} /\ j.stages \subseteq 0 .. 1
       /\ j.mutations # {} /\ j.mutations \subseteq 0 .. 10
       /\ j.pairs \in Seq(ToSet(j.pairs))
       /\ \A p \in ToSet(j.pairs) :
            /\ SetSound(p.set)
            /\ p.startlen \in Nat \ {0} /\ p.endlen \in Nat /\ p.startlen <= p.endlen

VARIABLES
  job,
  dict_line,       \* how many lines of the file were read
  dict_eof,        \* feof(dict_file): a read met the end of the file
  org_word,        \* the current word as it is in the file
  last_word,       \* the last word of the chunk was read
  word,            \* the current word in the current stage
  done_stages,     \* the stages that the word still has to go through
  done_mutations,  \* the mutations that the word still has to go through
  cur_mutation,    \* where to look for the next of them
  append,          \* the pair that is due, 0 for the mutation itself
  prepend,         \* whether word_2 holds the word to prepend to
  word_2,
  gen_pwd,         \* the secondary generators: password and digits
  pwd              \* the current password

fileVars  == <<dict_line, dict_eof, org_word, last_word>>
stageVars == <<word, done_stages>>
pairVars  == <<append, prepend, word_2, gen_pwd>>
dictVars  == <<job, fileVars, stageVars, done_mutations, cur_mutation, pairVars, pwd>>

-----------------------------------------------------------------------------
\* pwddict_stage(): the next stage in todo that w has to go through.
pwddict_stage(todo, w) ==
  LET s == Min(todo) IN word' = Staged(s, w) /\ done_stages' = todo \ {s}

-----------------------------------------------------------------------------
(***************************************************************************)
(* The secondary generator of a pair.  Its end password is made in the     *)
(* same way as its start password and never met again (beyond the start    *)
(* length it is what malloc() left, taken here to be no password of the    *)
(* set); the generator stops when its passwords get longer than endlen.    *)
(***************************************************************************)
K(set) == INSTANCE Keyspace WITH
  SetType <- set.type, Default <- set.chars, Pairs <- set.pairs

Zeros(n) == [i \in 1 .. n |-> 0]

FirstOf(pair) == K(pair.set)!Word(Zeros(pair.startlen))

\* For a SIMPLE set pwdgen_init() sets only the last of the digits.
IsFresh(gen, pair) ==
  /\ gen.pwd = FirstOf(pair)
  /\ gen.digit[pair.startlen] = 0
  /\ pair.set.type = "GROUPED" => gen.digit = Zeros(pair.startlen)

FreshGenerators(pairs) ==
  {g \in [1 .. Len(pairs) ->
            UNION {[pwd : {FirstOf(p)}, digit : [1 .. p.startlen -> Garbage]] : p \in ToSet(pairs)}] :
     \A j \in 1 .. Len(pairs) : Len(g[j].digit) = pairs[j].startlen /\ IsFresh(g[j], pairs[j])}

\* Mutation: the password is not set back.
ReinitDigitsOnly(gen, pair) == [gen EXCEPT !.digit = Zeros(pair.startlen)]

\* So does pwdgen_reinit(): the digits of a SIMPLE set are 0 after an overshoot.
pwdgen_reinit(gen, pair) ==
  [pwd   |-> FirstOf(pair),
   digit |-> [i \in 1 .. pair.startlen |->
                IF pair.set.type = "GROUPED" \/ i = pair.startlen THEN 0 ELSE gen.digit[i]]]

pwdgen_next(gen, pair) ==
  LET C    == K(pair.set)!Advanceable(gen.digit)
      d    == K(pair.set)!Rightmost(C)
      n    == Len(gen.digit)
      next == IF C # {} THEN K(pair.set)!Carry(gen.digit, d) ELSE K(pair.set)!Extend(gen.digit)
  IN  [digit |-> next,
       pwd   |-> [i \in 1 .. Len(next) |->
                    IF C # {} /\ i < d THEN gen.pwd[i] ELSE K(pair.set)!Table(Len(next), i, next[i])]]

-----------------------------------------------------------------------------
CRASH == -1     \* an empty line: content[-1], far outside in a 64-bit build

CheckTime ==
  IF pwds_done > max_pwds
    THEN /\ pwds' = AddUp(pwds_done) /\ pwds_done' = 0
         /\ pwdgen_time_check
         /\ UNCHANGED clockVars
    ELSE UNCHANGED timerVars

\* fgets() leaves the buffer as it is when nothing is left to read, and only then
\* is the end of a file with a newline at its end met.
ReadLine(rc) ==
  LET more == dict_line < Len(job.words)
      line == IF more THEN job.words[dict_line + 1] ELSE org_word
  IN  /\ dict_line' = IF more THEN dict_line + 1 ELSE dict_line
      /\ dict_eof' = (~more \/ (~job.newline /\ dict_line' = Len(job.words)))
      /\ org_word' = line
      /\ last_word' = (line = job.end)
      /\ rc = (IF line # << >> THEN 0 ELSE IF more THEN CRASH ELSE 1)

\* Mutation: the end of the file is not noticed.
NoMoreAfterEnd == last_word

NoMoreWords == dict_eof \/ last_word

\* pwddict_nextword(): the time is checked once per word only.
pwddict_nextword(rc) ==
  /\ CheckTime
  /\ \/ timedOut' /\ rc = PWD_TIMEOUT /\ UNCHANGED fileVars
     \/ ~timedOut' /\ NoMoreWords /\ rc = 1 /\ UNCHANGED fileVars
     \/ ~timedOut' /\ ~NoMoreWords /\ ReadLine(rc)

(***************************************************************************)
(* pwddict_trynext() with the mutations todo left and mask the last one:   *)
(* when they are done comes the next stage, when those are done the next   *)
(* word.                                                                   *)
(***************************************************************************)
NextMutation(todo, mask) ==
  /\ todo # {}
  /\ done_mutations' = todo
  /\ cur_mutation' = mask
  /\ UNCHANGED <<fileVars, stageVars, timerVars>>

RestartMutations ==
  /\ done_mutations' = job.mutations
  /\ cur_mutation' = first_mutation(job.mutations)

NextStage ==
  /\ done_stages # {}
  /\ pwddict_stage(done_stages, org_word)
  /\ UNCHANGED <<fileVars, timerVars>>

NextWord(rc) ==
  /\ done_stages = {}
  /\ pwddict_nextword(rc)
  /\ IF rc = 0 THEN pwddict_stage(job.stages, org_word') ELSE UNCHANGED stageVars

pwddict_trynext(todo, mask, rc) ==
  \/ NextMutation(todo, mask) /\ rc = 0
  \/ todo = {} /\ RestartMutations /\ NextStage /\ rc = 0
  \/ todo = {} /\ RestartMutations /\ NextWord(rc)

-----------------------------------------------------------------------------
(***************************************************************************)
(* pwddict_next() when a pair is due: the generator's password goes behind *)
(* or before the word, which is taken to be the head of the last password. *)
(***************************************************************************)
Head_of_pwd == SubSeq(pwd, 1, Len(word))

\* Mutation: the saved word is never saved anew.
SavedOnce == IF word_2 = << >> THEN Head_of_pwd ELSE word_2

SavedWord == IF prepend THEN word_2 ELSE Head_of_pwd

Combine(pair, gen) ==
  \/ pair.pos = 0 /\ pwd' = Head_of_pwd \o gen.pwd /\ UNCHANGED word_2
  \/ pair.pos # 0 /\ word_2' = SavedWord /\ pwd' = gen.pwd \o word_2'

\* The generator is advanced after its password was used; rc is the result.
AddPair(rc) ==
  LET pair == job.pairs[append]
      next == pwdgen_next(gen_pwd[append], pair)
      last == Len(next.digit) > pair.endlen
  IN  /\ append # 0
      /\ Combine(pair, gen_pwd[append])
      /\ \/ /\ ~last
            /\ prepend' = (prepend \/ pair.pos # 0)
            /\ gen_pwd' = [gen_pwd EXCEPT ![append] = next]
            /\ rc = 0
            /\ UNCHANGED <<append, done_mutations, cur_mutation, stageVars, fileVars, timerVars>>
         \/ /\ last /\ append < Len(job.pairs)
            /\ append' = append + 1 /\ prepend' = FALSE
            /\ gen_pwd' = [gen_pwd EXCEPT ![append] = next,
                                          ![append + 1] = pwdgen_reinit(@, job.pairs[append + 1])]
            /\ rc = 0
            /\ UNCHANGED <<done_mutations, cur_mutation, stageVars, fileVars, timerVars>>
         \/ /\ last /\ append = Len(job.pairs)
            /\ append' = 0 /\ prepend' = FALSE
            /\ gen_pwd' = [gen_pwd EXCEPT ![append] = next]
            /\ pwddict_trynext(done_mutations, cur_mutation, rc)

\* The next mutation of the word, without anything added.
NextVariant(rc) ==
  LET mask == Next_mutation(cur_mutation, done_mutations)
      todo == done_mutations \ mask
  IN  /\ append = 0
      /\ pwd' = MutateBy(mask, word)
      /\ \/ /\ job.pairs = << >>
            /\ pwddict_trynext(todo, mask, rc)
            /\ UNCHANGED pairVars
         \/ /\ job.pairs # << >>
            /\ append' = 1
            /\ gen_pwd' = [gen_pwd EXCEPT ![1] = pwdgen_reinit(@, job.pairs[1])]
            /\ done_mutations' = todo /\ cur_mutation' = mask
            /\ rc = 0
            /\ UNCHANGED <<prepend, word_2, stageVars, fileVars, timerVars>>

pwddict_next(rc) == (AddPair(rc) \/ NextVariant(rc)) /\ UNCHANGED job

-----------------------------------------------------------------------------
\* pwdgen_init() for a DICTIONARY set, before it looks for the start word.
DictInit ==
  /\ job \in Jobs
  /\ dict_line = job.ofs /\ dict_eof = FALSE
  /\ org_word = << >> /\ last_word = FALSE
  /\ word = << >> /\ done_stages = job.stages
  /\ done_mutations = job.mutations /\ cur_mutation = {0}
  /\ append = 0 /\ prepend = FALSE /\ word_2 = << >>
  /\ gen_pwd \in FreshGenerators(job.pairs)
  /\ pwd = job.start
=============================================================================
