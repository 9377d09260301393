----------------------------- MODULE Lemmatizer -----------------------------
(***************************************************************************)
(* Lemmatizer operators on the tagger they share (Lemmatizer_cpp.cgt,      *)
(* gposttl.c, tagger_controller.c, tagger.c, start-state-tagger.c,         *)
(* final-state-tagger.c).  The processing element constructs its           *)
(* operators, lets them process tuples, and destroys them.  The loaded     *)
(* data is in global variables; `heap' follows every block the tagger      *)
(* owns, `fault' is set by the use or release of one that is not there.    *)
(***************************************************************************)
EXTENDS BrillRules

CONSTANTS
  Operators,   \* the Lemmatizer operators of one processing element
  DataFiles,   \* the contents the data files may have
  Vocabulary,  \* the words of texts
  MaxWords,    \* words in a text: a bound
  MaxTexts     \* texts: a bound

\* A tag, and a word as its characters; the tag of a pretagged word is one of them.
Tags  == STRING \ {"STAART", "/"}
PlainWords == Seq(STRING \ {"STAART"}) \ {<<>>}

\* Each line of the lexicon lists a tag, and STAART is no tag of a word.
ASSUME LemmatizerAssumption ==
  /\ MaxWords \in Nat /\ MaxTexts \in Nat
  /\ Vocabulary \subseteq PlainWords
  /\ \A d \in DataFiles :
       /\ d.lexicon \in Seq([word : Seq(STRING), lemma : Seq(STRING), tags : Seq(Tags) \ {<<>>}])
       /\ d.bigrams \in Seq(PlainWords \X PlainWords)
       /\ d.lexical \in Seq([op : STRING, f : BOOLEAN, arg : Seq(STRING), old : Tags, new : Tags])
       /\ Len(d.contextual) \in Nat
       /\ \A i \in 1..Len(d.contextual) : {d.contextual[i].old, d.contextual[i].new} \subseteq Tags

VARIABLES
  data,        \* the content of the data files
  phase,       \* of the processing element, and in a call of tag() its step
  operator,    \* what became of each operator
  open,        \* the data files opened by the constructor at work
  generation,  \* how often the globals have been assigned
  heap,        \* the blocks that are allocated
  fault,       \* a block was used or released that is not allocated
  corpus,      \* the words of the text
  bigram_hash, \* pairs of words next to each other
  tag_array,   \* for each unknown word its tag, and the block that holds it
  freeptrs,    \* the blocks of tags to free
  tagged,      \* word_corpus_array and tag_corpus_array: [word, tag, own]
  rule,        \* the rule that is next
  printed,     \* what tag() has returned: a line for each word
  texts        \* texts still to come

dataVars == <<data, operator, open, generation, texts>>
callVars == <<corpus, bigram_hash, tag_array, freeptrs, tagged, rule>>
vars     == <<dataVars, callVars, phase, printed, heap, fault>>

FileNames == <<"lemmatized_lexicon", "BIGRAMS", "LEXICALRULEFILE", "CONTEXTUALRULEFILE">>

-----------------------------------------------------------------------------
(* Blocks.  Each has a name, so that two allocations are told apart.       *)

Parts == {"lexicon", "lemma", "seen", "goodright", "goodleft", "bigrams", "lexical", "contextual"}

\* The keys a part is filled with, line by line; an array takes every line.
Keys(part) ==
  IF part \in {"lexicon", "lemma"} THEN WordsOf(data.lexicon)
  ELSE IF part = "seen" THEN SeenKeys(data)
  ELSE IF part \in {"goodright", "goodleft"} THEN GoodKeys(data, part)
  ELSE [i \in DOMAIN data[part] |-> i]

\* Mutant of Kept: what the registry refuses is not freed
EveryLine(part) == DOMAIN Keys(part)

\* The block of a key stays only if the registry took it.
Kept(part) == NewLines(Keys(part))

Stored(part) == NewLines(Keys(part))

Entries(g, lines) == UNION {{<<"entry", g, p, i>> : i \in lines[p]} : p \in Parts}
Structures(g)     == {<<"part", g, p>> : p \in Parts}
StoredEntries(g)  == Entries(g, [p \in Parts |-> Stored(p)])

\* One step allocates some blocks, uses some and then frees some.
Memory(new, used, freed) ==
  /\ heap' = (heap \union new) \ freed
  /\ fault' = (fault \/ ~(used \union freed \subseteq heap \union new)
                     \/ new \intersect heap # {})

Uses(g) == StoredEntries(g) \union Structures(g)

-----------------------------------------------------------------------------
(* The constructor: initialize_tagger().                                   *)

Construct(op) ==
  /\ phase = "constructing" /\ operator[op] = "new"
  /\ \A other \in Operators : operator[other] # "opening"
  /\ operator' = [operator EXCEPT ![op] = "opening"]
  /\ UNCHANGED <<data, open, generation, texts, callVars, printed, phase, heap, fault>>

Opens(op) == operator[op] = "opening" /\ Len(open) < Len(FileNames)

OpenFile(op) ==
  /\ Opens(op)
  /\ open' = Append(open, FileNames[Len(open) + 1])
  /\ UNCHANGED <<data, operator, generation, texts, callVars, printed, phase, heap, fault>>

\* The files opened before are closed, and nothing tells the operator.
OpenFails(op) ==
  /\ Opens(op)
  /\ open' = <<>>
  /\ operator' = [operator EXCEPT ![op] = "failed"]
  /\ UNCHANGED <<data, generation, texts, callVars, printed, phase, heap, fault>>

\* Tagger(): new structures in the globals, whatever these held.
Load(op) ==
  /\ operator[op] = "opening" /\ Len(open) = Len(FileNames)
  /\ open' = <<>>
  /\ operator' = [operator EXCEPT ![op] = "ready"]
  /\ generation' = generation + 1
  /\ Memory(Structures(generation + 1)
              \union Entries(generation + 1, [p \in Parts |-> Kept(p)]), {}, {})
  /\ UNCHANGED <<data, texts, callVars, printed, phase>>

AllConstructed ==
  /\ phase = "constructing" /\ \A op \in Operators : operator[op] \in {"ready", "failed"}
  /\ phase' = "running"
  /\ UNCHANGED <<dataVars, callVars, printed, heap, fault>>

-----------------------------------------------------------------------------
(* tag(): first the start state tagger.                                    *)

UnknownWords == {w \in ToSet(corpus) : ~Known(data, w)}

\* The first occurrence of each unknown word goes into the registry.
Assigned == {j \in DOMAIN corpus : ~Known(data, corpus[j]) /\ j \in NewLines(corpus)}

\* Mutant of Surrounding: the end of the text is forgotten.
SurroundingButLast ==
  UNION {{<<corpus[j], corpus[j + 1]>>} \union
           (IF j = 1 THEN {} ELSE {<<corpus[j - 1], corpus[j]>>}) :
         j \in {k \in 1..(Len(corpus) - 1) : ~Known(data, corpus[k])}}

\* The pairs an unknown word makes with the words before and after it: in the
\* middle of the text, at its start, at its end.
Surrounding ==
  LET last  == Len(corpus)
      after(j)  == {<<corpus[j], corpus[j + 1]>>}
      before(j) == {<<corpus[j - 1], corpus[j]>>}
      pairs(j)  == IF j # 1 /\ j # last THEN after(j) \union before(j)
                   ELSE IF j # last THEN after(j)
                   ELSE IF j # 1 THEN before(j) ELSE {}
  IN  UNION {pairs(j) : j \in {k \in DOMAIN corpus : ~Known(data, corpus[k])}}

FiledBigrams ==
  {b \in ToSet(data.bigrams) : \/ b[1] \in good_right(data) /\ b[2] \in UnknownWords
                               \/ b[2] \in good_left(data) /\ b[1] \in UnknownWords}

WordBlocks(js)    == {<<"word", j>> : j \in js}
BigramBlocks(set) == {<<"bigram", b>> : b \in set}

\* Without loaded data the call ends the process, as its comment says.
Tag(op) ==
  /\ phase = "running" /\ texts > 0 /\ operator[op] \in {"ready", "failed"}
  /\ texts' = texts - 1
  /\ \E n \in 0..MaxWords : corpus' \in [1..n -> Vocabulary]
  /\ phase' = IF generation = 0 THEN "crashed" ELSE "read"
  /\ printed' = <<>>
  /\ UNCHANGED <<data, operator, open, generation, heap, fault,
                 bigram_hash, tag_array, freeptrs, tagged, rule>>

ReadCorpus ==
  /\ phase = "read"
  /\ bigram_hash' = Surrounding
  /\ Memory(WordBlocks(DOMAIN corpus) \union BigramBlocks(Surrounding),
            Uses(generation), WordBlocks(DOMAIN corpus \ Assigned))
  /\ phase' = "filed"
  /\ UNCHANGED <<dataVars, corpus, tag_array, freeptrs, tagged, printed, rule>>

StartTags ==
  /\ phase = "filed"
  /\ bigram_hash' = bigram_hash \union FiledBigrams
  /\ Memory(BigramBlocks(FiledBigrams \ bigram_hash), Uses(generation), {})
  /\ tag_array' = [w \in UnknownWords |-> [tag |-> StartTag(w), block |-> <<>>]]
  /\ freeptrs' = <<>> /\ rule' = 1
  /\ phase' = "lexical"
  /\ UNCHANGED <<dataVars, corpus, tagged, printed>>

\* The fields of the rule are blocks; the tag among them stays if a word got it.
Field(i, name) == <<"rule", i, name>>
Fields(i)      == {Field(i, n) : n \in {"op", "arg", "tag", "rest"}}

Fired(r) == {w \in DOMAIN tag_array :
               Eligible(r, tag_array[w].tag) /\ Applies(data, bigram_hash, r, w)}

\* Mutant of TagKept: every field of the rule is freed
TagFreed(fired) == <<>>

TagKept(fired) == IF fired = {} THEN <<>> ELSE <<Field(rule, "tag")>>

SetTagVal(fired, r) ==
  /\ tag_array' = [w \in DOMAIN tag_array |->
                     IF w \in fired THEN [tag |-> r.new, block |-> Field(rule, "tag")]
                     ELSE tag_array[w]]
  /\ freeptrs' = freeptrs \o TagKept(fired)

LexicalRule ==
  /\ phase = "lexical" /\ rule <= Len(data.lexical)
  /\ LET r == data.lexical[rule]
     IN  /\ SetTagVal(Fired(r), r)
         /\ Memory(Fields(rule), Uses(generation),
                   Fields(rule) \ ToSet(TagKept(Fired(r))))
  /\ rule' = rule + 1
  /\ UNCHANGED <<dataVars, phase, corpus, bigram_hash, tagged, printed>>

\* A word with two slashes is pretagged, and passed on as it is.
Pretagged(word) ==
  LET slash == IndexIn(word, "/")
  IN  slash \in 1..(Len(word) - 1) /\ word[slash + 1] = "/"

StartState(word) ==
  IF Pretagged(word) THEN word
  ELSE word \o <<"/", IF Known(data, word) THEN lexicon_hash(data, word) ELSE tag_array[word].tag>>

\* What the final state tagger makes of it: it splits at the last slash.
Entered(token) ==
  LET slash == SelectLastInSeq(token, LAMBDA c : c = "/")
  IN  [word |-> SubSeq(token, 1, slash - 1),
       tag  |-> IF slash = Len(token) THEN "" ELSE token[slash + 1], own |-> TRUE]

Start == [word |-> staart, tag |-> "STAART", own |-> FALSE]

CorpusEntries == [i \in DOMAIN corpus |-> Entered(StartState(corpus[i]))]

TagBlocks(seq) == {<<"tag", i>> : i \in {j \in DOMAIN seq : seq[j].own}}
CopyBlocks(n)  == {<<"copy", i>> : i \in 3..n}

\* Each tag that is a block is read, then all the first stage holds is freed.
OutputTags ==
  /\ phase = "lexical" /\ rule > Len(data.lexical)
  /\ tagged' = IF corpus = <<>> THEN <<>> ELSE <<Start, Start>> \o CorpusEntries
  /\ Memory(TagBlocks(tagged') \union CopyBlocks(Len(tagged')),
            Uses(generation) \union ({tag_array[w].block : w \in DOMAIN tag_array} \ {<<>>}),
            WordBlocks(Assigned) \union BigramBlocks(bigram_hash) \union ToSet(freeptrs))
  /\ rule' = 1 /\ phase' = "contextual"
  /\ bigram_hash' = {} /\ freeptrs' = <<>> /\ tag_array' = <<>>
  /\ UNCHANGED <<dataVars, corpus, printed>>

-----------------------------------------------------------------------------
(* Then the final state tagger, which changes tags in place.               *)

change_the_tag(seq, i, tag) == [seq EXCEPT ![i].tag = tag, ![i].own = TRUE]

ContextualRule ==
  /\ phase = "contextual" /\ rule <= Len(data.contextual)
  /\ LET r == data.contextual[rule]
         step(seq, i) == IF Changes(data, seq, i, r) THEN change_the_tag(seq, i, r.new) ELSE seq
         pass[i \in 0..Len(tagged)] == IF i = 0 THEN tagged ELSE step(pass[i - 1], i)
     IN  tagged' = pass[Len(tagged)]
  /\ Memory(TagBlocks(tagged') \ TagBlocks(tagged), Uses(generation) \union TagBlocks(tagged), {})
  /\ rule' = rule + 1
  /\ UNCHANGED <<dataVars, phase, corpus, bigram_hash, tag_array, freeptrs, printed>>

PrintedWord(entry) ==
  [word |-> entry.word, tag |-> entry.tag,
   line |-> EnhancePennTag(entry.word, entry.tag, lemma_hash(data, entry.word))]

\* Positions tagged STAART are not printed.  The arrays are released.
PrintTags ==
  /\ phase = "contextual" /\ rule > Len(data.contextual)
  /\ LET lines[i \in 0..Len(tagged)] ==
           IF i = 0 THEN <<>>
           ELSE IF tagged[i].tag = "STAART" THEN lines[i - 1]
           ELSE Append(lines[i - 1], PrintedWord(tagged[i]))
     IN  printed' = lines[Len(tagged)]
  /\ Memory({}, Uses(generation), TagBlocks(tagged) \union CopyBlocks(Len(tagged)))
  /\ tagged' = <<>>
  /\ phase' = "running"
  /\ UNCHANGED <<dataVars, corpus, bigram_hash, tag_array, freeptrs, rule>>

-----------------------------------------------------------------------------
(* Shutdown of the processing element: the destructors.                    *)

StopProcessing ==
  /\ phase = "running"
  /\ phase' = "destroying"
  /\ UNCHANGED <<dataVars, callVars, printed, heap, fault>>

\* The entries of every part, then the part itself.
Destroyed(g) == StoredEntries(g) \union Structures(g)

destroy_tagger(op) ==
  /\ phase = "destroying" /\ operator[op] \in {"ready", "failed"}
  /\ operator' = [operator EXCEPT ![op] = "gone"]
  /\ IF generation = 0 THEN phase' = "crashed" /\ UNCHANGED <<heap, fault>>
     ELSE UNCHANGED phase /\ Memory({}, {}, Destroyed(generation))
  /\ UNCHANGED <<data, open, generation, texts, callVars, printed>>

Init ==
  /\ data \in DataFiles
  /\ phase = "constructing" /\ operator = [op \in Operators |-> "new"]
  /\ open = <<>> /\ generation = 0 /\ texts = MaxTexts
  /\ heap = {} /\ fault = FALSE
  /\ corpus = <<>> /\ bigram_hash = {} /\ tag_array = <<>> /\ freeptrs = <<>>
  /\ tagged = <<>> /\ rule = 1 /\ printed = <<>>

Next ==
  \/ \E op \in Operators : \/ Construct(op) \/ OpenFile(op) \/ OpenFails(op) \/ Load(op)
                           \/ Tag(op) \/ destroy_tagger(op)
  \/ AllConstructed \/ ReadCorpus \/ StartTags \/ LexicalRule \/ OutputTags
  \/ ContextualRule \/ PrintTags \/ StopProcessing

Spec == Init /\ [][Next]_vars

-----------------------------------------------------------------------------
\* Destroying an array or a registry is its last use, as darray.h and registry.h
\* say, and so is the release of any other block: nothing is used or released
\* that has been released before.
LastUse == ~fault

\* A text leaves nothing behind: between two texts exactly the loaded data is
\* allocated, however rules have handed blocks from one list to another; after
\* the destructor nothing is; and no file stays open, whichever could not be
\* opened.
NothingLeft ==
  /\ phase = "running" => heap = IF generation = 0 THEN {} ELSE Uses(generation)
  /\ (\A op \in Operators : operator[op] = "gone") => heap = {}
  /\ (\A op \in Operators : operator[op] # "opening") => open = <<>>

\* A word of the lexicon comes out as it is, in its place, with a tag its lines
\* list, through the start tag, the joined text in between, its split at a slash
\* and all contextual rules.
KnownWordsKeepListedTags ==
  phase = "running" =>
    /\ Len(printed) = Len(corpus)
    /\ \A i \in DOMAIN corpus :
         Known(data, corpus[i]) /\ ~Pretagged(corpus[i]) =>
           /\ printed[i].word = corpus[i]
           /\ <<corpus[i], <<printed[i].tag>>>> \in seenTagging(data)

\* The pairs a word of this text makes with its neighbours, if it or the
\* neighbour is unknown, and those of the file that the rules ask for.
PairsOfText ==
  LET unknown(j) == ~Known(data, corpus[j])
      asked(b)   == \E r \in ToSet(data.lexical) :
                      \/ r.op = "goodright" /\ r.arg = b[1] /\ b[2] \in ToSet(corpus)
                      \/ r.op = "goodleft" /\ r.arg = b[2] /\ b[1] \in ToSet(corpus)
  IN  {<<corpus[j], corpus[j + 1]>> :
         j \in {k \in 1..(Len(corpus) - 1) : unknown(k) \/ unknown(k + 1)}}
        \union {b \in ToSet(data.bigrams) : asked(b)}

\* The tag of the word after each of the lexical rules, applied to it alone.
TagByRules(word) ==
  LET step(tag, r) == IF Eligible(r, tag) /\ Applies(data, PairsOfText, r, word) THEN r.new ELSE tag
      made[k \in 0..Len(data.lexical)] ==
        IF k = 0 THEN StartTag(word) ELSE step(made[k - 1], data.lexical[k])
  IN  made[Len(data.lexical)]

\* The start tag of each unknown word is what the lexical rules make of that word
\* alone, with the pairs of neighbours in this text and the filed pairs its rules
\* ask for: nothing of earlier texts, of other words or of the order they are
\* stored in has a part in it.
StartTagsAsDefined ==
  phase = "contextual" /\ rule = 1 =>
    \A i \in DOMAIN corpus :
      ~Known(data, corpus[i]) /\ ~Pretagged(corpus[i]) =>
        tagged[i + 2].tag = TagByRules(corpus[i])
==============================================================================
