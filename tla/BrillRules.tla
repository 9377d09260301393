----------------------------- MODULE BrillRules -----------------------------
(***************************************************************************)
(* What the data files of the tagger mean: the lexicon of tagger.c, the    *)
(* lexical rules of start-state-tagger.c and the contextual rules of       *)
(* final-state-tagger.c.  Only operators; `data' is the content of the     *)
(* four files:                                                             *)
(*   lexicon     lines [word, lemma, tags], the likeliest tag first        *)
(*   bigrams     pairs of words                                            *)
(*   lexical     rules [op, f, arg, old, new]; f is the variant for words  *)
(*               tagged old (fchar, fhaspref, ...)                         *)
(*   contextual  rules [old, new, when, args]                              *)
(* A registry that is filled once and then read is the set or the function *)
(* it holds.                                                               *)
(***************************************************************************)
EXTENDS GposttlText

-----------------------------------------------------------------------------
(* The registries of Tagger().                                             *)

\* The lines whose key is not there yet: for the others Registry_add fails.
NewLines(keys) == {i \in DOMAIN keys : \A j \in DOMAIN keys : j < i => keys[j] # keys[i]}

WordsOf(lexicon) == [i \in DOMAIN lexicon |-> lexicon[i].word]

Known(data, word)       == \E i \in DOMAIN data.lexicon : data.lexicon[i].word = word
Entry(data, word)       == data.lexicon[IndexIn(WordsOf(data.lexicon), word)]
lexicon_hash(data, word) == Head(Entry(data, word).tags)

lemma_hash(data, word) ==
  IF Known(data, word) THEN Entry(data, word).lemma
  ELSE IF Known(data, mylc(word)) THEN Entry(data, mylc(word)).lemma
  ELSE Unknown

\* Word and every later field of its lines, the lemma included.
SeenKeys(data) ==
  FlattenSeq([i \in DOMAIN data.lexicon |->
    LET l == data.lexicon[i]
    IN  <<<<l.word, l.lemma>>>> \o [k \in DOMAIN l.tags |-> <<l.word, <<l.tags[k]>>>>]])

seenTagging(data) == ToSet(SeenKeys(data))

\* The words lexical rules want to see to the left or to the right, by their lines.
GoodKeys(data, op) ==
  [i \in {j \in DOMAIN data.lexical : data.lexical[j].op = op} |-> data.lexical[i].arg]

good_right(data) == ToSet(GoodKeys(data, "goodright"))
good_left(data)  == ToSet(GoodKeys(data, "goodleft"))

-----------------------------------------------------------------------------
(* Lexical rules, for words that are not in the lexicon.                   *)

StartTag(word) ==
  IF Head(word) \in Digits THEN "CD"
  ELSE IF Head(word) \in ToSet(Capitals) THEN "NNP" ELSE "NN"

\* addpref and faddpref look at words that have the new tag already.
Eligible(r, tag) ==
  \/ r.op = "addpref" /\ tag = r.new
  \/ r.op # "addpref" /\ r.f /\ tag = r.old
  \/ r.op # "addpref" /\ ~r.f /\ tag # r.new

HasChar(r, word)   == ToSet(word) \intersect ToSet(r.arg) # {}
HasPrefix(r, word) == IsPrefix(r.arg, word)
HasSuffix(r, word) == IsSuffix(r.arg, word)

WithoutPrefix(r, word) == SubSeq(word, Len(r.arg) + 1, Len(word))
WithoutSuffix(r, word) == SubSeq(word, 1, Len(word) - Len(r.arg))

KnownExtension(data, r, word) ==
  \/ r.op = "addpref" /\ Known(data, r.arg \o word)
  \/ r.op = "addsuf" /\ Known(data, word \o r.arg)

GoodNeighbour(bigram_hash, r, word) ==
  \/ r.op = "goodleft" /\ <<word, r.arg>> \in bigram_hash
  \/ r.op = "goodright" /\ <<r.arg, word>> \in bigram_hash

Applies(data, bigram_hash, r, word) ==
  \/ r.op = "char" /\ HasChar(r, word)
  \/ r.op = "haspref" /\ HasPrefix(r, word)
  \/ r.op = "hassuf" /\ HasSuffix(r, word)
  \/ r.op = "deletepref" /\ HasPrefix(r, word) /\ Known(data, WithoutPrefix(r, word))
  \/ r.op = "deletesuf" /\ HasSuffix(r, word) /\ Known(data, WithoutSuffix(r, word))
  \/ KnownExtension(data, r, word)
  \/ GoodNeighbour(bigram_hash, r, word)

-----------------------------------------------------------------------------
(* Contextual rules, for one position of the tagged text.                  *)

staart == <<"STAART">>

\* The distances at which a word or a tag is looked for.
TagAhead   == "NEXTTAG" :> {1} @@ "NEXT2TAG" :> {2} @@ "NEXT1OR2TAG" :> {1, 2} @@
              "NEXT1OR2OR3TAG" :> {1, 2, 3}
TagBehind  == "PREVTAG" :> {-1} @@ "PREV2TAG" :> {-2} @@ "PREV1OR2TAG" :> {-1, -2} @@
              "PREV1OR2OR3TAG" :> {-1, -2, -3}
WordAhead  == "CURWD" :> {0} @@ "NEXTWD" :> {1} @@ "NEXT2WD" :> {2} @@ "NEXT1OR2WD" :> {1, 2} @@
              "NEXT1OR2OR3WD" :> {1, 2, 3}
WordBehind == "PREVWD" :> {-1} @@ "PREV2WD" :> {-2} @@ "PREV1OR2WD" :> {-1, -2} @@
              "PREV1OR2OR3WD" :> {-1, -2, -3}

TagAt  == TagAhead @@ TagBehind
WordAt == WordAhead @@ WordBehind

\* For rules with two arguments: what the first and the second are compared with.
PairAhead  == "RBIGRAM" :> <<<<"word", 0>>, <<"word", 1>>>> @@
              "WDNEXTTAG" :> <<<<"word", 0>>, <<"tag", 1>>>> @@
              "WDAND2AFT" :> <<<<"word", 0>>, <<"word", 2>>>> @@
              "WDAND2TAGAFT" :> <<<<"word", 0>>, <<"tag", 2>>>> @@
              "NEXTBIGRAM" :> <<<<"tag", 1>>, <<"tag", 2>>>>
PairBehind == "LBIGRAM" :> <<<<"word", -1>>, <<"word", 0>>>> @@
              "WDPREVTAG" :> <<<<"tag", -1>>, <<"word", 0>>>> @@
              "WDAND2BFR" :> <<<<"word", -2>>, <<"word", 0>>>> @@
              "WDAND2TAGBFR" :> <<<<"tag", -2>>, <<"word", 0>>>> @@
              "PREVBIGRAM" :> <<<<"tag", -2>>, <<"tag", -1>>>>
Pairs == PairAhead @@ PairBehind @@ "SURROUNDTAG" :> <<<<"tag", -1>>, <<"tag", 1>>>>

HasTag(corpus, i, tag)   == i \in DOMAIN corpus /\ corpus[i].tag = tag
HasWord(corpus, i, word) == i \in DOMAIN corpus /\ corpus[i].word = word

Matches(corpus, i, place, arg) ==
  \/ place[1] = "tag" /\ HasTag(corpus, i + place[2], arg)
  \/ place[1] = "word" /\ HasWord(corpus, i + place[2], arg)

Triggered(corpus, i, r) ==
  \/ r.when \in DOMAIN TagAt /\ \E d \in TagAt[r.when] : HasTag(corpus, i + d, r.args[1])
  \/ r.when \in DOMAIN WordAt /\ \E d \in WordAt[r.when] : HasWord(corpus, i + d, r.args[1])
  \/ r.when \in DOMAIN Pairs /\ \A k \in 1..2 : Matches(corpus, i, Pairs[r.when][k], r.args[k])

\* Mutant of Permitted: RESTRICT_MOVE is not heeded
AnyTag(data, word, tag) == TRUE

\* RESTRICT_MOVE: a word of the lexicon gets no tag its lines do not list.
Permitted(data, word, tag) ==
  ~Known(data, word) \/ <<word, <<tag>>>> \in seenTagging(data)

Changes(data, corpus, i, r) ==
  /\ corpus[i].tag = r.old
  /\ Permitted(data, corpus[i].word, r.new)
  /\ Triggered(corpus, i, r)
==============================================================================
