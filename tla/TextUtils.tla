------------------------------ MODULE TextUtils ------------------------------
(***************************************************************************)
(* The text functions of the toolkit: TextUtilsFunctions.cpp (lemmatize,   *)
(* generateNgram), Ngrams.h and its rolling hash, and the noun phrases of  *)
(* gposttl.c.  Each is a function of the text a caller has; `text' is that *)
(* text, and grows by one character at a time.                             *)
(***************************************************************************)
EXTENDS GposttlText

CONSTANTS
  Alphabet,      \* the characters a text is made of
  MaxText,       \* the length of a text: a bound
  TagOf(_),      \* the tag the tagger gives a word
  UintBits,      \* width of an unsigned int
  wordsize,      \* bits of the rolling hash
  hashvalues     \* the number it has for each character

ASSUME TextAssumption ==
  /\ MaxText \in Nat /\ UintBits \in Nat \ {0} /\ wordsize \in Nat \ {0}
  /\ 2^wordsize \in Nat \ {0} /\ MaxText < 2^UintBits
  /\ hashvalues \in [Alphabet -> Nat]

VARIABLE text

TextInit  == text = <<>>
WriteText == Len(text) < MaxText /\ \E c \in Alphabet : text' = Append(text, c)

TextSpec  == TextInit /\ [][WriteText]_text

Uint(n) == n % 2^UintBits

Join(words, sep) ==
  LET joined[k \in 1..Len(words)] ==
        IF k = 1 THEN words[1] ELSE joined[k - 1] \o sep \o words[k]
  IN  joined[Len(words)]

-----------------------------------------------------------------------------
(* lemmatize: what the tagger prints, taken apart again.                   *)

tag(buf) ==
  FlattenSeq([i \in DOMAIN perl_split(buf) |->
                EnhancePennTag(perl_split(buf)[i], TagOf(perl_split(buf)[i]), Unknown)])

lemmatize(s) ==
  LET lines     == Tokens(tag(Tokenizer(s)), {"\n"})
      fields    == [i \in DOMAIN lines |-> Tokens(lines[i], {"\t"})]
      column(n) ==
        LET pushed[k \in 0..Len(lines)] ==
              IF k = 0 THEN <<>>
              ELSE IF Len(fields[k]) >= n THEN Append(pushed[k - 1], fields[k][n])
              ELSE pushed[k - 1]
        IN  pushed[Len(lines)]
  IN  [words |-> column(1), pos |-> column(2), lemmas |-> column(3)]

-----------------------------------------------------------------------------
(* Noun phrases: the lemmas of consecutive nouns.                          *)

IsNoun(token) == token # <<>> /\ Head(token) \in {"N", "NN", "NNS", "NP", "NPS"}

\* Every third token is a lemma, and the one before it its tag.
check_and_tag(ptr0) ==
  LET tokens == Pieces(tag(Tokenizer(ptr0)), Blank \union {"\n"})
      words  == Len(tokens) \div 3
      series(from, to) == FlattenSeq([k \in 1..(to - from) |-> Append(tokens[3 * (from + k - 1)], " ")])
      insert(found, k) == [first |-> 0, dst |-> found.dst \union {series(found.first, k)}]
      after[k \in 0..words] ==
        IF k = 0 THEN [first |-> 0, dst |-> {}]
        ELSE LET found == after[k - 1]
             IN  IF found.first = 0 /\ IsNoun(tokens[3 * k - 1]) THEN [found EXCEPT !.first = k]
                 ELSE IF found.first # 0 /\ ~IsNoun(tokens[3 * k - 1]) THEN insert(found, k)
                 ELSE found
      last == after[words]
  IN  IF last.first # 0 THEN insert(last, words + 1).dst ELSE last.dst

\* Mutant of FindNounPhrase: no space at the end of the text.
FindWithoutSpace(input) ==
  check_and_tag([i \in DOMAIN input |-> IF input[i] = "\n" THEN " " ELSE input[i]])

FindNounPhrase(input) ==
  check_and_tag([i \in DOMAIN input |-> IF input[i] = "\n" THEN " " ELSE input[i]] \o
                IF input # <<>> /\ Last(input) # "\n" THEN <<" ">> ELSE <<>>)

-----------------------------------------------------------------------------
(* N-grams of words.  The number of terms is unsigned.                     *)

NumTerms(words, size) == Uint(Len(words) - size + 1)

Term(words, start, size) ==
  LET term[k \in 0..size] ==
        IF k = 0 THEN <<>>
        ELSE IF term[k - 1] = <<>> THEN words[start + k - 1]
        ELSE term[k - 1] \o <<" ">> \o words[start + k - 1]
  IN  term[size]

generateNgram(words, size) == [i \in 1..NumTerms(words, size) |-> Term(words, i, size)]

\* Mutant of generateNgrams: sizes in the wrong order are not put right.
SizesAsGiven(words, minSize, maxSize) ==
  FlattenSeq([k \in 1..(maxSize - minSize + 1) |-> generateNgram(words, minSize + k - 1)])

generateNgrams(words, minSize, maxSize) ==
  LET min == IF minSize > maxSize THEN maxSize ELSE minSize
  IN  FlattenSeq([k \in 1..(maxSize - min + 1) |-> generateNgram(words, min + k - 1)])

-----------------------------------------------------------------------------
(* N-grams of characters, counted by a rolling hash.                       *)

B       == 37
Mask(h) == h % 2^wordsize

BtoN(n) ==
  LET power[i \in 0..n] == IF i = 0 THEN 1 ELSE Mask(power[i - 1] * B)
  IN  power[n]

eat(h, inchar) == Mask(B * h + hashvalues[inchar])

\* Mutant of update: the outgoing character is taken out with the power it came in with.
UpdateOnePowerShort(h, n, outchar, inchar) ==
  Mask(B * h + hashvalues[inchar] - BtoN(n - 1) * hashvalues[outchar])

update(h, n, outchar, inchar) ==
  Mask(B * h + hashvalues[inchar] - BtoN(n) * hashvalues[outchar])

hash(c) ==
  LET answer[k \in 0..Len(c)] ==
        IF k = 0 THEN 0
        ELSE Mask(answer[k - 1] + Mask(BtoN(Len(c) - k) * hashvalues[c[k]]))
  IN  answer[Len(c)]

\* The hash of each n-gram of the data, in turn.
Hashes(data, n) ==
  LET h[k \in 0..Len(data)] ==
        IF k = 0 THEN 0
        ELSE IF k <= n THEN eat(h[k - 1], data[k])
        ELSE update(h[k - 1], n, data[k - n], data[k])
  IN  [i \in 1..(Len(data) - n + 1) |-> h[i + n - 1]]

\* The count of an n-gram is kept where its hash was first seen.
countNgrams(data, n) ==
  LET hs       == Hashes(data, n)
      first(k) == IndexIn(hs, hs[k])
      datavec[k \in 0..Len(hs)] ==
        IF k = 0 THEN [j \in DOMAIN hs |-> 1]
        ELSE IF first(k) = k THEN datavec[k - 1]
        ELSE [datavec[k - 1] EXCEPT ![first(k)] = @ + 1, ![k] = 0]
  IN  datavec[Len(hs)]

getNgrams(data, n) ==
  {<<SubSeq(data, i, i + n - 1), countNgrams(data, n)[i]>> :
     i \in {j \in DOMAIN countNgrams(data, n) : countNgrams(data, n)[j] > 0}}

-----------------------------------------------------------------------------
Windows(s, n) == [i \in 1..(Len(s) - n + 1) |-> SubSeq(s, i, i + n - 1)]

\* The words the tagger goes through: what the next four properties compare with.
Words == perl_split(Tokenizer(text))

\* Room for the words of a text is reserved before it is split, by counting
\* blanks in two ways (num_words, numspaces): both agree with the split, as long
\* as words are separated by spaces.
SplitFits ==
  /\ Words # <<>> => num_words(Tokenizer(text)) + 1 = Len(Words)
  /\ "\t" \notin ToSet(text) => Len(Words) + 1 <= SplitSlots(Tokenizer(text))

\* For each row of the tokenizer's table, applied to what the rows before it have
\* made of the text, the second pass writes as much as the first has allocated;
\* no row undoes another: in the end the punctuation stands alone and only spaces
\* have changed.
TokenizerSeparates ==
  LET after == Retokenized(text)
      unspaced(s) ==
        LET kept[k \in 0..Len(s)] ==
              IF k = 0 THEN <<>> ELSE IF s[k] = " " THEN kept[k - 1] ELSE Append(kept[k - 1], s[k])
        IN  kept[Len(s)]
  IN  /\ \A r \in DOMAIN token_list :
           Len(after[r]) + 1 = Allocated(after[r - 1], token_list[r][1], token_list[r][2])
      /\ unspaced(Tokenizer(text)) = unspaced(text)
      /\ \A i \in DOMAIN Words :
           ToSet(Words[i]) \intersect {"\"", ",", ";", ":", "[", "]", "<", ">"} # {}
             => Len(Words[i]) = 1

\* A word with both angle brackets is printed without tag and lemma, which would
\* shift the lists lemmatize fills; the tokenizer has taken such words apart, so
\* each word has its tag and its lemma at its own index.
ListsAligned ==
  LET lists == lemmatize(text)
  IN  /\ lists.words = Words
      /\ Len(lists.pos) = Len(Words) /\ Len(lists.lemmas) = Len(Words)
      /\ \A i \in DOMAIN Words :
           EnhancePennTag(Words[i], TagOf(Words[i]), Unknown)
             = Line(lists.words[i], lists.pos[i][1], lists.lemmas[i])

\* The longest series of consecutive nouns of the lists lemmatize fills, each as
\* its lemmas.
NounSeries(lists) ==
  LET noun(i)   == i \in DOMAIN lists.pos /\ IsNoun(lists.pos[i])
      phrase(p) == FlattenSeq([k \in 1..(p[2] - p[1] + 1) |->
                     Append(lists.lemmas[p[1] + k - 1], " ")])
      maximal   == {p \in (DOMAIN lists.pos) \X (DOMAIN lists.pos) :
                      /\ p[1] <= p[2] /\ \A k \in p[1]..p[2] : noun(k)
                      /\ ~noun(p[1] - 1) /\ ~noun(p[2] + 1)}
  IN  {phrase(p) : p \in maximal}

\* What FindNounPhrase makes of the printed lines agrees with the lists lemmatize
\* makes of them: noun phrases are the lemmas of the longest series of consecutive
\* nouns, all of them and nothing else, also at the ends of the text, which gets
\* a final space.
NounPhrasesAreMaximal == FindNounPhrase(text) = NounSeries(lemmatize(Append(text, " ")))

\* A list of n words has n - size + 1 terms of a size up to n + 1, each the
\* words of one window joined by spaces; several sizes give the terms of each.
\* Empty words at the start of a term leave no space.
NgramsAsDefined ==
  LET words == [i \in DOMAIN text |-> IF text[i] = " " THEN <<>> ELSE <<text[i]>>]
      term(window) ==
        LET first == SelectInSeq(window, LAMBDA w : w # <<>>)
        IN  IF first = 0 THEN <<>> ELSE Join(SubSeq(window, first, Len(window)), <<" ">>)
      terms(n) == [i \in DOMAIN Windows(words, n) |-> term(Windows(words, n)[i])]
      sizes    == 1..(Len(words) + 1)
  IN  \A lo, hi \in sizes :
        /\ lo <= hi => generateNgrams(words, lo, hi)
                         = FlattenSeq([k \in 1..(hi - lo + 1) |-> terms(lo + k - 1)])
        /\ hi <= lo => generateNgrams(words, lo, hi) = terms(hi)

\* The rolling hash of every window is the hash of its characters, however far
\* it has rolled; and without a collision the counts are those of the n-grams.
NgramsCounted ==
  \A n \in 1..Len(text) :
    LET grams == Windows(text, n)
        hs    == Hashes(text, n)
    IN  /\ \A i \in DOMAIN grams : hs[i] = hash(grams[i])
        /\ (\A i, j \in DOMAIN grams : hs[i] = hs[j] => grams[i] = grams[j])
             => getNgrams(text, n) =
                  {<<g, Cardinality({j \in DOMAIN grams : grams[j] = g})>> : g \in ToSet(grams)}
==============================================================================
