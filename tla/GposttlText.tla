----------------------------- MODULE GposttlText -----------------------------
(***************************************************************************)
(* The text functions of the tagger: useful.c, lex.c, tokenizer.c,         *)
(* enhance_penntag.c and the case-insensitive hash of registry.c.  A text  *)
(* is a sequence of characters, and a tag counts as one character.  Only   *)
(* operators: the modules that use them bring the state.                   *)
(***************************************************************************)
EXTENDS Integers, SequencesExt

Blank == {" ", "\t"}

Capitals == <<"A","B","C","D","E","F","G","H","I","J","K","L","M",
              "N","O","P","Q","R","S","T","U","V","W","X","Y","Z">>
Smalls   == <<"a","b","c","d","e","f","g","h","i","j","k","l","m",
              "n","o","p","q","r","s","t","u","v","w","x","y","z">>
Digits   == {"0","1","2","3","4","5","6","7","8","9"}

IndexIn(seq, c) == SelectInSeq(seq, LAMBDA d : d = c)

tolower(c) == IF c \in ToSet(Capitals) THEN Smalls[IndexIn(Capitals, c)] ELSE c
mylc(word) == [i \in DOMAIN word |-> tolower(word[i])]

Repeated(c, n) == [i \in 1..n |-> c]

\* The pieces of s between characters of seps, empty ones included.
Pieces(s, seps) ==
  LET pieces[k \in 0..Len(s)] ==
        IF k = 0 THEN <<<<>>>>
        ELSE LET ps == pieces[k - 1]
             IN  IF s[k] \in seps THEN Append(ps, <<>>)
                 ELSE [ps EXCEPT ![Len(ps)] = Append(@, s[k])]
  IN  pieces[Len(s)]

\* strtok() and the char_separator of the Boost tokenizer: no empty pieces.
Tokens(s, seps) ==
  LET tokens[k \in 0..Len(s)] ==
        IF k = 0 THEN <<>>
        ELSE LET ts == tokens[k - 1]
             IN  IF s[k] \in seps THEN ts
                 ELSE IF k = 1 \/ s[k - 1] \in seps THEN Append(ts, <<s[k]>>)
                 ELSE [ts EXCEPT ![Len(ts)] = Append(@, s[k])]
  IN  tokens[Len(s)]

-----------------------------------------------------------------------------
(* useful.c and lex.c.                                                     *)

not_just_blank(s) == \E i \in DOMAIN s : s[i] \notin Blank \union {"\n"}

\* One less than the number of words: blanks that are followed by a word.
num_words(s) ==
  LET skip[i \in 1..(Len(s) + 1)] ==
        IF i <= Len(s) /\ s[i] \in Blank THEN skip[i + 1] ELSE i
      count[i \in 1..(Len(s) + 1)] ==
        IF i > Len(s) THEN 0
        ELSE IF s[i] \notin Blank THEN count[i + 1]
        ELSE IF skip[i + 1] > Len(s) THEN 0 ELSE 1 + count[skip[i + 1]]
  IN  count[skip[1]]

numspaces(s) == Cardinality({i \in DOMAIN s : s[i] = " "})

\* The words, as perl_split and perl_split_independent return them, and the
\* pointers they allocate room for, leading blanks not counted.
perl_split(s) == Tokens(s, Blank)

Unindented(s) ==
  LET first == SelectInSeq(s, LAMBDA c : c \notin Blank)
  IN  IF first = 0 THEN <<>> ELSE SubSeq(s, first, Len(s))

\* Mutant of SplitSlots: no slot for the end mark
SlotsBetweenWords(s) == numspaces(Unindented(s)) + 1

SplitSlots(s) == numspaces(Unindented(s)) + 3

-----------------------------------------------------------------------------
(* tokenizer.c.                                                            *)

\* The first place from i on where p stands in s, 0 if none.
strstr(s, p, i) ==
  LET places == {k \in i..(Len(s) - Len(p) + 1) : SubSeq(s, k, k + Len(p) - 1) = p}
  IN  IF places = {} THEN 0 ELSE CHOOSE k \in places : \A l \in places : k <= l

\* The first pass counts, to know how much to allocate for the second.
\* Mutant of Occurrences: the count goes on inside the occurrence it has found.
OverlappingOccurrences(s, p) ==
  LET n[i \in 1..(Len(s) + 1)] == IF strstr(s, p, i) = 0 THEN 0 ELSE 1 + n[strstr(s, p, i) + 1]
  IN  n[1]

Occurrences(s, p) ==
  LET n[i \in 1..(Len(s) + 1)] ==
        IF strstr(s, p, i) = 0 THEN 0 ELSE 1 + n[strstr(s, p, i) + Len(p)]
  IN  n[1]

Allocated(s, p, to) == Len(s) + 1 + Occurrences(s, p) * (Len(to) - Len(p))

replace(s, p, to) ==
  LET copied[i \in 1..(Len(s) + 1)] ==
        LET k == strstr(s, p, i)
        IN  IF k = 0 THEN SubSeq(s, i, Len(s))
            ELSE SubSeq(s, i, k - 1) \o to \o copied[k + Len(p)]
  IN  copied[1]

\* The shapes of the table's rows: the table has them for many words, which are
\* data, and here there is a row or two for each shape, in its order.
Spaced(c)       == <<<<c>>, <<" ", c, " ">>>>
Ending(c)       == <<<<c, " ">>, <<" ", c, " ">>>>
Clitic(s)       == <<s, <<" ">> \o s>>
Contraction(s, t) == <<<<" ">> \o s \o t \o <<" ">>, <<" ">> \o s \o <<" ">> \o t \o <<" ">>>>
Abbreviation(s) == <<s \o <<" ", ".">>, s \o <<".">>>>

\* Mutant of token_list: angle brackets are forgotten.
token_list_without_brackets == <<Spaced("\""), Spaced(","), Ending("."), Spaced("["), Spaced("]")>>

token_list ==
  <<Spaced("\""), Spaced(","), Spaced(";"), Spaced(":"), Ending("?"), Ending("!"), Ending("."),
    Spaced("["), Spaced("]"), <<<<" ", "(">>, <<" ", "(", " ">>>>, Ending(")"),
    Clitic(<<")", ".">>), Spaced("<"), Spaced(">"), <<<<"-", "-">>, <<" ", "-", "-", " ">>>>,
    Clitic(<<"'", "s", " ">>), Clitic(<<"n", "'", "t", " ">>),
    Contraction(<<"c", "a", "n">>, <<"n", "o", "t">>),
    <<<<".", ".", " ", ".">>, <<" ", ".", ".", ".">>>>,
    Abbreviation(<<"V", "a">>), Abbreviation(<<"v">>)>>

\* The text after each row of the table.
Retokenized(s) ==
  LET after[r \in 0..Len(token_list)] ==
        IF r = 0 THEN s ELSE replace(after[r - 1], token_list[r][1], token_list[r][2])
  IN  after

Tokenizer(s) == Retokenized(s)[Len(token_list)]

-----------------------------------------------------------------------------
(* enhance_penntag.c: the line printed for a word.                         *)

Unknown == <<"<unknown>">>

tag_map == [tag \in {"PRP", "PRP$", "NNP", "NNPS", "."} |->
              CASE tag = "PRP" -> "PP"   [] tag = "PRP$" -> "PP$"
                [] tag = "NNP" -> "NP"   [] tag = "NNPS" -> "NPS"
                [] tag = "."   -> "SENT"]

have_map == [VB |-> "VH", VBD |-> "VHD", VBG |-> "VHG", VBN |-> "VHN", VBP |-> "VHP", VBZ |-> "VHZ"]
verb_map == [VB |-> "VV", VBD |-> "VVD", VBG |-> "VVG", VBN |-> "VVN", VBP |-> "VVP", VBZ |-> "VVZ"]

have_verbs == {<<"h","a","v","e">>, <<"h","a","s">>, <<"h","a","d">>,
               <<"h","a","v","i","n","g">>, <<"'","v","e">>, <<"'","d">>}
be_verbs   == {<<"b","e">>, <<"b","e","e","n">>, <<"b","e","i","n","g">>, <<"a","m">>,
               <<"i","s">>, <<"a","r","e">>, <<"w","a","s">>, <<"w","e","r","e">>, <<"'","m">>}

Inflected == {"NNPS", "NNS", "VBG", "VBN", "VBZ", "VBD"}

Line(word, tag, lemma) == word \o <<"\t", tag, "\t">> \o lemma \o <<"\n">>

EnhancePennTag(word, tag, lemma) ==
  LET my_word == mylc(word)
      known   == IF lemma = Unknown /\ tag \notin Inflected THEN my_word ELSE lemma
  IN  IF {"<", ">"} \subseteq ToSet(word) THEN Append(word, "\n")
      ELSE IF tag \in DOMAIN tag_map THEN Line(word, tag_map[tag], known)
      ELSE IF tag \notin DOMAIN verb_map THEN Line(word, tag, known)
      ELSE IF my_word \in have_verbs THEN Line(word, have_map[tag], <<"h","a","v","e">>)
      ELSE IF my_word \in be_verbs THEN Line(word, tag, <<"b","e">>)
      ELSE Line(word, verb_map[tag], known)
==============================================================================
