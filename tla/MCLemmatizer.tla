---------------------------- MODULE MCLemmatizer ----------------------------
(***************************************************************************)
(* Lemmatizer with small data files: a lexicon with a word of two tags and *)
(* a word on two lines, and for each kind of rule files that use it.       *)
(***************************************************************************)
EXTENDS Lemmatizer

CONSTANTS A, B  \* operators

LexiconLine(word, lemma, tags) == [word |-> word, lemma |-> lemma, tags |-> tags]

MCLexicon ==
  <<LexiconLine(<<"c">>, <<"c">>, <<"NN", "VB">>), LexiconLine(<<"t">>, <<"t","o">>, <<"VB">>),
    LexiconLine(<<"t">>, <<"t">>, <<"JJ">>)>>

Lexical(op, f, arg, new) == [op |-> op, f |-> f, arg |-> arg, old |-> "NN", new |-> new]

Contextual(old, new, when, args) == [old |-> old, new |-> new, when |-> when, args |-> args]

File(bigrams, lexical, contextual) ==
  [lexicon |-> MCLexicon, bigrams |-> bigrams, lexical |-> lexical, contextual |-> contextual]

MCDataFiles ==
  {File(<<>>, <<Lexical("hassuf", TRUE, <<"s">>, "NNS"), Lexical("deletesuf", FALSE, <<"s">>, "VB"),
                Lexical("char", TRUE, <<"s">>, "JJ")>>,
        <<Contextual("VB", "NN", "PREVTAG", <<"STAART">>),
          Contextual("NN", "VB", "NEXT1OR2WD", <<<<"t">>>>),
          Contextual("VB", "JJ", "WDPREVTAG", <<"VB", <<"t">>>>)>>),
   File(<<<<<<"c">>, <<"c","s">>>>, <<<<"s">>, <<"t">>>>>>,
        <<Lexical("goodright", FALSE, <<"c">>, "VB"), Lexical("goodleft", TRUE, <<"t">>, "JJ"),
          Lexical("goodleft", FALSE, <<"t">>, "NNS")>>,
        <<Contextual("NN", "JJ", "SURROUNDTAG", <<"VB", "VB">>)>>),
   File(<<>>, <<Lexical("haspref", FALSE, <<"s">>, "VB"), Lexical("deletepref", TRUE, <<"s">>, "JJ"),
                Lexical("addsuf", FALSE, <<"t">>, "NNP"), Lexical("addpref", FALSE, <<"c">>, "VB")>>,
        <<>>),
   File(<<<<<<"t">>, <<"s">>>>>>,
        <<Lexical("char", FALSE, <<"s">>, "NN"), Lexical("goodright", TRUE, <<"t">>, "VB"),
          Lexical("deletesuf", TRUE, <<"t">>, "JJ"), Lexical("addpref", TRUE, <<"c">>, "JJ")>>,
        <<Contextual("NN", "VB", "CURWD", <<<<"c">>>>),
          Contextual("VB", "NN", "RBIGRAM", <<<<"c">>, <<"t">>>>),
          Contextual("NN", "JJ", "LBIGRAM", <<<<"c">>, <<"s">>>>),
          Contextual("VB", "JJ", "NEXTBIGRAM", <<"VB", "JJ">>),
          Contextual("JJ", "NN", "PREVBIGRAM", <<"STAART", "VB">>)>>),
   File(<<>>, <<Lexical("haspref", TRUE, <<"s">>, "NNS"), Lexical("hassuf", FALSE, <<"t">>, "VB"),
                Lexical("addsuf", TRUE, <<"s">>, "JJ"), Lexical("deletepref", FALSE, <<"c">>, "JJ")>>,
        <<Contextual("VB", "JJ", "WDAND2AFT", <<<<"t">>, <<"c">>>>),
          Contextual("JJ", "VB", "WDAND2TAGBFR", <<"STAART", <<"t">>>>),
          Contextual("CD", "NN", "WDNEXTTAG", <<<<"1">>, "VB">>),
          Contextual("NN", "VB", "PREV1OR2OR3TAG", <<"NN">>)>>)}

MCVocabulary == {<<"c">>, <<"t">>, <<"s">>, <<"c","s">>, <<"s","t">>, <<"T">>, <<"1">>,
                 <<"c","/","/","VB">>, <<"s","/","/">>}
==============================================================================
