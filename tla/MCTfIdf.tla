------------------------------- MODULE MCTfIdf -------------------------------
(***************************************************************************)
(* An instance of TfIdf for TLC: three terms, "a" a beginning of "ab"; two *)
(* training documents, whose counts reach two digits; and three documents  *)
(* to weigh, one of them empty and two in which a term is repeated.        *)
(***************************************************************************)
EXTENDS TfIdf

MCTerms     == {"a", "ab", "c"}
MCStumps    == [t \in MCTerms |-> IF t = "ab" THEN {"a", "ab"} ELSE {t}]
MCTrainings == {<<"a", "c">>, <<"ab", "ab", "ab", "ab", "ab", "ab", "a">>}
MCDocuments == {<<>>, <<"a", "ab", "a">>, <<"ab", "c", "ab">>}

\* 100 times the natural logarithms of 1, 2, ... 13, rounded; Idf is the
\* difference of two of them, log((1 + n) / (1 + f)).
MCLog      == <<0, 69, 110, 139, 161, 179, 195, 208, 220, 230, 240, 248, 256>>
MCIdf(n, f) == MCLog[n + 1] - MCLog[f + 1]
==============================================================================
