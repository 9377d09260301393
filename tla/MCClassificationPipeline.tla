----------------------- MODULE MCClassificationPipeline -----------------------
(***************************************************************************)
(* An instance of ClassificationPipeline for TLC.                          *)
(***************************************************************************)
EXTENDS ClassificationPipeline

MCText == 1..2

\* Three documents: two with one piece of text, and one without.
MCDocument(k) == <<<<1>>, <<2>>, <<>>>>[k]

\* A script that prints one line for each document; a line and its end fill
\* the pipe twice.
MCScript ==
  { [line |-> <<1>>, out |-> <<1, NL>>, err |-> <<2>>],
    [line |-> <<2>>, out |-> <<2, NL>>, err |-> <<>>],
    [line |-> <<>>,  out |-> <<NL>>,    err |-> <<>>] }
===============================================================================
