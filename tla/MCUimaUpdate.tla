---------------------------- MODULE MCUimaUpdate ----------------------------
(***************************************************************************)
(* UimaUpdate with two operators, one of them with a control port.         *)
(***************************************************************************)
EXTENDS UimaUpdate, TLC

CONSTANTS U, V, d1, d2, c1, f, g

MCFeeds == [c \in ControlThreads |-> HasControlPort]

\* Threads and files are interchangeable, and no operator is.
Symmetry == Permutations({d1, d2}) \union Permutations({f, g})
==============================================================================
