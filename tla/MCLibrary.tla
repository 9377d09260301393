------------------------------ MODULE MCLibrary ------------------------------
(***************************************************************************)
(* The parts of the text library side by side: an array, a registry and a  *)
(* text.  They share nothing, so a behaviour uses one of them only, and    *)
(* the states of the three are added up, not multiplied.                   *)
(***************************************************************************)
EXTENDS Registry, TextUtils

CONSTANTS k1, k2, k3  \* values: the first two are equal as keys

\* In a table of one or two chains all keys share one, in a table of three not.
MCClass  == [k \in Value |-> IF k = k3 THEN "b" ELSE "a"]
MCHashOf == [c \in {"a", "b"} |-> IF c = "b" THEN 3 ELSE 1]

\* Each of the cases the tokenizer and the tagged text tell apart.
MCAlphabet == {"a", "V", " ", ".", "-", "<", ">", "\t"}

\* A few bits of a hash, so that some n-grams collide and some do not.
MCHashValues == [c \in Alphabet |-> IF c = "a" THEN 11 ELSE IF c = "V" THEN 5 ELSE 2]

MCTagOf(word) ==
  IF Head(word) = "V" THEN "VB" ELSE IF Head(word) = "a" THEN "NN" ELSE "."

NoArray    == ArrayInit
NoRegistry == RegistryInit

MCInit == ArrayInit /\ RegistryInit /\ TextInit

MCNext ==
  \/ NoRegistry /\ text = <<>> /\ ArrayNext /\ UNCHANGED <<rvars, text>>
  \/ NoArray /\ text = <<>> /\ RegistryNext /\ UNCHANGED <<arrayVars, text>>
  \/ NoArray /\ NoRegistry /\ WriteText /\ UNCHANGED <<arrayVars, rvars>>

\* The steps are told apart by what was called, the states need not be: no step
\* depends on the call before it, but for the bit that it changes.
MCView == <<dar, result, hash_table, record_count, answer, text>>

MCSpec == MCInit /\ [][MCNext]_<<arrayVars, rvars, text>>
==============================================================================
