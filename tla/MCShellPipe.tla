----------------------------- MODULE MCShellPipe -----------------------------
(***************************************************************************)
(* Instances of ShellPipe for TLC.                                         *)
(***************************************************************************)
EXTENDS ShellPipe, TLC

\* Tuple k holds the text k.
MCText       == 1..2
MCPayload(k) == <<k>>

\* A filter: one line of output for a line of input, as the Python scripts
\* of the toolkit print.
MCFilter == { [line |-> <<k>>, out |-> <<k, NL>>, err |-> <<>>] : k \in MCText }

\* A command that prints no line, several lines or an unfinished one, on either
\* stream.
MCChatty ==
  { [line |-> <<1>>, out |-> <<1, NL>>,  err |-> <<1, NL>>],
    [line |-> <<1>>, out |-> <<1>>,      err |-> <<>>],
    [line |-> <<2>>, out |-> <<2, NL, NL, 2, NL>>, err |-> <<2>>],
    [line |-> <<2>>, out |-> <<>>,       err |-> <<2, NL>>] }

MCSymmetry == Permutations(Writers)
==============================================================================
