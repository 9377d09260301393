---------------------------- MODULE MCShellSource ----------------------------
(***************************************************************************)
(* Instances of ShellSource for TLC.                                       *)
(***************************************************************************)
EXTENDS ShellSource

MCText == {1}

\* Commands that print lines to both streams, an unfinished one, or nothing.
MCProgram ==
  { [line |-> <<>>, out |-> <<1, NL, 1>>, err |-> <<>>],
    [line |-> <<>>, out |-> <<1, NL>>,    err |-> <<1, NL>>],
    [line |-> <<>>, out |-> <<>>,         err |-> <<>>] }
==============================================================================
