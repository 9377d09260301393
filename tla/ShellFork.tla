------------------------------ MODULE ShellFork ------------------------------
(***************************************************************************)
(* LinuxShell::setup() seen from the process: several operators of one PE  *)
(* make pipes and fork shells in the same file table.  A child inherits    *)
(* every descriptor its parent holds when it forks, so each operator's end *)
(* of file depends on what the others were doing at that moment.           *)
(*                                                                         *)
(* Constructors of ShellPipe run one after the other on one thread; with   *)
(* initOnFirstTuple, and in ShellSource, setup() runs on the threads of    *)
(* the operators.  Sequential tells which.  stdout stands for both output  *)
(* streams, which setup() treats alike.                                    *)
(***************************************************************************)
EXTENDS Integers, FiniteSets

CONSTANTS
  Operators,   \* operators of one PE that embed a LinuxShell
  Sequential,  \* does setup() run for one operator at a time?
  Rounds       \* shells each operator starts, one after the other: a bound

ASSUME OperatorAssumption == Operators # {}
ASSUME ModeAssumption     == Sequential \in BOOLEAN /\ Rounds \in Nat

PE == "pe"

(* The four ends of an operator's pipes.                                   *)
StdinRead(o)   == <<o, "stdinRead">>
StdinWrite(o)  == <<o, "stdinWrite">>
StdoutRead(o)  == <<o, "stdoutRead">>
StdoutWrite(o) == <<o, "stdoutWrite">>
EndsOf(o)      == {StdinRead(o), StdinWrite(o), StdoutRead(o), StdoutWrite(o)}
Ends           == UNION {EndsOf(o) : o \in Operators}
ParentEnds(o)  == {StdinWrite(o), StdoutRead(o)}   \* kept by the operator
ChildEnds(o)   == {StdinRead(o), StdoutWrite(o)}   \* kept by its shell

VARIABLES
  pc,       \* where each operator is: "pipe", "fcntl", "fork", "close", "running", "draining"
  child,    \* each operator's shell: "none", "forked", "executing" or "exited"
  open,     \* ends the PE holds
  cloexec,  \* ends the PE holds with FD_CLOEXEC
  held,     \* ends each shell holds
  doomed,   \* those of them its exec() will close
  round     \* shells each operator has finished

vars == <<pc, child, open, cloexec, held, doomed, round>>

Init ==
  /\ pc = [o \in Operators |-> "pipe"]
  /\ child = [o \in Operators |-> "none"]
  /\ open = {} /\ cloexec = {}
  /\ held = [o \in Operators |-> {}]
  /\ doomed = [o \in Operators |-> {}]
  /\ round = [o \in Operators |-> 0]

InSetup(o) == pc[o] \in {"fcntl", "fork", "close"}

Advance(o, from, to) == pc[o] = from /\ pc' = [pc EXCEPT ![o] = to]

-----------------------------------------------------------------------------
(* setup(): pipe() ...                                                     *)
MakePipes(o) ==
  /\ Advance(o, "pipe", "fcntl")
  /\ round[o] < Rounds
  /\ Sequential => \A p \in Operators : ~InSetup(p)
  /\ open' = open \cup EndsOf(o)
  /\ UNCHANGED <<child, cloexec, held, doomed, round>>

(* Mutant of MarkCloexec: no fcntl().                                      *)
MarkNothing(o) == Advance(o, "fcntl", "fork") /\ UNCHANGED <<child, open, cloexec, held, doomed, round>>

(* ... fcntl(F_SETFD, FD_CLOEXEC) for the ends the operator keeps ...      *)
MarkCloexec(o) ==
  /\ Advance(o, "fcntl", "fork")
  /\ cloexec' = cloexec \cup ParentEnds(o)
  /\ UNCHANGED <<child, open, held, doomed, round>>

(* ... fork(): the child gets a copy of the whole file table ...           *)
Fork(o) ==
  /\ Advance(o, "fork", "close")
  /\ child' = [child EXCEPT ![o] = "forked"]
  /\ held' = [held EXCEPT ![o] = open]
  /\ doomed' = [doomed EXCEPT ![o] = cloexec]
  /\ UNCHANGED <<open, cloexec, round>>

(* Mutant of CloseUnused: one of the calls to close() is missing.          *)
CloseIn(o, ends) ==
  /\ Advance(o, "close", "running")
  /\ open' = open \ ends
  /\ UNCHANGED <<child, cloexec, held, doomed, round>>
CloseInput(o) == CloseIn(o, {StdinRead(o)})

(* ... close() in the parent, of the ends that are the child's.            *)
CloseUnused(o) ==
  /\ Advance(o, "close", "running")
  /\ open' = open \ ChildEnds(o)
  /\ UNCHANGED <<child, cloexec, held, doomed, round>>

(* The child runs /bin/sh.                                                 *)
Exec(o) ==
  /\ child[o] = "forked"
  /\ child' = [child EXCEPT ![o] = "executing"]
  /\ held' = [held EXCEPT ![o] = @ \ doomed[o]]
  /\ UNCHANGED <<pc, open, cloexec, doomed, round>>

-----------------------------------------------------------------------------
(* Nobody, neither the PE nor a shell, holds an end of a pipe any more.    *)
Released(end) == end \notin open /\ \A o \in Operators : end \notin held[o]

(* The operator has no more input and closes the command's stdin ...       *)
CloseStdin(o) ==
  /\ Advance(o, "running", "draining")
  /\ open' = open \ {StdinWrite(o)} /\ cloexec' = cloexec \ {StdinWrite(o)}
  /\ UNCHANGED <<child, held, doomed, round>>

(* ... which the command sees when no copy of that end is left.            *)
Exit(o) ==
  /\ child[o] = "executing" /\ Released(StdinWrite(o))
  /\ child' = [child EXCEPT ![o] = "exited"]
  /\ held' = [held EXCEPT ![o] = {}]
  /\ UNCHANGED <<pc, open, cloexec, doomed, round>>

(* The reader sees the end of stdout and reaps the shell.                  *)
Drain(o) ==
  /\ child[o] = "exited" /\ Released(StdoutWrite(o))
  /\ Advance(o, "draining", "pipe")
  /\ child' = [child EXCEPT ![o] = "none"]
  /\ open' = open \ {StdoutRead(o)} /\ cloexec' = cloexec \ {StdoutRead(o)}
  /\ round' = [round EXCEPT ![o] = @ + 1]
  /\ UNCHANGED <<held, doomed>>

SetupStep(o) == MakePipes(o) \/ MarkCloexec(o) \/ Fork(o) \/ CloseUnused(o)
ShellStep(o) == Exec(o) \/ Exit(o)

Finished == (\A o \in Operators : round[o] = Rounds) /\ UNCHANGED vars

Next ==
  \/ \E o \in Operators : SetupStep(o) \/ ShellStep(o) \/ CloseStdin(o) \/ Drain(o)
  \/ Finished

(* Threads and processes are scheduled; input need not end.                *)
Spec     == Init /\ [][Next]_vars
FairSpec == Spec /\ \A o \in Operators : /\ WF_vars(Fork(o) \/ MarkCloexec(o) \/ CloseUnused(o))
                                         /\ WF_vars(ShellStep(o)) /\ WF_vars(Drain(o))

-----------------------------------------------------------------------------
TypeOK ==
  /\ pc \in [Operators -> {"pipe", "fcntl", "fork", "close", "running", "draining"}]
  /\ child \in [Operators -> {"none", "forked", "executing", "exited"}]
  /\ open \subseteq Ends /\ cloexec \subseteq open
  /\ held \in [Operators -> SUBSET Ends]
  /\ doomed \in [Operators -> SUBSET Ends]
  /\ round \in [Operators -> 0..Rounds]

(* A shell that runs its command holds its own ends and nobody else's: in  *)
(* particular not the writing end of another operator's stdin, nor a copy  *)
(* of its stdout that would keep the other's reader from seeing its end.   *)
OwnEndsOnly == \A o \in Operators : child[o] = "executing" => held[o] = ChildEnds(o)

(* An operator whose input has ended gets its end of file, whatever the    *)
(* other operators of the PE do.                                           *)
EachDrains == \A o \in Operators : pc[o] = "draining" ~> pc[o] = "pipe"

==============================================================================
