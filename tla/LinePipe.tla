------------------------------ MODULE LinePipe ------------------------------
(***************************************************************************)
(* What an operator that runs a command promises downstream: every line    *)
(* the command prints is delivered once, whole and in the order of its     *)
(* stream, and the punctuation comes after the last of them.  Only a       *)
(* shutdown of the process may cut the output short.  An operator may run  *)
(* one command after the other.                                            *)
(***************************************************************************)
EXTENDS Integers, Sequences

CONSTANTS
  Token,    \* what the command prints
  NL,       \* the token that ends a line
  Streams,  \* the streams it prints to
  Ports,    \* the streams whose lines are delivered
  Ending,   \* the punctuation that follows the lines of a command
  Repeats   \* may another command be run?

VARIABLES
  printed,    \* tokens printed, per stream
  ended,      \* streams the command has closed
  taken,      \* tokens of each stream that lie in the lines delivered
  delivered,  \* what has been delivered for the command, in order
  cut         \* has a shutdown been requested?

vars == <<printed, ended, taken, delivered, cut>>

Marker(kind) == [port |-> kind, line |-> <<>>]
Finished == delivered # <<>> /\ delivered[Len(delivered)] = Marker(Ending[Len(Ending)])

Init ==
  /\ printed = [s \in Streams |-> <<>>]
  /\ ended \in [Streams -> BOOLEAN]
  /\ taken = [s \in Streams |-> 0]
  /\ delivered = <<>>
  /\ cut = FALSE

(* A command is started, the first one late or another one.                *)
Start ==
  /\ \A s \in Streams : ended[s]
  /\ delivered = <<>> \/ (Repeats /\ Finished)
  /\ printed' = [s \in Streams |-> <<>>]
  /\ ended' = [s \in Streams |-> FALSE]
  /\ taken' = [s \in Streams |-> 0]
  /\ delivered' = <<>>
  /\ UNCHANGED cut

Emit(s) ==
  /\ ~ended[s]
  /\ \E token \in Token : printed' = [printed EXCEPT ![s] = Append(@, token)]
  /\ UNCHANGED <<ended, taken, delivered, cut>>

Close(S) ==
  /\ ended' = [s \in Streams |-> ended[s] \/ s \in S]
  /\ UNCHANGED <<printed, taken, delivered, cut>>

(* The next line of stream s: up to a newline, or to the end of the stream. *)
Deliver(s) ==
  \E n \in (taken[s] + 1)..Len(printed[s]) :
    /\ ~Finished
    /\ \A i \in (taken[s] + 1)..(n - 1) : printed[s][i] # NL
    /\ printed[s][n] = NL \/ (ended[s] /\ n = Len(printed[s]))
    /\ taken' = [taken EXCEPT ![s] = n]
    /\ delivered' =
         IF s \in Ports
           THEN Append(delivered,
                  [port |-> s,
                   line |-> SubSeq(printed[s], taken[s] + 1,
                                   IF printed[s][n] = NL THEN n - 1 ELSE n)])
           ELSE delivered
    /\ UNCHANGED <<printed, ended, cut>>

Shutdown == cut' = TRUE /\ UNCHANGED <<printed, ended, taken, delivered>>

Finish ==
  /\ ~Finished
  /\ cut \/ \A s \in Streams : ended[s] /\ taken[s] = Len(printed[s])
  /\ delivered' = delivered \o [i \in DOMAIN Ending |-> Marker(Ending[i])]
  /\ UNCHANGED <<printed, ended, taken, cut>>

Next ==
  \/ \E s \in Streams : Emit(s) \/ Deliver(s)
  \/ \E S \in SUBSET Streams : Close(S)
  \/ Start \/ Shutdown \/ Finish

Spec == Init /\ [][Next]_vars
=============================================================================
