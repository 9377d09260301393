------------------------ MODULE ClassificationPipeline ------------------------
(***************************************************************************)
(* The graph of LinearClassification.spl and ContentRanking.spl: a Gate    *)
(* lets one document at a time into a ShellPipe with a Python script, and  *)
(* a Custom operator acknowledges each line the script prints.  The Custom *)
(* operator runs on the reader's thread of the ShellPipe, as a part of its *)
(* submit(), and so does the acknowledgement when it arrives at the Gate.  *)
(* What follows is a function of one tuple.                                *)
(***************************************************************************)
EXTENDS ShellPipe

CONSTANT MaxUnacked   \* maxUnackedTupleCount of the Gate

ASSUME GateAssumption == MaxUnacked \in Nat \ {0}

VARIABLE unacked      \* documents the Gate has let through and not seen acknowledged

graphVars == <<vars, unacked>>

PipelineInit == Init /\ unacked = 0

-----------------------------------------------------------------------------
(* Mutant of MayPass: there is no Gate.                                    *)
AlwaysPass == TRUE

MayPass == unacked < MaxUnacked

(* The Gate lets a document through, and punctuation at any time.          *)
Gate ==
  /\ sent' # sent => MayPass
  /\ unacked' = unacked + (sent' - sent)

(* Mutant of Acknowledge: the Custom operator acknowledges nothing.        *)
AcknowledgeNothing == UNCHANGED unacked

(* The Custom operator acknowledges each tuple it receives.                *)
Acknowledge ==
  unacked' = IF emitted' # emitted /\ unacked > 0 THEN unacked - 1 ELSE unacked

PipelineNext ==
  \/ Upstream /\ Gate
  \/ ReaderStep /\ Acknowledge
  \/ \E w \in Writers : WriterStep(w) /\ UNCHANGED unacked
  \/ PEStep /\ UNCHANGED unacked
  \/ RequestShutdown /\ UNCHANGED unacked
  \/ CommandStep /\ UNCHANGED unacked
  \/ CommandFault /\ UNCHANGED unacked
  \/ Ended /\ UNCHANGED unacked

PipelineFairness ==
  /\ \A w \in Writers : WF_graphVars(WriterStep(w) /\ UNCHANGED unacked)
  /\ WF_graphVars(ReaderStep /\ Acknowledge)
  /\ WF_graphVars(PEStep /\ UNCHANGED unacked)
  /\ WF_graphVars(CommandStep /\ UNCHANGED unacked)

PipelineSpec == PipelineInit /\ [][PipelineNext]_graphVars /\ PipelineFairness

-----------------------------------------------------------------------------
(* What the script prints for a document, or, if it dies meanwhile, the    *)
(* beginning of that.                                                      *)
Answers(document, line) ==
  \E p \in Program : p.line = document /\ IsPrefixOf(line, p.out) /\ (~faulty => p.out = Append(line, NL))

(* The k-th tuple is the result of the k-th document: it carries all the   *)
(* attributes of that one, and what the script said of it.  The reader,    *)
(* which copies the attributes of whatever tuple is the latest without a   *)
(* lock, finds the right one there, because the next document comes only   *)
(* after the acknowledgement.  (A shutdown may cut a document off.)        *)
ResultsBelong ==
  ~shutdownRequested =>
    \A k \in DOMAIN emitted :
      emitted[k].port = "out" =>
        emitted[k].from = <<k, k>> /\ Answers(Payload(k), emitted[k].line)

(* A script that has closed its standard output and goes on.               *)
Mute == proc = "running" /\ ~outEnd["out"]

(* The Gate opens again after each document, whichever thread brings it,   *)
(* also when the script exits or fails before it has answered, unless the  *)
(* stream or the PE ends.  Only a script that goes on without its standard *)
(* output can keep the Gate shut: it is not known to have ended.           *)
GateReopens ==
  unacked = MaxUnacked ~>
    (unacked < MaxUnacked \/ FinalForwarded \/ aborted \/ shutdownRequested \/ Mute)
===============================================================================
