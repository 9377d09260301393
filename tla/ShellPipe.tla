------------------------------ MODULE ShellPipe ------------------------------
(***************************************************************************)
(* The ShellPipe operator (internal/ShellPipe/ShellPipe_cpp.cgt): lines    *)
(* taken from input tuples are written to the stdin of a shell command,    *)
(* and lines it prints are submitted as tuples by a thread of their own.   *)
(*                                                                         *)
(* Threads: the Writers, upstream threads that call process(tuple) and     *)
(* process(punct); Reader, the operator's thread in process(idx); and PE,  *)
(* the thread of the runtime that shuts the operator down.  Each program   *)
(* counter names the statement the thread executes next.                   *)
(***************************************************************************)
EXTENDS LinuxShell

CONSTANTS
  Writers,          \* upstream threads
  MaxTuples,        \* tuples the upstream sends
  MaxWindows,       \* window markers the upstream sends
  Payload(_),       \* the stdin attribute of the k-th tuple, a sequence of tokens
  InitOnFirstTuple, \* the initOnFirstTuple parameter
  HasErrPort        \* is a second output port configured?

Reader  == "reader"
PE      == "pe"
Threads == Writers \cup {Reader, PE}

ASSUME ThreadAssumption == Writers # {} /\ Writers \cap {Reader, PE, NoThread} = {}
ASSUME BoundAssumption  == MaxTuples \in Nat /\ MaxWindows \in Nat
ASSUME ParamAssumption  == InitOnFirstTuple \in BOOLEAN /\ HasErrPort \in BOOLEAN
ASSUME PayloadAssumption == \A k \in 1..MaxTuples : Payload(k) \in Seq(Token)

VARIABLES
  pc,                \* program counter of each thread
  aborted,           \* the PE has been aborted, by abort() or an uncaught exception
  shutdownRequested, \* getPE().getShutdownRequested()
  sent,              \* tuples the upstream has sent
  finalSent,         \* has the upstream sent its FinalMarker?
  windows,           \* window markers the upstream has sent
  tuple,             \* the tuple each writer delivers
  rest,              \* what a writer still has to write of its line
  portMutex,         \* mutex_: a writer, or NoThread
  firstTuple,        \* firstTuple_
  inputTuple,        \* inputTuple: which tuple its first and its last attributes are from
  got,               \* lines readLine() returned and the reader has not submitted
  copied,            \* attributes the reader has copied from inputTuple so far
  drained,           \* drained_
  taken,             \* history: tokens of each stream that submitted lines cover
  accepted,          \* history: the lines of the tuples, in the order mutex_ admitted them
  emitted            \* history: tuples and punctuation submitted downstream

runVars  == <<aborted, shutdownRequested>>
upVars   == <<sent, finalSent, windows, tuple>>
portVars == <<rest, portMutex, firstTuple, inputTuple, accepted>>
outVars  == <<got, copied, drained, taken, emitted>>
opVars   == <<runVars, upVars, portVars, outVars>>
vars     == <<pc, opVars, shellVars>>

WriterLabels == {"idle", "check", "setup", "fork", "mark", "enter", "store", "write", "writeFail",
                 "shut", "drain", "waiting", "done"}
ReaderLabels == {"spin", "test", "read", "select", "readOut", "readErr", "fail",
                 "caught", "copy", "submit", "drain", "finish", "done"}
PELabels     == {"up", "prepare", "join", "destroy", "done"}

Goto(t, label) == pc' = [pc EXCEPT ![t] = label]

(* The operator's object exists and its process lives.                     *)
Up == ~aborted /\ pc[PE] # "done"

(* Thread t, alive, is about to execute the statement `label' names.       *)
At(t, label) == Up /\ pc[t] = label

(* Upstream may call the operator until its destructor runs.               *)
Callable(w) == At(w, "idle") /\ pc[PE] # "destroy"

Abort == aborted' = TRUE

Punct(kind) == [port |-> kind, line |-> <<>>, from |-> <<0, 0>>]

-----------------------------------------------------------------------------
(* The constructor ran, and allPortsReady() has started the reader.        *)
Init ==
  /\ ShellInit(~InitOnFirstTuple)
  /\ pc = [t \in Threads |-> IF t = PE THEN "up" ELSE IF t \in Writers THEN "idle"
                            ELSE IF InitOnFirstTuple THEN "spin" ELSE "test"]
  /\ aborted = FALSE /\ shutdownRequested = FALSE
  /\ sent = 0 /\ finalSent = FALSE /\ windows = 0
  /\ tuple = [w \in Writers |-> 0] /\ rest = [w \in Writers |-> <<>>]
  /\ portMutex = NoThread
  /\ firstTuple = FALSE
  /\ inputTuple = <<0, 0>>
  /\ got = Nothing /\ copied = 0
  /\ drained = FALSE /\ taken = [s \in Streams |-> 0]
  /\ accepted = <<>> /\ emitted = <<>>

-----------------------------------------------------------------------------
(* process(tuple)                                                          *)

(* A writer is called with the next tuple.                                 *)
Receive(w) ==
  /\ Callable(w) /\ sent < MaxTuples /\ ~finalSent
  /\ sent' = sent + 1
  /\ tuple' = [tuple EXCEPT ![w] = sent + 1]
  /\ Goto(w, IF InitOnFirstTuple THEN "check" ELSE "enter")
  /\ UNCHANGED <<runVars, finalSent, windows, portVars, outVars, shellVars>>

(* With initOnFirstTuple the shell is started before mutex_ is taken.      *)
CheckFirst(w) ==
  /\ At(w, "check")
  /\ Goto(w, IF firstTuple THEN "enter" ELSE "setup")
  /\ UNCHANGED <<firstTuple, shellVars>>

StartShell(w) ==
  /\ \/ CheckFirst(w)
     \/ At(w, "setup") /\ SetupBegin /\ Goto(w, "fork") /\ UNCHANGED firstTuple
     \/ At(w, "fork") /\ SetupFork(Nothing) /\ Goto(w, "mark") /\ UNCHANGED firstTuple
     \/ At(w, "mark") /\ firstTuple' = TRUE /\ Goto(w, "enter") /\ UNCHANGED shellVars
  /\ UNCHANGED <<runVars, upVars, rest, portMutex, inputTuple, accepted, outVars>>

(* Mutant of PortFree: no AutoPortMutex.                                   *)
PortUnguarded == TRUE

PortFree == portMutex = NoThread

(* mutex_ is taken and the assignment of inputTuple begins.                *)
Enter(w) ==
  /\ At(w, "enter") /\ PortFree
  /\ portMutex' = w
  /\ inputTuple' = [inputTuple EXCEPT ![1] = tuple[w]]
  /\ accepted' = accepted \o Append(Payload(tuple[w]), NL)
  /\ Goto(w, "store")
  /\ UNCHANGED <<runVars, upVars, rest, firstTuple, outVars, shellVars>>

(* The assignment ends; writeLine() will write the text and a newline.     *)
Store(w) ==
  /\ At(w, "store")
  /\ inputTuple' = [inputTuple EXCEPT ![2] = tuple[w]]
  /\ rest' = [rest EXCEPT ![w] = Append(Payload(tuple[w]), NL)]
  /\ Goto(w, "write")
  /\ UNCHANGED <<runVars, upVars, portMutex, firstTuple, accepted, outVars, shellVars>>

WriteBegin(w) ==
  /\ At(w, "write") /\ w \notin inWrite
  /\ BeginWrite(w)
  /\ UNCHANGED <<pc, opVars>>

(* Mutant of LastWrite: `while(count>=0)' in writeToPipe().                *)
WritesOn(line) == FALSE

(* Is nothing left of the line but the newline that is being written?      *)
LastWrite(line) == Tail(line) = <<>>

(* With the newline written the handler returns and mutex_ is released.    *)
WriteEnd(w) ==
  /\ At(w, "write")
  /\ EndWrite(w, Head(rest[w]))
  /\ rest' = [rest EXCEPT ![w] = Tail(@)]
  /\ IF LastWrite(rest[w])
       THEN Goto(w, "idle") /\ portMutex' = NoThread
       ELSE UNCHANGED <<pc, portMutex>>
  /\ UNCHANGED <<runVars, upVars, firstTuple, inputTuple, accepted, outVars>>

WriteFail(w) ==
  /\ At(w, "write")
  /\ FailWrite(w)
  /\ Goto(w, "writeFail")
  /\ UNCHANGED opVars

(* A failed write: terminate(), then an exception that leaves the handler. *)
WriterTerminate(w) ==
  /\ At(w, "writeFail")
  /\ \/ TerminateBegin(w) /\ UNCHANGED aborted
     \/ (TerminateReturns(w) \/ WaitFails(w)) /\ Abort
  /\ UNCHANGED <<pc, shutdownRequested, upVars, portVars, outVars>>

-----------------------------------------------------------------------------
(* process(punct)                                                          *)

(* Every punctuation but the FinalMarker is dropped.                       *)
WindowMarker(w) ==
  /\ Callable(w) /\ ~finalSent /\ windows < MaxWindows
  /\ PortFree
  /\ windows' = windows + 1
  /\ UNCHANGED <<pc, runVars, sent, finalSent, tuple, portVars, outVars, shellVars>>

(* The runtime delivers the FinalMarker when every upstream is finished.   *)
FinalMarker(w) ==
  /\ \A x \in Writers : Callable(x)
  /\ ~finalSent /\ PortFree
  /\ finalSent' = TRUE
  /\ portMutex' = w
  /\ Goto(w, "shut")
  /\ UNCHANGED <<runVars, sent, windows, tuple, rest, firstTuple, inputTuple, accepted,
                 outVars, shellVars>>

FinalShutdown(w) ==
  /\ At(w, "shut")
  /\ ShutdownShell
  /\ Goto(w, "drain")
  /\ UNCHANGED opVars

(* Mutant of MayForward: the punctuation is sent after shutdown(false).    *)
MayForwardAtOnce == TRUE

MayForward == drained

(* `while(!drained_) drainCV_.wait(drainMutex_)', then the punctuation.    *)
AwaitDrained(w) ==
  /\ At(w, "drain")
  /\ IF MayForward
       THEN /\ emitted' = emitted \o <<Punct("window"), Punct("final")>>
            /\ portMutex' = NoThread
            /\ Goto(w, "done")
       ELSE Goto(w, "waiting") /\ UNCHANGED <<emitted, portMutex>>
  /\ UNCHANGED <<runVars, upVars, rest, firstTuple, inputTuple, accepted, got, copied,
                 drained, taken, shellVars>>

-----------------------------------------------------------------------------
(* process(idx): the reader                                                *)

(* With initOnFirstTuple the thread spins until there is a shell.          *)
Spin ==
  /\ At(Reader, "spin") /\ (firstTuple \/ shutdownRequested)
  /\ Goto(Reader, "test")
  /\ UNCHANGED <<opVars, shellVars>>

TestShutdown ==
  /\ At(Reader, "test")
  /\ Goto(Reader, IF shutdownRequested THEN "drain" ELSE "read")
  /\ UNCHANGED <<opVars, shellVars>>

(* readLine(): a line from either buffer, or both ...                      *)
ReadBuffered ==
  /\ At(Reader, "read")
  /\ TakeLines
  /\ got' = [s \in Streams |-> IF HasLine(s) THEN <<NextLine(s)>> ELSE <<>>]
  /\ Goto(Reader, "copy")
  /\ UNCHANGED <<runVars, upVars, portVars, copied, drained, taken, emitted>>

(* ... or else the end of both streams, or a wait for more text.           *)
ReadMore ==
  /\ At(Reader, "read") /\ NoLine
  /\ Goto(Reader, IF AllClosed THEN "fail" ELSE "select")
  /\ UNCHANGED <<opVars, shellVars>>

Select ==
  /\ At(Reader, "select") /\ SelectReady
  /\ Goto(Reader, "readOut")
  /\ UNCHANGED <<opVars, shellVars>>

ReadStream(here, s, next) ==
  /\ At(Reader, here)
  /\ \/ ReadFromPipe(s) /\ Goto(Reader, next)
     \/ ReadFails(s) /\ Goto(Reader, "fail") /\ UNCHANGED shellVars
  /\ UNCHANGED opVars

ReadOut == ReadStream("readOut", "out", "readErr")
ReadErr == ReadStream("readErr", "err", "read")

(* Mutant of ReadVerdict: readLine() never returns -1.                     *)
ReadThrows(reason) == Goto(Reader, "caught")

(* terminate() inside readLine(): -1 if the streams ended and the reason   *)
(* is Shutdown, an exception otherwise.                                    *)
ReadVerdict(reason) ==
  Goto(Reader, IF AllClosed /\ reason = "Shutdown" THEN "drain" ELSE "caught")

ReaderTerminate ==
  /\ At(Reader, "fail")
  /\ \/ TerminateBegin(Reader) /\ UNCHANGED pc
     \/ TerminateReturns(Reader) /\ ReadVerdict(exitReason')
     \/ WaitFails(Reader) /\ Goto(Reader, "caught")
  /\ UNCHANGED opVars

(* The exception aborts the PE unless it is shutting down.                 *)
Caught ==
  /\ At(Reader, "caught")
  /\ IF shutdownRequested
       THEN Goto(Reader, "drain") /\ UNCHANGED aborted
       ELSE Abort /\ UNCHANGED pc
  /\ UNCHANGED <<shutdownRequested, upVars, portVars, outVars, shellVars>>

(* The line of port 0 goes first.  Attributes are copied from inputTuple   *)
(* without mutex_.                                                         *)
Port == IF got["out"] # <<>> THEN "out" ELSE "err"

CopyAttributes ==
  /\ At(Reader, "copy")
  /\ copied' = inputTuple[1]
  /\ Goto(Reader, "submit")
  /\ UNCHANGED <<runVars, upVars, portVars, got, drained, taken, emitted, shellVars>>

Submit ==
  /\ At(Reader, "submit")
  /\ emitted' = IF Port = "out" \/ HasErrPort
                  THEN Append(emitted, [port |-> Port, line |-> got[Port][1],
                                        from |-> <<copied, inputTuple[2]>>])
                  ELSE emitted
  /\ taken' = [taken EXCEPT ![Port] = IF @ + Len(got[Port][1]) < Len(written[Port])
                                        THEN @ + Len(got[Port][1]) + 1 ELSE Len(written[Port])]
  /\ got' = [got EXCEPT ![Port] = <<>>]
  /\ Goto(Reader, IF Port = "out" /\ got["err"] # <<>> THEN "copy" ELSE "test")
  /\ UNCHANGED <<runVars, upVars, portVars, copied, drained, shellVars>>

(* Mutant of Signal: drained_ is set, and drainCV_ not signalled.          *)
NoSignal == Goto(Reader, "finish")

Signal ==
  pc' = [t \in Threads |-> IF t = Reader THEN "finish"
                          ELSE IF pc[t] = "waiting" THEN "drain" ELSE pc[t]]

(* drainCV_ is signalled and drained_ set, in one section of drainMutex_.  *)
Drain ==
  /\ At(Reader, "drain")
  /\ drained' = TRUE
  /\ Signal
  /\ UNCHANGED <<runVars, upVars, portVars, got, copied, taken, emitted, shellVars>>

(* The last terminate(), whose exception nothing catches.                  *)
LastTerminate(t) ==
  \/ TerminateBegin(t) /\ UNCHANGED <<pc, aborted>>
  \/ TerminateReturns(t) /\ Goto(t, "done") /\ UNCHANGED aborted
  \/ WaitFails(t) /\ Abort /\ UNCHANGED pc

ReaderFinish ==
  /\ At(Reader, "finish")
  /\ LastTerminate(Reader)
  /\ UNCHANGED <<shutdownRequested, upVars, portVars, outVars>>

-----------------------------------------------------------------------------
(* The runtime shuts the operator down.                                    *)
RequestShutdown ==
  /\ At(PE, "up")
  /\ shutdownRequested' = TRUE
  /\ Goto(PE, "prepare")
  /\ UNCHANGED <<aborted, upVars, portVars, outVars, shellVars>>

(* Mutant of PrepareToShutdown: the shell is not told.                     *)
PrepareNothing == At(PE, "prepare") /\ Goto(PE, "join") /\ UNCHANGED <<opVars, shellVars>>

PrepareToShutdown ==
  /\ At(PE, "prepare")
  /\ ShutdownShell
  /\ Goto(PE, "join")
  /\ UNCHANGED opVars

(* The destructor runs when no other thread is left in the operator.       *)
Join ==
  /\ At(PE, "join")
  /\ pc[Reader] = "done" /\ \A w \in Writers : pc[w] \in {"idle", "done"}
  /\ Goto(PE, "destroy")
  /\ UNCHANGED <<opVars, shellVars>>

Destroy ==
  /\ At(PE, "destroy")
  /\ LastTerminate(PE)
  /\ UNCHANGED <<shutdownRequested, upVars, portVars, outVars>>

-----------------------------------------------------------------------------
WriterStep(w) ==
  \/ StartShell(w) \/ Enter(w) \/ Store(w)
  \/ WriteBegin(w) \/ WriteEnd(w) \/ WriteFail(w) \/ WriterTerminate(w)
  \/ FinalShutdown(w) \/ AwaitDrained(w)

ReaderStep ==
  \/ Spin \/ TestShutdown
  \/ ReadBuffered \/ ReadMore \/ Select \/ ReadOut \/ ReadErr
  \/ ReaderTerminate \/ Caught
  \/ CopyAttributes \/ Submit \/ Drain \/ ReaderFinish

PEStep == PrepareToShutdown \/ Join \/ Destroy

Upstream == \E w \in Writers : Receive(w) \/ WindowMarker(w) \/ FinalMarker(w)

(* The command runs beside the operator, and dies with its process.        *)
Beside == Up /\ UNCHANGED <<pc, opVars>>

CommandStep ==
  \/ ChildRead /\ Beside
  \/ ChildReadRest /\ Beside
  \/ \E s \in Streams : ChildWrite(s) /\ Beside
  \/ ChildExit /\ Beside

CommandFault ==
  \/ ChildQuit /\ Beside
  \/ \E s \in Streams : ChildClose(s) /\ Beside

Ended == ~Up /\ UNCHANGED vars

Next ==
  \/ \E w \in Writers : WriterStep(w)
  \/ ReaderStep \/ PEStep \/ RequestShutdown
  \/ Upstream \/ CommandStep \/ CommandFault
  \/ Ended

(* Threads are scheduled fairly, and the command goes on reading, printing *)
(* and, at the end of its input, exits.  Nothing makes the upstream send,  *)
(* the runtime shut down or the command fail.                              *)
Fairness ==
  /\ \A w \in Writers : WF_vars(WriterStep(w))
  /\ WF_vars(ReaderStep)
  /\ WF_vars(PEStep)

Spec     == Init /\ [][Next]_vars
FairSpec == Spec /\ Fairness /\ WF_vars(CommandStep)

-----------------------------------------------------------------------------
ThreadTypeOK ==
  /\ mutex \in Threads \cup {NoThread}
  /\ inWrite \subseteq Writers
  /\ pc \in [Threads -> WriterLabels \cup ReaderLabels \cup PELabels]
  /\ pc[Reader] \in ReaderLabels /\ pc[PE] \in PELabels
  /\ \A w \in Writers : pc[w] \in WriterLabels

FlagTypeOK ==
  /\ aborted \in BOOLEAN /\ shutdownRequested \in BOOLEAN
  /\ finalSent \in BOOLEAN /\ firstTuple \in BOOLEAN /\ drained \in BOOLEAN

InputTypeOK ==
  /\ sent \in 0..MaxTuples /\ windows \in 0..MaxWindows
  /\ tuple \in [Writers -> 0..MaxTuples]
  /\ rest \in [Writers -> Seq(Token)]
  /\ \A w \in Writers : /\ pc[w] \in {"check", "setup", "fork", "mark", "enter", "store"} => tuple[w] # 0
                        /\ pc[w] = "write" => rest[w] # <<>>
  /\ portMutex \in Writers \cup {NoThread}
  /\ inputTuple \in (0..MaxTuples) \X (0..MaxTuples)
  /\ accepted \in Seq(Token)

OutputTypeOK ==
  /\ got \in [Streams -> Seq(Seq(Token))]
  /\ pc[Reader] \in {"copy", "submit"} => got[Port] # <<>>
  /\ copied \in 0..MaxTuples
  /\ taken \in [Streams -> Nat]
  /\ emitted \in Seq([port : {"out", "err", "window", "final"}, line : Seq(Token),
                      from : (0..MaxTuples) \X (0..MaxTuples)])

TypeOK == ShellTypeOK /\ ThreadTypeOK /\ FlagTypeOK /\ InputTypeOK /\ OutputTypeOK
-----------------------------------------------------------------------------
(* Safety                                                                  *)

IsPrefixOf(p, q) == Len(p) <= Len(q) /\ p = SubSeq(q, 1, Len(p))

FinalForwarded == emitted # <<>> /\ emitted[Len(emitted)].port = "final"

(* What the command reads is what mutex_ admitted: whole lines, none lost, *)
(* repeated, reordered or mixed with the line of another writer, whatever  *)
(* happens to the command and whenever the PE shuts down.                  *)
LinesIntact == IsPrefixOf(consumed \o inPipe, accepted)

(* The final punctuation is not sent before the command has read every     *)
(* line it was given, unless the command or the PE ends early.             *)
InputConsumed == FinalForwarded /\ ~shutdownRequested /\ ~faulty => consumed = accepted

(* terminate() and shutdown() are called from four threads, and between    *)
(* them close each descriptor once; no pid but the command's is ever       *)
(* waited for or killed.                                                   *)
OwnDescriptors == stray \cap {"close", "pid"} = {}

(* A command that reads all its input and exits with 0 never brings the    *)
(* PE down: its end is told from a failure although the reader may see it  *)
(* before, after or while the FinalMarker is processed.                    *)
NoSpuriousAbort == aborted /\ ~shutdownRequested => faulty

(* An abort always has a cause: the shell had failed, or ended before it   *)
(* was told to, or a line could not be written to it.                      *)
AbortHasCause ==
  aborted /\ ~shutdownRequested =>
    exitReason # "Shutdown" /\ status # "none" /\ proc = "reaped"

(* One shell is started, whichever threads bring the first tuples.  With   *)
(* initOnFirstTuple process() looks and starts it before it takes a lock,  *)
(* so this holds only where tuples arrive one at a time, as behind a Gate. *)
OneShell == shells <= 1

(* When the operator is destroyed, no command and no descriptor is left,   *)
(* and nobody holds a lock.                                                *)
NothingLeft ==
  pc[PE] = "done" => /\ proc = "reaped" /\ \A f \in Fds : fd[f] = "closed"
                     /\ mutex = NoThread /\ portMutex = NoThread

(* What downstream sees, without the attributes copied from the input.     *)
Delivered == [i \in DOMAIN emitted |-> [port |-> emitted[i].port, line |-> emitted[i].line]]

Promise == INSTANCE LinePipe WITH
  Ports     <- IF HasErrPort THEN Streams ELSE {"out"},
  Ending    <- <<"window", "final">>,
  Repeats   <- FALSE,
  printed   <- written,
  ended     <- [s \in Streams |-> ~outEnd[s]],
  taken     <- taken,
  delivered <- Delivered,
  cut       <- shutdownRequested

(* Every line the command prints is submitted once, whole and in order,    *)
(* and the punctuation follows the last of them, unless the PE shuts down. *)
KeepsPromise == Promise!Spec

-----------------------------------------------------------------------------
(* Liveness                                                                *)

(* The FinalMarker is forwarded once it has arrived, or the PE aborts:     *)
(* no wakeup of drainCV_ is lost, and neither a full pipe nor a lock keeps *)
(* the writers, the command and the reader waiting for each other.         *)
FinalCompletes == finalSent ~> (FinalForwarded \/ aborted)

(* A shutdown of the PE gets through, too.                                 *)
ShutdownCompletes == shutdownRequested ~> (pc[PE] = "done" \/ aborted)
=============================================================================
