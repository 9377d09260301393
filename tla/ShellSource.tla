----------------------------- MODULE ShellSource -----------------------------
(***************************************************************************)
(* The ShellSource operator (internal/ShellSource/ShellSource_cpp.cgt): it *)
(* runs one shell command after the other on one LinuxShell object and     *)
(* submits the lines they print.  With an input port the commands come     *)
(* from input tuples and run on the upstream threads that deliver them;    *)
(* without one, a thread of the operator runs one command repeatedly.      *)
(*                                                                         *)
(* Nothing is written to the commands; each prints what its Program says   *)
(* and exits when it has.                                                  *)
(***************************************************************************)
EXTENDS LinuxShell

CONSTANTS
  Callers,     \* the threads that run commands
  Runs,        \* iterationCount, or the number of command tuples
  MaxWindows,  \* window markers the upstream sends: a bound
  HasErrPort   \* is there a port for the lines of stderr?

PE      == "pe"
Threads == Callers \cup {PE}

ASSUME CallerAssumption == Callers # {} /\ Callers \cap {PE, NoThread} = {}
ASSUME ParamAssumption ==
  HasErrPort \in BOOLEAN /\ Runs \in Nat /\ MaxWindows \in Nat

VARIABLES
  hasInput,          \* is there an input port?  Decided before the operator is compiled
  pc,                \* program counter of each thread
  aborted,           \* the PE has been aborted
  shutdownRequested, \* getPE().getShutdownRequested()
  started,           \* commands started: iterations or tuples
  finalSent,         \* has the upstream sent its FinalMarker?
  windows,           \* window markers of the upstream that were forwarded
  portMutex,         \* mutex_: a caller, or NoThread
  drained,           \* drained_
  got,               \* lines readLine() returned and that are not submitted
  taken,             \* history: tokens of each stream that submitted lines cover
  output,            \* history: what was submitted for the command, up to its punctuation
  report,            \* history: exit code last submitted on port 2
  finished           \* has the FinalMarker been forwarded?

runVars  == <<hasInput, aborted, shutdownRequested>>
upVars   == <<started, finalSent, windows, portMutex>>
outVars  == <<drained, got, taken, output, report, finished>>
opVars   == <<runVars, upVars, outVars>>
vars     == <<pc, opVars, shellVars>>

CallerLabels == {"idle", "loop", "setup", "fork", "test", "read", "select", "readOut",
                 "readErr", "fail", "caught", "submit", "drain", "finish", "report", "punct",
                 "shut", "await", "waiting", "done"}
PELabels     == {"up", "prepare", "join", "destroy", "done"}

Goto(t, label) == pc' = [pc EXCEPT ![t] = label]

(* The operator's object exists and its process lives.                     *)
Up == ~aborted /\ pc[PE] # "done"

At(t, label) == Up /\ pc[t] = label

(* Upstream may call the operator until its destructor runs.               *)
Callable(c) == At(c, "idle") /\ pc[PE] # "destroy"

(* Mutant of PortFree: no AutoPortMutex.                                   *)
PortUnguarded == TRUE

PortFree == portMutex = NoThread

-----------------------------------------------------------------------------
Init ==
  /\ ShellInit(FALSE)
  /\ \/ hasInput = TRUE /\ pc = [t \in Threads |-> IF t = PE THEN "up" ELSE "idle"]
     \/ \E c \in Callers :
          /\ hasInput = FALSE
          /\ pc = [t \in Threads |-> IF t = PE THEN "up" ELSE IF t = c THEN "loop" ELSE "done"]
  /\ aborted = FALSE /\ shutdownRequested = FALSE
  /\ started = 0 /\ finalSent = FALSE /\ windows = 0 /\ portMutex = NoThread
  /\ drained = FALSE /\ got = Nothing /\ taken = [s \in Streams |-> 0]
  /\ output = <<>> /\ report = "none" /\ finished = FALSE

-----------------------------------------------------------------------------
(* With an input port: process(tuple) takes mutex_ and runs the command.   *)
ReceiveCommand(c) ==
  /\ hasInput /\ Callable(c) /\ PortFree
  /\ started < Runs /\ ~finalSent
  /\ started' = started + 1
  /\ portMutex' = c
  /\ Goto(c, "setup")
  /\ UNCHANGED <<runVars, finalSent, windows, outVars, shellVars>>

(* process(punct) forwards every punctuation ...                           *)
WindowMarker(c) ==
  /\ hasInput /\ Callable(c) /\ PortFree
  /\ windows < MaxWindows /\ ~finalSent
  /\ windows' = windows + 1
  /\ UNCHANGED <<pc, runVars, started, finalSent, portMutex, outVars, shellVars>>

(* ... the last one after shutdown(false) and drained_.                    *)
FinalMarker(c) ==
  /\ hasInput /\ \A d \in Callers : Callable(d)
  /\ PortFree /\ ~finalSent
  /\ finalSent' = TRUE
  /\ portMutex' = c
  /\ Goto(c, "shut")
  /\ UNCHANGED <<runVars, started, windows, outVars, shellVars>>

FinalShutdown(c) ==
  /\ At(c, "shut")
  /\ ShutdownShell
  /\ Goto(c, "await")
  /\ UNCHANGED opVars

AwaitDrained(c) ==
  /\ At(c, "await")
  /\ IF drained THEN finished' = TRUE /\ portMutex' = NoThread /\ Goto(c, "done")
                ELSE Goto(c, "waiting") /\ UNCHANGED <<finished, portMutex>>
  /\ UNCHANGED <<runVars, started, finalSent, windows, drained, got, taken, output, report,
                 shellVars>>

(* Without one: the loop of process(idx), whose delays a shutdown cuts     *)
(* short, and its FinalMarker.                                             *)
Iterate(c) ==
  /\ At(c, "loop")
  /\ IF ~shutdownRequested /\ started < Runs
       THEN started' = started + 1 /\ Goto(c, "setup") /\ UNCHANGED finished
       ELSE finished' = TRUE /\ Goto(c, "done") /\ UNCHANGED started
  /\ UNCHANGED <<runVars, finalSent, windows, portMutex, drained, got, taken, output, report,
                 shellVars>>

-----------------------------------------------------------------------------
(* executeShell()                                                          *)

(* Mutant of StartShell: terminated_ is not reset.                         *)
StartAgain ==
  /\ exitReason' = "Unknown" /\ exitCode' = "none" /\ proc' = "none"
  /\ UNCHANGED <<shutdown, terminated, mutex, fd, buffer, closed, status, outEnd, heard, work,
                 consumed, written, pipeVars, histVars>>

StartShell == SetupBegin

BeginRun(c) ==
  /\ At(c, "setup")
  /\ StartShell
  /\ Goto(c, "fork")
  /\ UNCHANGED opVars

Run(c) ==
  /\ At(c, "fork")
  /\ \E p \in Program : SetupFork([s \in Streams |-> p[s]])
  /\ taken' = [s \in Streams |-> 0] /\ output' = <<>>
  /\ Goto(c, "test")
  /\ UNCHANGED <<runVars, upVars, drained, got, report, finished>>

TestShutdown(c) ==
  /\ At(c, "test")
  /\ Goto(c, IF shutdownRequested THEN "drain" ELSE "read")
  /\ UNCHANGED <<opVars, shellVars>>

(* readLine(), as in ShellPipe.                                            *)
ReadBuffered(c) ==
  /\ At(c, "read")
  /\ TakeLines
  /\ got' = [s \in Streams |-> IF HasLine(s) THEN <<NextLine(s)>> ELSE <<>>]
  /\ Goto(c, "submit")
  /\ UNCHANGED <<runVars, upVars, drained, taken, output, report, finished>>

ReadMore(c) ==
  /\ At(c, "read") /\ NoLine
  /\ Goto(c, IF AllClosed THEN "fail" ELSE "select")
  /\ UNCHANGED <<opVars, shellVars>>

Select(c) ==
  /\ At(c, "select") /\ SelectReady
  /\ Goto(c, "readOut")
  /\ UNCHANGED <<opVars, shellVars>>

ReadStream(c, here, s, next) ==
  /\ At(c, here)
  /\ \/ ReadFromPipe(s) /\ Goto(c, next)
     \/ ReadFails(s) /\ Goto(c, "fail") /\ UNCHANGED shellVars
  /\ UNCHANGED opVars

ReadOut(c) == ReadStream(c, "readOut", "out", "readErr")
ReadErr(c) == ReadStream(c, "readErr", "err", "read")

ReadVerdict(c, reason) ==
  Goto(c, IF AllClosed /\ reason = "Shutdown" THEN "drain" ELSE "caught")

ReadEnds(c) ==
  /\ At(c, "fail")
  /\ \/ TerminateBegin(c) /\ UNCHANGED pc
     \/ TerminateReturns(c) /\ ReadVerdict(c, exitReason')
     \/ WaitFails(c) /\ Goto(c, "caught")
  /\ UNCHANGED opVars

(* Mutant of Failed: any exception aborts.                                 *)
AnyEndFails == TRUE

Failed == exitCode # "zero"

(* The exception aborts the PE unless the exit code is 0.                  *)
Caught(c) ==
  /\ At(c, "caught")
  /\ IF Failed THEN aborted' = TRUE /\ UNCHANGED pc
               ELSE Goto(c, "drain") /\ UNCHANGED aborted
  /\ UNCHANGED <<hasInput, shutdownRequested, upVars, outVars, shellVars>>

Port == IF got["out"] # <<>> THEN "out" ELSE "err"

BothLines == Port = "out" /\ got["err"] # <<>>

Submit(c) ==
  /\ At(c, "submit")
  /\ output' = IF Port = "out" \/ HasErrPort
                 THEN Append(output, [port |-> Port, line |-> got[Port][1]]) ELSE output
  /\ taken' = [taken EXCEPT ![Port] = IF @ + Len(got[Port][1]) < Len(written[Port])
                                        THEN @ + Len(got[Port][1]) + 1 ELSE Len(written[Port])]
  /\ got' = [got EXCEPT ![Port] = <<>>]
  /\ Goto(c, IF BothLines THEN "submit" ELSE "test")
  /\ UNCHANGED <<runVars, upVars, drained, report, finished, shellVars>>

(* Mutant of SetDrained: drained_ stays false.                             *)
NeverDrained == UNCHANGED drained

SetDrained == drained' = TRUE

(* drainCV_ is signalled and drained_ set.  (The FinalMarker does not wait *)
(* while a command runs: it would hold mutex_.)                            *)
Drain(c) ==
  /\ At(c, "drain")
  /\ SetDrained
  /\ pc' = [t \in Threads |-> IF t = c THEN "finish"
                             ELSE IF pc[t] = "waiting" THEN "await" ELSE pc[t]]
  /\ UNCHANGED <<runVars, upVars, got, taken, output, report, finished, shellVars>>

(* A terminate() whose exception nothing catches.                          *)
LastTerminate(t, next) ==
  \/ TerminateBegin(t) /\ UNCHANGED <<pc, aborted>>
  \/ TerminateReturns(t) /\ Goto(t, next) /\ UNCHANGED aborted
  \/ WaitFails(t) /\ aborted' = TRUE /\ UNCHANGED pc

Finish(c) ==
  /\ At(c, "finish")
  /\ LastTerminate(c, "report")
  /\ UNCHANGED <<hasInput, shutdownRequested, upVars, outVars>>

(* The tuple on port 2, with the exit code ...                             *)
Report(c) ==
  /\ At(c, "report")
  /\ report' = exitCode
  /\ Goto(c, "punct")
  /\ UNCHANGED <<runVars, upVars, drained, got, taken, output, finished, shellVars>>

(* ... and the punctuation; executeShell() returns, and process(tuple)     *)
(* releases mutex_.                                                        *)
Punctuate(c) ==
  /\ At(c, "punct")
  /\ output' = Append(output, [port |-> "window", line |-> <<>>])
  /\ portMutex' = NoThread
  /\ Goto(c, IF hasInput THEN "idle" ELSE "loop")
  /\ UNCHANGED <<runVars, started, finalSent, windows, drained, got, taken, report, finished,
                 shellVars>>

-----------------------------------------------------------------------------
(* The runtime shuts the operator down.                                    *)
RequestShutdown ==
  /\ At(PE, "up")
  /\ shutdownRequested' = TRUE
  /\ Goto(PE, "prepare")
  /\ UNCHANGED <<hasInput, aborted, upVars, outVars, shellVars>>

PrepareToShutdown ==
  /\ At(PE, "prepare")
  /\ ShutdownShell
  /\ Goto(PE, "join")
  /\ UNCHANGED opVars

Join ==
  /\ At(PE, "join")
  /\ \A c \in Callers : pc[c] \in {"idle", "done"}
  /\ Goto(PE, "destroy")
  /\ UNCHANGED <<opVars, shellVars>>

Destroy ==
  /\ At(PE, "destroy")
  /\ LastTerminate(PE, "done")
  /\ UNCHANGED <<hasInput, shutdownRequested, upVars, outVars>>

-----------------------------------------------------------------------------
CallerStep(c) ==
  \/ FinalShutdown(c) \/ AwaitDrained(c) \/ Iterate(c)
  \/ BeginRun(c) \/ Run(c) \/ TestShutdown(c)
  \/ ReadBuffered(c) \/ ReadMore(c) \/ Select(c) \/ ReadOut(c) \/ ReadErr(c)
  \/ ReadEnds(c) \/ Caught(c) \/ Submit(c)
  \/ Drain(c) \/ Finish(c) \/ Report(c) \/ Punctuate(c)

PEStep == PrepareToShutdown \/ Join \/ Destroy

Upstream == \E c \in Callers : ReceiveCommand(c) \/ WindowMarker(c) \/ FinalMarker(c)

(* The command exits when it has printed everything.                       *)
CommandEnds == proc = "running" /\ Idle /\ Die("zero") /\ UNCHANGED faulty

Beside == Up /\ UNCHANGED <<pc, opVars>>

CommandStep ==
  \/ \E s \in Streams : ChildWrite(s) /\ Beside
  \/ CommandEnds /\ Beside

CommandFault ==
  \/ ChildQuit /\ Beside
  \/ \E s \in Streams : ChildClose(s) /\ Beside

Ended == ~Up /\ UNCHANGED vars

Next ==
  \/ \E c \in Callers : CallerStep(c)
  \/ PEStep \/ RequestShutdown \/ Upstream \/ CommandStep \/ CommandFault
  \/ Ended

(* Threads are scheduled, and a command prints what it has to print and    *)
(* exits.  Nothing makes the upstream send or the runtime shut down.       *)
Spec     == Init /\ [][Next]_vars
FairSpec ==
  /\ Spec
  /\ \A c \in Callers : WF_vars(CallerStep(c))
  /\ WF_vars(PEStep) /\ WF_vars(CommandStep)

-----------------------------------------------------------------------------
ThreadTypeOK ==
  /\ mutex \in Threads \cup {NoThread} /\ inWrite = {}
  /\ pc \in [Threads -> CallerLabels \cup PELabels]
  /\ pc[PE] \in PELabels /\ \A c \in Callers : pc[c] \in CallerLabels

FlagTypeOK == hasInput \in BOOLEAN /\ aborted \in BOOLEAN /\ shutdownRequested \in BOOLEAN

InputTypeOK ==
  /\ started \in 0..Runs /\ windows \in 0..MaxWindows /\ finalSent \in BOOLEAN
  /\ portMutex \in Callers \cup {NoThread}

OutputTypeOK ==
  /\ drained \in BOOLEAN /\ finished \in BOOLEAN
  /\ got \in [Streams -> Seq(Seq(Token))] /\ taken \in [Streams -> Nat]
  /\ \A c \in Callers : pc[c] = "submit" => got[Port] # <<>>
  /\ output \in Seq([port : {"out", "err", "window"}, line : Seq(Token)])
  /\ report \in {"unset", "none", "zero", "nonzero", "signal", "killed"}

TypeOK == ShellTypeOK /\ ThreadTypeOK /\ FlagTypeOK /\ InputTypeOK /\ OutputTypeOK

Promise == INSTANCE LinePipe WITH
  Ports     <- IF HasErrPort THEN Streams ELSE {"out"},
  Ending    <- <<"window">>,
  Repeats   <- TRUE,
  printed   <- written,
  ended     <- [s \in Streams |-> ~outEnd[s]],
  taken     <- taken,
  delivered <- output,
  cut       <- shutdownRequested

(* Every line each command prints is submitted once, whole and in order,   *)
(* before the punctuation that ends the command's output, and no text of   *)
(* one command shows up in the output of the next.                         *)
KeepsPromise == Promise!Spec

(* The exit code on port 2 is that of the command that has just ended, not *)
(* of an earlier one: that command is gone, and so are its descriptors.    *)
ReportsOwnCode ==
  \A c \in Callers : pc[c] \in {"report", "punct"} =>
    /\ proc = "reaped" /\ exitCode \in {status, "killed"}
    /\ ~shutdownRequested => \A f \in Fds : fd[f] = "closed"

(* A command that runs to its end and exits with 0 does not bring the PE   *)
(* down, not even while it shuts down; one that fails does, before another *)
(* is started or its output ended by a punctuation.  This is what the code *)
(* does; ShellSource.xml:33-34 and 402-404 promise the punctuation and a   *)
(* tuple with the exit code after each command, also after such a one.     *)
AbortsOnFailure ==
  /\ aborted /\ shells > 0 => faulty
  /\ ~shutdownRequested =>
       \A c \in Callers : pc[c] \in {"report", "punct"} => exitCode = "zero"

(* Between the first command and the shutdown of the PE no descriptor is   *)
(* closed twice and no foreign pid is waited for, whoever calls shutdown() *)
(* and terminate() and however many commands there are.                    *)
OwnDescriptorsOnceStarted ==
  shells > 0 /\ ~shutdownRequested => stray \cap {"close", "pid"} = {}

(* The iterations come to their end, and the FinalMarker of the upstream   *)
(* is forwarded if there was a command: no wakeup of drainCV_ is lost.     *)
FinalCompletes == (~hasInput \/ (finalSent /\ started > 0)) ~> (finished \/ aborted)

(* A shutdown gets through whatever the command is doing.                  *)
ShutdownCompletes ==
  (shutdownRequested /\ (hasInput => started > 0)) ~> (pc[PE] = "done" \/ aborted)

=============================================================================
