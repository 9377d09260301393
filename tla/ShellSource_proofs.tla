--------------------------- MODULE ShellSource_proofs ---------------------------
(***************************************************************************)
(* Proofs about ShellSource.                                               *)
(***************************************************************************)
EXTENDS ShellSource, LinuxShell_proofs

-----------------------------------------------------------------------------
(* The inductive invariant                                                 *)

(* Outside the operator; running a command; handling the FinalMarker.      *)
Resting  == {"idle", "done"}
Reading  == {"test", "read", "select", "readOut", "readErr", "submit"}
Running  == Reading \cup {"fail", "caught", "drain", "finish", "report", "punct"}
ForFinal == {"shut", "await", "waiting"}

(* At most one caller is in the operator: the holder of mutex_, or the     *)
(* operator's own thread; and none once the destructor runs.               *)
OneCaller ==
  /\ hasInput => \A c \in Callers : pc[c] # "loop" /\ (pc[c] \notin Resting <=> portMutex = c)
  /\ ~hasInput => /\ portMutex = NoThread /\ ~finalSent
                  /\ \A c \in Callers : pc[c] \notin ForFinal \cup {"idle"}
                  /\ \A c, d \in Callers : pc[c] # "done" /\ pc[d] # "done" => c = d
  /\ \A c \in Callers : pc[c] \in ForFinal => finalSent
  /\ finalSent => \A c \in Callers : pc[c] \in ForFinal \cup Resting
  /\ pc[PE] # "up" => shutdownRequested
  /\ pc[PE] \in {"destroy", "done"} => \A c \in Callers : pc[c] \in Resting

(* Between the two steps of setup(); running a command; terminated.        *)
Forking == \E c \in Callers : pc[c] = "fork"
Busy    == \E c \in Callers : pc[c] \in Running
Over    == terminated /\ mutex = NoThread

(* Who is in terminate().                                                  *)
MutexHeld ==
  \/ mutex = NoThread
  \/ mutex = PE /\ pc[PE] = "destroy"
  \/ mutex \in Callers /\ pc[mutex] \in {"fail", "finish"}

(* The command is there until terminate() is over.                         *)
Command ==
  IF Over THEN proc = "reaped" /\ exitCode \in {status, "killed"}
          ELSE proc \in {"running", "zombie"}

Life ==
  /\ MutexHeld /\ (mutex # NoThread => terminated)
  /\ Busy => shells > 0
  /\ shells = 0 => proc = "none"
  /\ Forking => ~terminated /\ mutex = NoThread /\ proc = "none"
  /\ ~Forking /\ shells > 0 => Command
  /\ ~Forking /\ ~Busy /\ shells > 0 => Over
  /\ \A c \in Callers :
       /\ pc[c] \in Reading => ~terminated
       /\ pc[c] = "fail" => AllClosed /\ ~Over
       /\ pc[c] \in {"caught", "report", "punct"} => Over

(* What the parent holds of the pipes, and what was closed or waited for.  *)
Closing ==
  /\ ~shutdownRequested =>
       /\ shutdown => finalSent
       /\ shells > 0 \/ ~finalSent => OnlyOwn
       /\ ~Forking /\ shells > 0 =>
            \A f \in Fds : fd[f] = IF proc = "reaped" THEN "closed" ELSE "open"
  /\ ~Forking /\ shells > 0 /\ proc # "reaped" => \A s \in Streams : fd[s] = "open"

(* A command that nothing disturbs ends with 0, and nothing else aborts.   *)
Undisturbed ==
  /\ \A s \in Streams : closed[s] => ~outEnd[s]
  /\ proc = "running" => faulty \/ \A s \in Streams : outEnd[s]
  /\ proc = "zombie" => faulty \/ status = "zero"
  /\ aborted /\ shells > 0 => faulty
  /\ \A c \in Callers :
       /\ pc[c] = "caught" => faulty \/ exitCode = "zero"
       /\ ~shutdownRequested /\ pc[c] \in {"drain", "finish", "report", "punct"} =>
            Over /\ exitCode = "zero"

IInv == TypeOK /\ OneCaller /\ Life /\ Closing /\ Undisturbed

-----------------------------------------------------------------------------
(* Types                                                                   *)

USE DEF Threads, PE

(* No two threads have one name, nor any the name of nobody.               *)
LEMMA ThreadsDiffer == NoThread # PE /\ \A c \in Callers : c # PE /\ c # NoThread
BY CallerAssumption DEF NoThread

(* Initially every variable has its type.                                  *)
LEMMA InitType == Init => TypeOK
<1> SUFFICES ASSUME Init PROVE TypeOK
  OBVIOUS
<1>1. ShellTypeOK
  BY NothingType DEF Init, ShellInit, ShellTypeOK
<1>2. /\ pc \in [Threads -> {"up", "idle", "loop", "done"}] /\ pc[PE] = "up"
      /\ \A c \in Callers : pc[c] \in {"idle", "loop", "done"}
  BY ThreadsDiffer DEF Init
<1>3. ThreadTypeOK
  BY <1>2 DEF Init, ShellInit, ThreadTypeOK, CallerLabels, PELabels
<1>4. FlagTypeOK
  BY DEF Init, FlagTypeOK
<1>5. InputTypeOK
  <2>1. started = 0 /\ windows = 0 /\ finalSent = FALSE /\ portMutex = NoThread
    BY DEF Init
  <2>2. 0 \in 0..Runs /\ 0 \in 0..MaxWindows
    <3>1. Runs \in Nat /\ MaxWindows \in Nat
      BY ParamAssumption
    <3> QED BY <3>1
  <2> QED BY <2>1, <2>2 DEF InputTypeOK
<1>6. OutputTypeOK
  <2>1. /\ got \in [Streams -> Seq(Seq(Token))]
        /\ output \in Seq([port : {"out", "err", "window"}, line : Seq(Token)])
    BY NothingType DEF Init, Nothing
  <2> QED BY <1>2, <2>1 DEF Init, OutputTypeOK
<1> QED BY <1>1, <1>3, <1>4, <1>5, <1>6 DEF TypeOK

(* What leaves the shell alone keeps its types.                            *)
LEMMA ShellFrame == ShellTypeOK /\ UNCHANGED shellVars => ShellTypeOK'
BY DEF ShellTypeOK, shellVars, objVars, childVars, pipeVars, histVars

(* Of the program counters, the output depends on who is at submit.        *)
LEMMA OutputFrame ==
  OutputTypeOK /\ UNCHANGED outVars
    /\ (\A c \in Callers : pc'[c] = "submit" => pc[c] = "submit")
    => OutputTypeOK'
BY DEF OutputTypeOK, outVars, Port

(* A caller that goes to one of its labels, while the others stay,         *)
LEMMA CallerGoes ==
  ASSUME ThreadTypeOK, NEW c \in Callers, NEW label \in CallerLabels, Goto(c, label)
  PROVE  /\ pc' \in [Threads -> CallerLabels \cup PELabels]
         /\ pc'[c] = label /\ (\A d \in Callers \ {c} : pc'[d] = pc[d]) /\ pc'[PE] = pc[PE]
         /\ \A d \in Callers : pc'[d] \in CallerLabels
BY ThreadsDiffer DEF ThreadTypeOK, Goto

(* and the thread of the runtime.                                          *)
LEMMA PEGoes ==
  ASSUME ThreadTypeOK, NEW label \in PELabels, Goto(PE, label)
  PROVE  /\ pc' \in [Threads -> CallerLabels \cup PELabels]
         /\ pc'[PE] = label /\ \A c \in Callers : pc'[c] = pc[c]
BY ThreadsDiffer DEF ThreadTypeOK, Goto

(* The types after a step that changes no more than the shell, a program   *)
(* counter and the flags.                                                  *)
LEMMA ControlType ==
  ASSUME TypeOK, ShellTypeOK', mutex' \in Threads \cup {NoThread}, inWrite' = inWrite,
         UNCHANGED <<hasInput, upVars, outVars>>,
         aborted' \in BOOLEAN, shutdownRequested' \in BOOLEAN,
         \/ UNCHANGED pc
         \/ \E c \in Callers, label \in CallerLabels \ {"submit"} : Goto(c, label)
         \/ \E label \in PELabels : Goto(PE, label)
  PROVE  TypeOK'
<1> USE DEF TypeOK
<1>1. /\ pc' \in [Threads -> CallerLabels \cup PELabels]
      /\ pc'[PE] \in PELabels /\ \A c \in Callers : pc'[c] \in CallerLabels
      /\ \A c \in Callers : pc'[c] = "submit" => pc[c] = "submit"
  <2>1. CASE UNCHANGED pc
    BY <2>1 DEF ThreadTypeOK
  <2>2. ASSUME NEW c \in Callers, NEW label \in CallerLabels \ {"submit"}, Goto(c, label)
        PROVE  <1>1!:
    BY <2>2, CallerGoes DEF ThreadTypeOK
  <2>3. ASSUME NEW label \in PELabels, Goto(PE, label)
        PROVE  <1>1!:
    BY <2>3, PEGoes DEF ThreadTypeOK
  <2> QED BY <2>1, <2>2, <2>3
<1>2. ThreadTypeOK'
  BY <1>1 DEF ThreadTypeOK
<1>3. FlagTypeOK' /\ InputTypeOK'
  BY DEF FlagTypeOK, InputTypeOK, upVars
<1>4. OutputTypeOK'
  BY <1>1, OutputFrame
<1> QED BY <1>2, <1>3, <1>4

(* No step of terminate() leaves mutex_ to a thread other than its own.    *)
LEMMA TerminateMutex ==
  ASSUME NEW t, TerminateBegin(t) \/ TerminateReturns(t) \/ WaitFails(t)
  PROVE  mutex' \in {t, NoThread, mutex} /\ inWrite' = inWrite
BY DEF TerminateBegin, TerminateReturns, TerminateAgain, Reap, Kill, WaitForeign, WaitFails,
       shellVars, objVars, pipeVars

(* The steps of the command and of the object that touch neither mutex_    *)
(* nor the writes.                                                         *)
LEMMA OtherMutex ==
  ASSUME \/ SetupBegin \/ ShutdownShell \/ TakeLines \/ ChildQuit \/ CommandEnds
         \/ \E first : SetupFork(first)
         \/ \E s \in Streams : ReadFromPipe(s) \/ ChildWrite(s) \/ ChildClose(s)
         \/ UNCHANGED shellVars
  PROVE  mutex' = mutex /\ inWrite' = inWrite
<1>1. CASE SetupBegin
  BY <1>1 DEF SetupBegin, pipeVars
<1>2. CASE ShutdownShell
  BY <1>2 DEF ShutdownShell, pipeVars
<1>3. CASE TakeLines
  BY <1>3 DEF TakeLines, pipeVars
<1>4. CASE ChildQuit \/ CommandEnds
  BY <1>4 DEF ChildQuit, CommandEnds, Die, objVars, pipeVars
<1>5. CASE \E first : SetupFork(first)
  BY <1>5 DEF SetupFork
<1>6. CASE \E s \in Streams : ReadFromPipe(s) \/ ChildWrite(s) \/ ChildClose(s)
  BY <1>6 DEF ReadFromPipe, ChildWrite, ChildClose, objVars, pipeVars
<1>7. CASE UNCHANGED shellVars
  BY <1>7 DEF shellVars, objVars, pipeVars
<1> QED BY <1>1, <1>2, <1>3, <1>4, <1>5, <1>6, <1>7

(* The steps that change no more than the shell and a label, ...           *)
LEMMA CallerControlType ==
  ASSUME TypeOK, NEW c \in Callers,
         \/ FinalShutdown(c) \/ BeginRun(c) \/ TestShutdown(c) \/ ReadMore(c) \/ Select(c)
         \/ ReadOut(c) \/ ReadErr(c)
  PROVE  TypeOK'
<1> USE DEF CallerLabels
<1>1. ShellTypeOK
  BY DEF TypeOK
<1>2. CASE FinalShutdown(c)
  <2> USE <1>2 DEF FinalShutdown
  <2>1. ShellTypeOK' /\ mutex' = mutex /\ inWrite' = inWrite
    BY <1>1, ShutdownType, OtherMutex
  <2> QED BY <2>1, ControlType DEF opVars, runVars, TypeOK, ThreadTypeOK, FlagTypeOK
<1>3. CASE BeginRun(c)
  <2> USE <1>3 DEF BeginRun, StartShell
  <2>1. ShellTypeOK' /\ mutex' = mutex /\ inWrite' = inWrite
    BY <1>1, SetupBeginType, OtherMutex
  <2> QED BY <2>1, ControlType DEF opVars, runVars, TypeOK, ThreadTypeOK, FlagTypeOK
<1>4. CASE TestShutdown(c) \/ ReadMore(c) \/ Select(c)
  <2>1. /\ \E label \in {"drain", "read", "fail", "select", "readOut"} : Goto(c, label)
        /\ UNCHANGED opVars /\ UNCHANGED shellVars
    BY <1>4 DEF TestShutdown, ReadMore, Select
  <2>2. ShellTypeOK' /\ mutex' = mutex /\ inWrite' = inWrite
    BY <1>1, <2>1, ShellFrame, OtherMutex
  <2> QED BY <2>1, <2>2, ControlType DEF opVars, runVars, TypeOK, ThreadTypeOK, FlagTypeOK
<1>5. CASE ReadOut(c) \/ ReadErr(c)
  <2>1. /\ \E label \in {"readErr", "read", "fail"} : Goto(c, label)
        /\ UNCHANGED opVars
        /\ UNCHANGED shellVars \/ \E s \in Streams : ReadFromPipe(s)
    BY <1>5 DEF ReadOut, ReadErr, ReadStream, Streams
  <2>2. ShellTypeOK' /\ mutex' = mutex /\ inWrite' = inWrite
    BY <1>1, <2>1, ShellFrame, ReadFromPipeType, OtherMutex
  <2> QED BY <2>1, <2>2, ControlType DEF opVars, runVars, TypeOK, ThreadTypeOK, FlagTypeOK
<1> QED BY <1>2, <1>3, <1>4, <1>5

(* ... terminate() after the last line, the exception and the last         *)
(* terminate(), ...                                                        *)
LEMMA EndType ==
  ASSUME TypeOK,
         \/ \E c \in Callers : ReadEnds(c) \/ Caught(c) \/ Finish(c)
         \/ Destroy
  PROVE  TypeOK'
<1>1. ShellTypeOK /\ mutex \in Threads \cup {NoThread}
  BY DEF TypeOK, ThreadTypeOK
<1>2. ASSUME NEW t \in Threads, TerminateBegin(t) \/ TerminateReturns(t) \/ WaitFails(t)
      PROVE  ShellTypeOK' /\ mutex' \in Threads \cup {NoThread} /\ inWrite' = inWrite
  BY <1>1, <1>2, TerminateType, TerminateMutex
<1>3. ASSUME NEW c \in Callers, ReadEnds(c)
      PROVE  TypeOK'
  <2>1. /\ TerminateBegin(c) \/ TerminateReturns(c) \/ WaitFails(c)
        /\ UNCHANGED pc \/ \E label \in {"drain", "caught"} : Goto(c, label)
        /\ UNCHANGED opVars
    BY <1>3 DEF ReadEnds, ReadVerdict
  <2>2. ShellTypeOK' /\ mutex' \in Threads \cup {NoThread} /\ inWrite' = inWrite
    BY <1>2, <2>1
  <2> QED BY <2>1, <2>2, ControlType DEF opVars, runVars, TypeOK, FlagTypeOK, CallerLabels
<1>4. ASSUME NEW c \in Callers, Caught(c)
      PROVE  TypeOK'
  <2>1. /\ UNCHANGED shellVars
        /\ UNCHANGED pc \/ Goto(c, "drain")
        /\ UNCHANGED <<hasInput, shutdownRequested, upVars, outVars>>
        /\ aborted' = TRUE \/ UNCHANGED aborted
    BY <1>4 DEF Caught
  <2>2. ShellTypeOK' /\ mutex' = mutex /\ inWrite' = inWrite
    BY <1>1, <2>1, ShellFrame, OtherMutex
  <2> QED BY <1>1, <2>1, <2>2, ControlType DEF TypeOK, FlagTypeOK, CallerLabels
<1>5. ASSUME NEW c \in Callers, Finish(c)
      PROVE  TypeOK'
  <2>1. /\ TerminateBegin(c) \/ TerminateReturns(c) \/ WaitFails(c)
        /\ UNCHANGED pc \/ Goto(c, "report")
        /\ UNCHANGED <<hasInput, shutdownRequested, upVars, outVars>>
        /\ aborted' = TRUE \/ UNCHANGED aborted
    BY <1>5 DEF Finish, LastTerminate
  <2>2. ShellTypeOK' /\ mutex' \in Threads \cup {NoThread} /\ inWrite' = inWrite
    BY <1>2, <2>1
  <2> QED BY <2>1, <2>2, ControlType DEF TypeOK, FlagTypeOK, CallerLabels
<1>6. CASE Destroy
  <2>1. /\ TerminateBegin(PE) \/ TerminateReturns(PE) \/ WaitFails(PE)
        /\ UNCHANGED pc \/ Goto(PE, "done")
        /\ UNCHANGED <<hasInput, shutdownRequested, upVars, outVars>>
        /\ aborted' = TRUE \/ UNCHANGED aborted
    BY <1>6 DEF Destroy, LastTerminate
  <2>2. ShellTypeOK' /\ mutex' \in Threads \cup {NoThread} /\ inWrite' = inWrite
    BY <1>2, <2>1
  <2> QED BY <2>1, <2>2, ControlType DEF TypeOK, FlagTypeOK, PELabels
<1> QED BY <1>3, <1>4, <1>5, <1>6

(* ... those of the runtime, ...                                           *)
LEMMA RuntimeType ==
  ASSUME TypeOK, RequestShutdown \/ PrepareToShutdown \/ Join
  PROVE  TypeOK'
<1>1. ShellTypeOK
  BY DEF TypeOK
<1>2. /\ \E label \in {"prepare", "join", "destroy"} : Goto(PE, label)
      /\ UNCHANGED <<hasInput, aborted, upVars, outVars>>
      /\ shutdownRequested' = TRUE \/ UNCHANGED shutdownRequested
      /\ UNCHANGED shellVars \/ ShutdownShell
  BY DEF RequestShutdown, PrepareToShutdown, Join, opVars, runVars
<1>3. ShellTypeOK' /\ mutex' = mutex /\ inWrite' = inWrite
  BY <1>1, <1>2, ShellFrame, ShutdownType, OtherMutex
<1> QED BY <1>2, <1>3, ControlType DEF TypeOK, ThreadTypeOK, FlagTypeOK, PELabels

(* ... and those of the command.                                           *)
LEMMA CommandType ==
  ASSUME TypeOK, CommandStep \/ CommandFault
  PROVE  TypeOK'
<1>1. ShellTypeOK
  BY DEF TypeOK
<1>2. /\ UNCHANGED <<pc, opVars>>
      /\ \/ ChildQuit \/ CommandEnds
         \/ \E s \in Streams : ChildWrite(s) \/ ChildClose(s)
  BY DEF CommandStep, CommandFault, Beside
<1>3. ShellTypeOK'
  <2>1. CASE ChildQuit
    BY <1>1, <2>1, DieType, FaultAssumption DEF ChildQuit
  <2>2. CASE CommandEnds
    BY <1>1, <2>2, DieType DEF CommandEnds, ShellTypeOK
  <2> QED BY <1>1, <1>2, <2>1, <2>2, ChildWriteType, ChildCloseType
<1>4. mutex' = mutex /\ inWrite' = inWrite
  BY <1>2, OtherMutex
<1> QED BY <1>2, <1>3, <1>4, ControlType DEF opVars, runVars, TypeOK, ThreadTypeOK, FlagTypeOK

-----------------------------------------------------------------------------
(* The steps that touch the input or the output                            *)

(* A caller moves to a label; `submit' comes with lines to submit.         *)
LEMMA CallerMoveType ==
  ASSUME ThreadTypeOK, NEW c \in Callers, NEW label \in CallerLabels, Goto(c, label),
         mutex' = mutex, inWrite' = inWrite
  PROVE  /\ ThreadTypeOK'
         /\ label # "submit" => \A d \in Callers : pc'[d] = "submit" => pc[d] = "submit"
BY CallerGoes DEF ThreadTypeOK

(* The steps of upstream and of the handler of the FinalMarker, and the    *)
(* operator's own loop.                                                    *)
LEMMA InputStepType ==
  ASSUME TypeOK, NEW c \in Callers,
         ReceiveCommand(c) \/ WindowMarker(c) \/ FinalMarker(c) \/ AwaitDrained(c) \/ Iterate(c)
  PROVE  TypeOK'
<1> USE DEF TypeOK
<1>1. UNCHANGED shellVars /\ UNCHANGED runVars
  BY DEF ReceiveCommand, WindowMarker, FinalMarker, AwaitDrained, Iterate
<1>2. ShellTypeOK' /\ mutex' = mutex /\ inWrite' = inWrite
  BY <1>1, ShellFrame, OtherMutex
<1>3. FlagTypeOK'
  BY <1>1 DEF FlagTypeOK, runVars
<1>4. UNCHANGED pc \/ \E label \in {"setup", "shut", "done", "waiting"} : Goto(c, label)
  BY DEF ReceiveCommand, WindowMarker, FinalMarker, AwaitDrained, Iterate
<1>5. ThreadTypeOK' /\ \A d \in Callers : pc'[d] = "submit" => pc[d] = "submit"
  BY <1>2, <1>4, CallerMoveType DEF ThreadTypeOK, CallerLabels
<1>6. InputTypeOK'
  <2>1. Runs \in Nat /\ MaxWindows \in Nat
    BY ParamAssumption
  <2>2. started' \in 0..Runs
    BY <2>1 DEF InputTypeOK, ReceiveCommand, WindowMarker, FinalMarker, AwaitDrained, Iterate
  <2>3. windows' \in 0..MaxWindows
    BY <2>1 DEF InputTypeOK, ReceiveCommand, WindowMarker, FinalMarker, AwaitDrained, Iterate
  <2>4. finalSent' \in BOOLEAN
    BY DEF InputTypeOK, ReceiveCommand, WindowMarker, FinalMarker, AwaitDrained, Iterate
  <2>5. portMutex' \in Callers \cup {NoThread}
    BY DEF InputTypeOK, ReceiveCommand, WindowMarker, FinalMarker, AwaitDrained, Iterate
  <2> QED BY <2>2, <2>3, <2>4, <2>5 DEF InputTypeOK
<1>7. OutputTypeOK'
  <2>1. UNCHANGED <<drained, got, taken, output, report>>
    BY DEF outVars, ReceiveCommand, WindowMarker, FinalMarker, AwaitDrained, Iterate
  <2>2. finished' \in BOOLEAN
    BY DEF OutputTypeOK, outVars, ReceiveCommand, WindowMarker, FinalMarker, AwaitDrained, Iterate
  <2> QED BY <1>5, <2>1, <2>2 DEF OutputTypeOK, Port
<1> QED BY <1>2, <1>3, <1>5, <1>6, <1>7

(* A shell that is forked.                                                 *)
LEMMA RunType ==
  ASSUME TypeOK, NEW c \in Callers, Run(c)
  PROVE  TypeOK'
<1> USE DEF TypeOK, Run
<1>1. PICK p \in Program : SetupFork([s \in Streams |-> p[s]])
  OBVIOUS
<1>2. [s \in Streams |-> p[s]] \in [Streams -> Seq(Token)]
  <2>1. p["out"] \in Seq(Token) /\ p["err"] \in Seq(Token)
    BY ProgramAssumption
  <2> QED BY <2>1 DEF Streams
<1>3. ShellTypeOK' /\ mutex' = mutex /\ inWrite' = inWrite
  BY <1>1, <1>2, SetupForkType, OtherMutex
<1>4. ThreadTypeOK' /\ \A d \in Callers : pc'[d] = "submit" => pc[d] = "submit"
  BY <1>3, CallerMoveType DEF CallerLabels
<1>5. OutputTypeOK'
  <2>1. output' \in Seq([port : {"out", "err", "window"}, line : Seq(Token)])
    BY NothingType
  <2>2. taken' \in [Streams -> Nat]
    OBVIOUS
  <2>3. UNCHANGED <<drained, got, report, finished>>
    OBVIOUS
  <2> QED BY <1>4, <2>1, <2>2, <2>3 DEF OutputTypeOK, Port
<1> QED BY <1>3, <1>4, <1>5 DEF FlagTypeOK, InputTypeOK, runVars, upVars

(* The lines that readLine() takes from the buffers.                       *)
LEMMA ReadBufferedType ==
  ASSUME TypeOK, NEW c \in Callers, ReadBuffered(c)
  PROVE  TypeOK'
<1> USE DEF TypeOK, ReadBuffered
<1>1. ShellTypeOK' /\ mutex' = mutex /\ inWrite' = inWrite
  BY TakeLinesType, OtherMutex
<1>2. ThreadTypeOK'
  BY <1>1, CallerMoveType DEF CallerLabels
<1>3. /\ got' \in [Streams -> Seq(Seq(Token))]
      /\ got'[Port'] # <<>>
  <2>1. \A s \in Streams : <<NextLine(s)>> \in Seq(Seq(Token)) /\ <<NextLine(s)>> # <<>>
    BY LineType
  <2>2. <<>> \in Seq(Seq(Token))
    BY NothingType
  <2>3. got' = [s \in Streams |-> IF HasLine(s) THEN <<NextLine(s)>> ELSE <<>>]
    OBVIOUS
  <2>4. PICK s \in Streams : HasLine(s)
    BY DEF TakeLines
  <2>5. got'[s] # <<>>
    BY <2>1, <2>3, <2>4
  <2> QED BY <2>1, <2>2, <2>3, <2>5 DEF Port, Streams
<1>4. OutputTypeOK'
  BY <1>3 DEF OutputTypeOK
<1> QED BY <1>1, <1>2, <1>4 DEF FlagTypeOK, InputTypeOK, runVars, upVars

(* What is submitted.                                                      *)
LEMMA OutputStepType ==
  ASSUME TypeOK, OneCaller, NEW c \in Callers,
         Submit(c) \/ Drain(c) \/ Report(c) \/ Punctuate(c)
  PROVE  TypeOK'
<1> USE DEF TypeOK
<1> DEFINE Output == [port : {"out", "err", "window"}, line : Seq(Token)]
<1>1. UNCHANGED shellVars /\ UNCHANGED runVars
  BY DEF Submit, Drain, Report, Punctuate
<1>2. ShellTypeOK' /\ mutex' = mutex /\ inWrite' = inWrite
  BY <1>1, ShellFrame, OtherMutex
<1>3. FlagTypeOK'
  BY <1>1 DEF FlagTypeOK, runVars
<1>4. InputTypeOK'
  BY DEF InputTypeOK, Submit, Drain, Report, Punctuate, upVars
<1>5. CASE Submit(c)
  <2> USE <1>5 DEF Submit
  <2>1. /\ Port \in {"out", "err"} /\ got[Port] # <<>> /\ got[Port] \in Seq(Seq(Token))
        /\ got \in [Streams -> Seq(Seq(Token))]
    BY DEF OutputTypeOK, Port, Streams, At
  <2>2. got[Port][1] \in Seq(Token)
    BY <2>1
  <2>3. output' \in Seq(Output)
    <3>1. [port |-> Port, line |-> got[Port][1]] \in Output
      BY <2>1, <2>2
    <3>2. output \in Seq(Output)
      BY DEF OutputTypeOK
    <3> QED BY <3>1, <3>2, AppendProperties
  <2>4. taken' \in [Streams -> Nat]
    <3>1. Len(got[Port][1]) \in Nat /\ Len(written[Port]) \in Nat /\ taken[Port] \in Nat
      BY <2>1, <2>2, LenProperties DEF OutputTypeOK, ShellTypeOK, Streams
    <3>2. /\ taken[Port] + Len(got[Port][1]) + 1 \in Nat
      BY <3>1
    <3>3. (IF taken[Port] + Len(got[Port][1]) < Len(written[Port])
             THEN taken[Port] + Len(got[Port][1]) + 1 ELSE Len(written[Port])) \in Nat
      BY <3>1, <3>2
    <3> QED BY <3>3 DEF OutputTypeOK
  <2>5. got' \in [Streams -> Seq(Seq(Token))]
    BY <2>1, NothingType
  <2>6. BothLines => got'[Port'] # <<>>
    <3>1. BothLines => got' = [got EXCEPT !["out"] = <<>>] /\ got["err"] # <<>>
      BY DEF BothLines
    <3> QED BY <2>1, <3>1 DEF Port, Streams
  <2>7. ThreadTypeOK' /\ \A d \in Callers \ {c} : pc'[d] = pc[d]
    BY <1>2, CallerMoveType, CallerGoes DEF CallerLabels
  <2>8. pc'[c] = IF BothLines THEN "submit" ELSE "test"
    BY CallerGoes DEF CallerLabels
  <2>9. \A d \in Callers \ {c} : pc[d] # "submit"
    BY DEF OneCaller, Resting, ForFinal, At, InputTypeOK
  <2>10. OutputTypeOK'
    BY <2>3, <2>4, <2>5, <2>6, <2>7, <2>8, <2>9 DEF OutputTypeOK
  <2> QED BY <1>2, <1>3, <1>4, <2>7, <2>10
<1>6. CASE Drain(c)
  <2>1. /\ pc' \in [Threads -> CallerLabels \cup PELabels] /\ pc'[PE] \in PELabels
        /\ \A d \in Callers : pc'[d] \in CallerLabels /\ (pc'[d] = "submit" => pc[d] = "submit")
    BY <1>6, ThreadsDiffer DEF Drain, ThreadTypeOK, CallerLabels, PELabels
  <2>2. ThreadTypeOK'
    BY <1>2, <2>1 DEF ThreadTypeOK
  <2>3. OutputTypeOK'
    BY <1>6, <2>1 DEF Drain, SetDrained, OutputTypeOK, Port
  <2> QED BY <1>2, <1>3, <1>4, <2>2, <2>3
<1>7. CASE Report(c)
  <2>1. ThreadTypeOK' /\ \A d \in Callers : pc'[d] = "submit" => pc[d] = "submit"
    BY <1>2, <1>7, CallerMoveType DEF Report, CallerLabels
  <2>2. OutputTypeOK'
    BY <1>7, <2>1 DEF Report, OutputTypeOK, ShellTypeOK, Port
  <2> QED BY <1>2, <1>3, <1>4, <2>1, <2>2
<1>8. CASE Punctuate(c)
  <2>1. ThreadTypeOK' /\ \A d \in Callers : pc'[d] = "submit" => pc[d] = "submit"
    BY <1>2, <1>8, CallerMoveType DEF Punctuate, CallerLabels
  <2>2. output' \in Seq(Output)
    <3>1. [port |-> "window", line |-> <<>>] \in Output
      BY NothingType
    <3>2. output \in Seq(Output)
      BY DEF OutputTypeOK
    <3> QED BY <1>8, <3>1, <3>2, AppendProperties DEF Punctuate
  <2>3. OutputTypeOK'
    BY <1>8, <2>1, <2>2 DEF Punctuate, OutputTypeOK, Port
  <2> QED BY <1>2, <1>3, <1>4, <2>1, <2>3
<1> QED BY <1>5, <1>6, <1>7, <1>8

(* Every step keeps the types.                                             *)
LEMMA NextType == TypeOK /\ OneCaller /\ [Next]_vars => TypeOK'
<1> SUFFICES ASSUME TypeOK, OneCaller, [Next]_vars PROVE TypeOK'
  OBVIOUS
<1>1. ASSUME NEW c \in Callers, CallerStep(c)
      PROVE  TypeOK'
  BY <1>1, CallerControlType, EndType, InputStepType, RunType, ReadBufferedType, OutputStepType
  DEF CallerStep
<1>2. CASE UNCHANGED vars
  <2>1. ShellTypeOK' /\ mutex' = mutex /\ inWrite' = inWrite
    BY <1>2, ShellFrame, OtherMutex DEF vars, TypeOK
  <2> QED BY <1>2, <2>1, ControlType DEF vars, opVars, runVars, TypeOK, ThreadTypeOK, FlagTypeOK
<1> QED
  BY <1>1, <1>2, EndType, RuntimeType, InputStepType, CommandType
  DEF Next, PEStep, Upstream, Ended

-----------------------------------------------------------------------------
(* One caller at a time                                                    *)

Inner == {"setup", "fork"} \cup Running

(* While one caller is in the operator, no other is, and the destructor    *)
(* does not run.                                                           *)
LEMMA Alone ==
  ASSUME TypeOK, OneCaller, NEW c \in Callers, pc[c] \notin Resting
  PROVE  /\ pc[PE] \notin {"destroy", "done"}
         /\ \A d \in Callers \ {c} : pc[d] \in Resting
BY DEF TypeOK, FlagTypeOK, OneCaller, Resting

(* Initially there is at most the operator's own thread.                   *)
LEMMA InitOneCaller == Init => OneCaller
<1> SUFFICES ASSUME Init PROVE OneCaller
  OBVIOUS
<1>1. portMutex = NoThread /\ finalSent = FALSE /\ \A c \in Callers : c # portMutex
  BY ThreadsDiffer DEF Init
<1>2. CASE hasInput = TRUE
  BY <1>1, <1>2, ThreadsDiffer DEF Init, OneCaller, Resting, ForFinal
<1>3. CASE hasInput = FALSE
  BY <1>1, <1>3, ThreadsDiffer DEF Init, OneCaller, Resting, ForFinal
<1> QED BY <1>2, <1>3 DEF Init

(* What it depends on.                                                     *)
LEMMA OneCallerFrame ==
  OneCaller /\ UNCHANGED <<pc, hasInput, shutdownRequested, portMutex, finalSent>> => OneCaller'
BY DEF OneCaller

(* A caller that runs a command goes on with it.                           *)
LEMMA InnerMove ==
  ASSUME TypeOK, OneCaller, NEW c \in Callers, pc[c] \in Inner, NEW label \in Inner,
         Goto(c, label), UNCHANGED <<hasInput, shutdownRequested, portMutex, finalSent>>
  PROVE  OneCaller'
<1>1. /\ pc'[c] = label /\ (\A d \in Callers \ {c} : pc'[d] = pc[d]) /\ pc'[PE] = pc[PE]
  BY CallerGoes DEF TypeOK, Inner, Running, Reading, CallerLabels
<1> QED BY <1>1 DEF OneCaller, Resting, ForFinal, Inner, Running, Reading

(* No step of a caller brings a second one in.                             *)
LEMMA CallerOneCaller ==
  ASSUME TypeOK, OneCaller, NEW c \in Callers, CallerStep(c)
  PROVE  OneCaller'
<1> USE DEF Inner, Running, Reading
<1>1. CASE \/ BeginRun(c) \/ Run(c) \/ TestShutdown(c) \/ ReadBuffered(c) \/ ReadMore(c)
           \/ Select(c) \/ ReadOut(c) \/ ReadErr(c) \/ ReadEnds(c) \/ Caught(c) \/ Submit(c)
           \/ Finish(c) \/ Report(c)
  <2>1. /\ pc[c] \in Inner /\ UNCHANGED <<hasInput, shutdownRequested, portMutex, finalSent>>
    BY <1>1
    DEF BeginRun, Run, TestShutdown, ReadBuffered, ReadMore, Select, ReadOut, ReadErr, ReadStream,
        ReadEnds, Caught, Submit, Finish, Report, At, opVars, runVars, upVars
  <2>2. UNCHANGED pc \/ \E label \in Inner : Goto(c, label)
    BY <1>1
    DEF BeginRun, Run, TestShutdown, ReadBuffered, ReadMore, Select, ReadOut, ReadErr, ReadStream,
        ReadEnds, ReadVerdict, Caught, Submit, Finish, LastTerminate, Report
  <2> QED BY <2>1, <2>2, InnerMove, OneCallerFrame
<1>2. CASE Drain(c)
  <2>1. \A d \in Callers \ {c} : pc[d] \in Resting
    BY <1>2, Alone DEF Drain, At, Resting
  <2>2. pc[PE] \in PELabels /\ pc \in [Threads -> CallerLabels \cup PELabels]
    BY DEF TypeOK, ThreadTypeOK
  <2>3. Goto(c, "finish")
    BY <1>2, <2>1, <2>2 DEF Drain, Goto, Resting, PELabels
  <2>4. pc[c] \in Inner /\ UNCHANGED <<hasInput, shutdownRequested, portMutex, finalSent>>
    BY <1>2 DEF Drain, At, runVars, upVars
  <2> QED BY <2>3, <2>4, InnerMove
<1>3. CASE Punctuate(c)
  <2>1. pc[c] = "punct" /\ UNCHANGED <<hasInput, shutdownRequested, finalSent>>
    BY <1>3 DEF Punctuate, At, runVars
  <2>2. portMutex' = NoThread /\ \A d \in Callers : d # NoThread
    BY <1>3, ThreadsDiffer DEF Punctuate
  <2>3. /\ pc'[c] = (IF hasInput THEN "idle" ELSE "loop") /\ pc'[PE] = pc[PE]
        /\ \A d \in Callers \ {c} : pc'[d] = pc[d]
    BY <1>3, CallerGoes DEF Punctuate, TypeOK, CallerLabels
  <2> QED BY <2>1, <2>2, <2>3, Alone DEF OneCaller, Resting, ForFinal
<1>4. CASE Iterate(c)
  <2>1. pc[c] = "loop" /\ UNCHANGED <<hasInput, shutdownRequested, portMutex, finalSent>>
    BY <1>4 DEF Iterate, At, runVars
  <2>2. /\ pc'[c] \in {"setup", "done"} /\ pc'[PE] = pc[PE]
        /\ \A d \in Callers \ {c} : pc'[d] = pc[d]
    BY <1>4, CallerGoes DEF Iterate, TypeOK, CallerLabels
  <2>3. ~hasInput
    BY <2>1 DEF OneCaller, TypeOK, FlagTypeOK
  <2> QED BY <2>1, <2>2, <2>3 DEF OneCaller, Resting, ForFinal
<1>5. CASE FinalShutdown(c)
  <2>1. pc[c] = "shut" /\ UNCHANGED <<hasInput, shutdownRequested, portMutex, finalSent>>
    BY <1>5 DEF FinalShutdown, At, opVars, runVars, upVars
  <2>2. pc'[c] = "await" /\ pc'[PE] = pc[PE] /\ \A d \in Callers \ {c} : pc'[d] = pc[d]
    BY <1>5, CallerGoes DEF FinalShutdown, TypeOK, CallerLabels
  <2> QED BY <2>1, <2>2 DEF OneCaller, Resting, ForFinal
<1>6. CASE AwaitDrained(c)
  <2>1. pc[c] = "await" /\ UNCHANGED <<hasInput, shutdownRequested, finalSent>>
    BY <1>6 DEF AwaitDrained, At, runVars
  <2>2. /\ pc'[c] \in {"done", "waiting"} /\ pc'[PE] = pc[PE]
        /\ \A d \in Callers \ {c} : pc'[d] = pc[d]
        /\ portMutex' = IF pc'[c] = "done" THEN NoThread ELSE portMutex
    BY <1>6, CallerGoes DEF AwaitDrained, TypeOK, CallerLabels
  <2>3. \A d \in Callers : d # NoThread
    BY ThreadsDiffer
  <2> QED BY <2>1, <2>2, <2>3, Alone DEF OneCaller, Resting, ForFinal
<1> QED BY <1>1, <1>2, <1>3, <1>4, <1>5, <1>6 DEF CallerStep

(* Nor does any other step.                                                *)
LEMMA NextOneCaller == TypeOK /\ OneCaller /\ [Next]_vars => OneCaller'
<1> SUFFICES ASSUME TypeOK, OneCaller, [Next]_vars PROVE OneCaller'
  OBVIOUS
<1>1. ASSUME NEW c \in Callers, ReceiveCommand(c) \/ FinalMarker(c)
      PROVE  OneCaller'
  <2>1. /\ hasInput /\ pc[c] = "idle" /\ pc[PE] # "destroy" /\ pc[PE] # "done"
        /\ portMutex = NoThread /\ portMutex' = c /\ ~finalSent
        /\ UNCHANGED <<hasInput, shutdownRequested>>
    BY <1>1 DEF ReceiveCommand, FinalMarker, Callable, At, Up, PortFree, runVars
  <2>2. /\ finalSent' => pc'[c] = "shut" /\ \A d \in Callers : pc[d] = "idle"
        /\ pc'[c] = IF finalSent' THEN "shut" ELSE "setup"
        /\ pc'[PE] = pc[PE] /\ \A d \in Callers \ {c} : pc'[d] = pc[d]
    BY <1>1, <2>1, CallerGoes DEF ReceiveCommand, FinalMarker, Callable, At, TypeOK, CallerLabels
  <2>3. \A d \in Callers : d # NoThread
    BY ThreadsDiffer
  <2> QED BY <2>1, <2>2, <2>3 DEF OneCaller, Resting, ForFinal
<1>2. CASE \E c \in Callers : WindowMarker(c)
  BY <1>2, OneCallerFrame DEF WindowMarker, runVars
<1>3. CASE RequestShutdown \/ PEStep
  <2>1. UNCHANGED <<hasInput, portMutex, finalSent>> /\ \A c \in Callers : pc'[c] = pc[c]
    <3>1. UNCHANGED pc \/ \E label \in PELabels : Goto(PE, label)
      BY <1>3 DEF RequestShutdown, PEStep, PrepareToShutdown, Join, Destroy, LastTerminate, PELabels
    <3>2. \A c \in Callers : pc'[c] = pc[c]
      BY <3>1, PEGoes DEF TypeOK
    <3> QED BY <1>3, <3>2
        DEF RequestShutdown, PEStep, PrepareToShutdown, Join, Destroy, opVars, runVars, upVars
  <2>2. shutdownRequested' = TRUE \/ UNCHANGED shutdownRequested
    BY <1>3 DEF RequestShutdown, PEStep, PrepareToShutdown, Join, Destroy, opVars, runVars
  <2>3. pc'[PE] # "up" => shutdownRequested'
    BY <1>3, <2>2 DEF RequestShutdown, PEStep, PrepareToShutdown, Join, Destroy, At, OneCaller
  <2>4. pc'[PE] \in {"destroy", "done"} => \A c \in Callers : pc[c] \in Resting
    BY <1>3, PEGoes
    DEF RequestShutdown, PEStep, PrepareToShutdown, Join, Destroy, LastTerminate, At, OneCaller,
        TypeOK, PELabels, Resting
  <2> QED BY <2>1, <2>3, <2>4 DEF OneCaller
<1>4. CASE CommandStep \/ CommandFault \/ UNCHANGED vars
  BY <1>4, OneCallerFrame DEF CommandStep, CommandFault, Beside, vars, opVars, runVars, upVars
<1> QED BY <1>1, <1>2, <1>3, <1>4, CallerOneCaller DEF Next, Upstream, Ended

-----------------------------------------------------------------------------
(* The shell                                                               *)

Safe == Life /\ Closing /\ Undisturbed

(* What a step makes of Forking and Busy, when the caller that is in the   *)
(* operator takes it, and who can hold mutex_ of the object then.          *)
LEMMA Here ==
  ASSUME TypeOK, OneCaller, MutexHeld, NEW c \in Callers, pc[c] \notin Resting,
         NEW label \in CallerLabels, Goto(c, label)
  PROVE  /\ pc'[c] = label /\ pc'[PE] = pc[PE] /\ pc[PE] \notin {"destroy", "done"}
         /\ \A d \in Callers \ {c} : pc[d] \in Resting /\ pc'[d] \in Resting
         /\ (Forking <=> pc[c] = "fork") /\ (Busy <=> pc[c] \in Running)
         /\ (Forking' <=> label = "fork") /\ (Busy' <=> label \in Running)
         /\ mutex # NoThread => mutex = c /\ pc[c] \in {"fail", "finish"}
<1>1. /\ pc'[c] = label /\ (\A d \in Callers \ {c} : pc'[d] = pc[d]) /\ pc'[PE] = pc[PE]
  BY CallerGoes DEF TypeOK
<1>2. pc[PE] \notin {"destroy", "done"} /\ \A d \in Callers \ {c} : pc[d] \in Resting
  BY Alone
<1> QED BY <1>1, <1>2 DEF Forking, Busy, Resting, Running, Reading, MutexHeld

(* A thread that stays where it is goes to its own label.                  *)
LEMMA Stays ==
  ASSUME TypeOK, NEW c \in Callers, UNCHANGED pc
  PROVE  Goto(c, pc[c]) /\ pc[c] \in CallerLabels
BY DEF TypeOK, ThreadTypeOK, Goto

(* A caller goes on and leaves the shell alone.                            *)
LEMMA LabelMove ==
  ASSUME TypeOK, OneCaller, Safe, NEW c \in Callers, pc[c] \notin Resting,
         NEW label \in CallerLabels, Goto(c, label),
         UNCHANGED <<mutex, terminated, shutdown, exitCode, closed, fd, proc, status, outEnd,
                     shells, faulty, stray>>,
         UNCHANGED <<shutdownRequested, finalSent, aborted>>,
         pc[c] \notin {"fork", "fail", "finish"}, label # "fork",
         label \in Running => pc[c] \in Running,
         pc[c] \in Running /\ label \notin Running => Over,
         label \in Reading => ~terminated,
         label = "fail" => AllClosed /\ ~Over,
         label \in {"caught", "report", "punct"} => Over,
         label = "caught" => faulty \/ exitCode = "zero",
         ~shutdownRequested /\ label \in {"drain", "finish", "report", "punct"} =>
           Over /\ exitCode = "zero"
  PROVE  Safe'
<1> USE DEF Safe
<1>1. /\ pc'[c] = label /\ \A d \in Callers \ {c} : pc'[d] \in Resting
      /\ ~Forking /\ ~Forking' /\ (Busy <=> pc[c] \in Running) /\ (Busy' <=> label \in Running)
      /\ mutex = NoThread
  BY Here DEF Life
<1>2. Life'
  <2>1. MutexHeld' /\ (mutex' # NoThread => terminated')
    BY <1>1 DEF MutexHeld
  <2>2. (Busy' => shells' > 0) /\ (shells' = 0 => proc' = "none")
    BY <1>1 DEF Life
  <2>3. (~Forking' /\ shells' > 0) => Command'
    BY <1>1 DEF Life, Command, Over
  <2>4. (~Forking' /\ ~Busy' /\ shells' > 0) => Over'
    BY <1>1 DEF Life, Over
  <2>5. \A d \in Callers :
          /\ pc'[d] \in Reading => ~terminated'
          /\ pc'[d] = "fail" => AllClosed' /\ ~Over'
          /\ pc'[d] \in {"caught", "report", "punct"} => Over'
    BY <1>1 DEF Resting, Reading, AllClosed, Over
  <2> QED BY <1>1, <2>1, <2>2, <2>3, <2>4, <2>5 DEF Life
<1>3. Closing'
  BY <1>1 DEF Closing, OnlyOwn
<1>4. Undisturbed'
  <2>1. \A d \in Callers :
          /\ pc'[d] = "caught" => faulty' \/ exitCode' = "zero"
          /\ ~shutdownRequested' /\ pc'[d] \in {"drain", "finish", "report", "punct"} =>
               Over' /\ exitCode' = "zero"
    BY <1>1 DEF Resting, Over
  <2> QED BY <2>1 DEF Undisturbed
<1> QED BY <1>2, <1>3, <1>4

(* The steps of that kind.                                                 *)
LEMMA QuietSafe ==
  ASSUME TypeOK, OneCaller, Safe, NEW c \in Callers,
         \/ TestShutdown(c) \/ ReadMore(c) \/ Select(c) \/ Submit(c) \/ Drain(c) \/ Report(c)
         \/ Punctuate(c) \/ Iterate(c) \/ AwaitDrained(c) \/ ReadBuffered(c)
  PROVE  Safe'
<1> USE DEF Safe, Running, Reading, Resting, CallerLabels
<1>1. /\ UNCHANGED <<mutex, terminated, shutdown, exitCode, closed, fd, proc, status, outEnd,
                     shells, faulty, stray>>
      /\ UNCHANGED <<shutdownRequested, finalSent, aborted>>
  <2>1. CASE ReadBuffered(c)
    BY <2>1 DEF ReadBuffered, TakeLines, childVars, histVars, runVars, upVars
  <2>2. CASE ~ReadBuffered(c)
    BY <2>2 DEF TestShutdown, ReadMore, Select, Submit, Drain, Report, Punctuate, Iterate,
       AwaitDrained, opVars, runVars, upVars, shellVars, objVars, childVars, histVars
  <2> QED BY <2>1, <2>2
<1>2. CASE TestShutdown(c)
  <2>1. /\ pc[c] = "test" /\ Goto(c, IF shutdownRequested THEN "drain" ELSE "read")
        /\ ~terminated
    BY <1>2 DEF TestShutdown, At, Life
  <2> QED BY <1>1, <2>1, LabelMove
<1>3. CASE ReadMore(c)
  <2>1. /\ pc[c] = "read" /\ Goto(c, IF AllClosed THEN "fail" ELSE "select")
        /\ ~terminated /\ ~Over
    BY <1>3 DEF ReadMore, At, Life, Over
  <2> QED BY <1>1, <2>1, LabelMove
<1>4. CASE Select(c)
  <2>1. pc[c] = "select" /\ Goto(c, "readOut") /\ ~terminated
    BY <1>4 DEF Select, At, Life
  <2> QED BY <1>1, <2>1, LabelMove
<1>5. CASE Submit(c)
  <2>1. /\ pc[c] = "submit" /\ Goto(c, IF BothLines THEN "submit" ELSE "test")
        /\ ~terminated
    BY <1>5 DEF Submit, At, Life
  <2> QED BY <1>1, <2>1, LabelMove
<1>6. CASE Drain(c)
  <2>1. pc[c] = "drain" /\ \A d \in Callers \ {c} : pc[d] \in Resting
    BY <1>6, Alone DEF Drain, At
  <2>2. pc[PE] \in PELabels /\ pc \in [Threads -> CallerLabels \cup PELabels]
    BY DEF TypeOK, ThreadTypeOK
  <2>3. Goto(c, "finish")
    BY <1>6, <2>1, <2>2 DEF Drain, Goto, PELabels
  <2>4. ~shutdownRequested => Over /\ exitCode = "zero"
    BY <2>1 DEF Undisturbed
  <2> QED BY <1>1, <2>1, <2>3, <2>4, LabelMove
<1>7. CASE Report(c)
  <2>1. /\ pc[c] = "report" /\ Goto(c, "punct") /\ Over
        /\ ~shutdownRequested => exitCode = "zero"
    BY <1>7 DEF Report, At, Life, Undisturbed
  <2> QED BY <1>1, <2>1, LabelMove
<1>8. CASE Punctuate(c)
  <2>1. pc[c] = "punct" /\ Goto(c, IF hasInput THEN "idle" ELSE "loop") /\ Over
    BY <1>8 DEF Punctuate, At, Life
  <2> QED BY <1>1, <2>1, LabelMove
<1>9. CASE Iterate(c)
  <2>1. pc[c] = "loop" /\ \E label \in {"setup", "done"} : Goto(c, label)
    BY <1>9 DEF Iterate, At
  <2> QED BY <1>1, <2>1, LabelMove
<1>10. CASE AwaitDrained(c)
  <2>1. pc[c] = "await" /\ \E label \in {"done", "waiting"} : Goto(c, label)
    BY <1>10 DEF AwaitDrained, At
  <2> QED BY <1>1, <2>1, LabelMove
<1>11. CASE ReadBuffered(c)
  <2>1. pc[c] = "read" /\ Goto(c, "submit") /\ ~terminated
    BY <1>11 DEF ReadBuffered, At, Life
  <2> QED BY <1>1, <2>1, LabelMove
<1> QED BY <1>2, <1>3, <1>4, <1>5, <1>6, <1>7, <1>8, <1>9, <1>10, <1>11

(* Commands and the FinalMarker come when no caller is in the operator.    *)
LEMMA EnterSafe ==
  ASSUME TypeOK, OneCaller, Safe, NEW c \in Callers, ReceiveCommand(c) \/ FinalMarker(c)
  PROVE  Safe'
<1> USE DEF Safe
<1>1. /\ hasInput /\ portMutex = NoThread /\ pc[PE] # "destroy"
      /\ \E label \in {"setup", "shut"} : Goto(c, label)
      /\ UNCHANGED <<shellVars, shutdownRequested, aborted>>
      /\ finalSent' = TRUE \/ UNCHANGED finalSent
  BY DEF ReceiveCommand, FinalMarker, Callable, PortFree, runVars
<1>2. /\ \A d \in Callers : pc[d] \in Resting
      /\ pc'[c] \in {"setup", "shut"} /\ \A d \in Callers \ {c} : pc'[d] \in Resting
  BY <1>1, ThreadsDiffer, CallerGoes DEF OneCaller, TypeOK, CallerLabels
<1>3. ~Forking /\ ~Busy /\ ~Forking' /\ ~Busy'
  BY <1>2 DEF Forking, Busy, Resting, Running, Reading
<1>4. mutex = NoThread
  BY <1>1, <1>2 DEF Life, MutexHeld, Resting
<1>5. UNCHANGED <<mutex, terminated, shutdown, exitCode, closed, fd, proc, status, outEnd,
                  shells, faulty, stray>>
  BY <1>1 DEF shellVars, objVars, childVars, histVars
<1>6. Life'
  BY <1>2, <1>3, <1>4, <1>5 DEF Life, MutexHeld, Command, Over, Resting, Reading
<1>7. Closing'
  BY <1>1, <1>3, <1>5 DEF Closing, OnlyOwn
<1>8. Undisturbed'
  BY <1>1, <1>2, <1>5 DEF Undisturbed, Resting
<1> QED BY <1>6, <1>7, <1>8

(* shutdown() has nothing to do but to close stdin.                        *)
LEMMA ShutdownSafe ==
  ASSUME TypeOK, OneCaller, Safe, (\E c \in Callers : FinalShutdown(c)) \/ PrepareToShutdown
  PROVE  Safe'
<1> USE DEF Safe
<1>1. /\ ShutdownShell /\ UNCHANGED <<shutdownRequested, finalSent, aborted>>
  BY DEF FinalShutdown, PrepareToShutdown, opVars, runVars, upVars
<1>2. /\ UNCHANGED <<mutex, terminated, exitCode, closed, proc, status, outEnd, shells, faulty>>
      /\ mutex = NoThread /\ shutdown' = TRUE
      /\ \A s \in Streams : fd'[s] = fd[s]
      /\ terminated => UNCHANGED <<fd, stray>>
  BY <1>1 DEF ShutdownShell, CloseFds, Useless, Streams, Fds, childVars, TypeOK, ShellTypeOK
<1>3. /\ \A d \in Callers : /\ pc'[d] = pc[d] \/ {pc[d], pc'[d]} \subseteq ForFinal
                            /\ pc'[d] \in Running \cup {"fork"} <=> pc[d] \in Running \cup {"fork"}
      /\ (Forking' <=> Forking) /\ (Busy' <=> Busy)
  <2>1. ASSUME NEW c \in Callers, FinalShutdown(c)
        PROVE  <1>3!1 /\ <1>3!2
    <3>1. /\ pc[c] = "shut" /\ pc'[c] = "await"
          /\ \A d \in Callers \ {c} : pc'[d] = pc[d]
      BY <2>1, CallerGoes DEF FinalShutdown, At, TypeOK, CallerLabels
    <3> QED BY <3>1 DEF Forking, Busy, Running, Reading, ForFinal
  <2>2. CASE PrepareToShutdown
    <3>1. \A d \in Callers : pc'[d] = pc[d]
      BY <2>2, PEGoes DEF PrepareToShutdown, TypeOK, PELabels
    <3> QED BY <3>1 DEF Forking, Busy
  <2> QED BY <2>1, <2>2
<1>4. Life'
  <2>1. MutexHeld' /\ (mutex' # NoThread => terminated')
    BY <1>2 DEF MutexHeld
  <2>2. \A d \in Callers :
          /\ pc'[d] \in Reading => ~terminated'
          /\ pc'[d] = "fail" => AllClosed' /\ ~Over'
          /\ pc'[d] \in {"caught", "report", "punct"} => Over'
    BY <1>2, <1>3 DEF Life, Reading, ForFinal, AllClosed, Over
  <2> QED BY <1>2, <1>3, <2>1, <2>2 DEF Life, Command, Over
<1>5. Closing'
  <2>1. CASE shutdownRequested
    BY <1>1, <1>2, <1>3, <2>1 DEF Closing
  <2>2. CASE ~shutdownRequested
    <3>1. finalSent /\ ~Forking /\ ~Busy
      BY <2>2 DEF OneCaller, FinalShutdown, PrepareToShutdown, At, ForFinal, Resting, Forking,
                  Busy, Running, Reading
    <3>2. shells > 0 => terminated
      BY <3>1 DEF Life, Over
    <3> QED BY <1>1, <1>2, <1>3, <3>1, <3>2 DEF Closing, OnlyOwn
  <2> QED BY <2>1, <2>2
<1>6. Undisturbed'
  BY <1>1, <1>2, <1>3 DEF Undisturbed, ForFinal, Over
<1> QED BY <1>4, <1>5, <1>6

(* setup() makes a command of the object's own.                            *)
LEMMA SetupSafe ==
  ASSUME TypeOK, OneCaller, Safe, NEW c \in Callers, BeginRun(c) \/ Run(c)
  PROVE  Safe'
<1> USE DEF Safe
<1>1. CASE BeginRun(c)
  <2>1. /\ pc[c] = "setup" /\ Goto(c, "fork") /\ SetupBegin
        /\ UNCHANGED <<shutdownRequested, finalSent, aborted>>
    BY <1>1 DEF BeginRun, StartShell, At, opVars, runVars, upVars
  <2>2. /\ pc'[c] = "fork" /\ (\A d \in Callers \ {c} : pc'[d] \in Resting)
        /\ mutex = NoThread /\ Forking' /\ ~Busy'
    BY <2>1, Here DEF CallerLabels, Resting, Running, Reading, Life
  <2>3. /\ terminated' = FALSE /\ proc' = "none"
        /\ UNCHANGED <<mutex, shutdown, fd, closed, outEnd, shells, faulty, stray>>
    BY <2>1 DEF SetupBegin, histVars
  <2>4. Life'
    BY <2>2, <2>3 DEF Life, MutexHeld, Resting, Reading
  <2>5. Closing'
    BY <2>1, <2>2, <2>3 DEF Closing, OnlyOwn
  <2>6. Undisturbed'
    BY <2>1, <2>2, <2>3 DEF Undisturbed, Resting
  <2> QED BY <2>4, <2>5, <2>6
<1>2. CASE Run(c)
  <2>1. /\ pc[c] = "fork" /\ Goto(c, "test") /\ (\E first : SetupFork(first))
        /\ UNCHANGED <<shutdownRequested, finalSent, aborted>> /\ ~aborted
    BY <1>2 DEF Run, At, Up, runVars, upVars
  <2>2. /\ pc'[c] = "test" /\ (\A d \in Callers \ {c} : pc'[d] \in Resting)
        /\ Forking /\ ~Forking' /\ ~finalSent /\ shells \in Nat
    BY <2>1, Here DEF CallerLabels, Resting, Life, OneCaller, ForFinal, TypeOK, ShellTypeOK
  <2>3. /\ proc' = "running" /\ shells' = shells + 1
        /\ UNCHANGED <<mutex, terminated, shutdown, faulty, stray>>
        /\ \A f \in Fds : fd'[f] = "open"
        /\ \A s \in Streams : closed'[s] = FALSE /\ outEnd'[s] = TRUE /\ s \in Fds
    BY <2>1 DEF SetupFork, Streams, Fds
  <2>4. ~terminated /\ mutex = NoThread /\ shells' > 0
    BY <2>2, <2>3 DEF Life
  <2>5. Life'
    <3>1. MutexHeld' /\ Command' /\ ~Over'
      BY <2>3, <2>4 DEF MutexHeld, Command, Over
    <3>2. \A d \in Callers :
            /\ pc'[d] \in Reading => ~terminated'
            /\ pc'[d] = "fail" => AllClosed' /\ ~Over'
            /\ pc'[d] \in {"caught", "report", "punct"} => Over'
      BY <2>2, <2>3, <2>4 DEF Resting, Reading
    <3>3. Busy'
      BY <2>2 DEF Busy, Running, Reading
    <3> QED BY <2>2, <2>3, <2>4, <3>1, <3>2, <3>3 DEF Life
  <2>6. Closing'
    BY <2>1, <2>2, <2>3 DEF Closing, OnlyOwn
  <2>7. Undisturbed'
    BY <2>1, <2>2, <2>3 DEF Undisturbed, Resting
  <2> QED BY <2>5, <2>6, <2>7
<1> QED BY <1>1, <1>2

(* A read() changes the buffer and closes what the command has closed.     *)
LEMMA ReadSafe ==
  ASSUME TypeOK, OneCaller, Safe, NEW c \in Callers, ReadOut(c) \/ ReadErr(c)
  PROVE  Safe'
<1> USE DEF Safe
<1>1. PICK s \in Streams :
        /\ pc[c] \in {"readOut", "readErr"}
        /\ \/ ReadFromPipe(s) /\ \E label \in {"readErr", "read"} : Goto(c, label)
           \/ ReadFails(s)
        /\ UNCHANGED <<shutdownRequested, finalSent, aborted>>
  BY DEF ReadOut, ReadErr, ReadStream, At, Streams, opVars, runVars, upVars
<1>2. ~terminated /\ mutex = NoThread /\ ~Forking /\ shells > 0
  BY <1>1, Here, Stays DEF Life, Forking, Busy, Reading, Running, Resting, OneCaller, MutexHeld
<1>3. ~ReadFails(s)
  BY <1>2 DEF ReadFails, Closing, Life, Command, Over
<1>4. PICK label \in {"readErr", "read"} : Goto(c, label)
  BY <1>1, <1>3
<1>5. /\ pc'[c] = label /\ (\A d \in Callers \ {c} : pc'[d] \in Resting)
      /\ ~Forking' /\ Busy'
  BY <1>1, <1>4, Here DEF CallerLabels, Resting, Life, Running, Reading
<1>6. /\ UNCHANGED <<mutex, terminated, shutdown, exitCode, fd, proc, status, outEnd, shells,
                     faulty, stray>>
      /\ closed' = [closed EXCEPT ![s] = closed'[s]] /\ (closed'[s] => closed[s] \/ ~outEnd[s])
  BY <1>1, <1>3 DEF ReadFromPipe, childVars, histVars, TypeOK, ShellTypeOK
<1>7. Life'
  <2>1. MutexHeld' /\ Command' /\ ~Over'
    BY <1>2, <1>6 DEF MutexHeld, Command, Over, Life
  <2>2. \A d \in Callers :
          /\ pc'[d] \in Reading => ~terminated'
          /\ pc'[d] = "fail" => AllClosed' /\ ~Over'
          /\ pc'[d] \in {"caught", "report", "punct"} => Over'
    BY <1>2, <1>5, <1>6 DEF Resting, Reading
  <2> QED BY <1>2, <1>5, <1>6, <2>1, <2>2 DEF Life
<1>8. Closing'
  BY <1>1, <1>2, <1>5, <1>6 DEF Closing, OnlyOwn
<1>9. Undisturbed'
  <2>1. \A r \in Streams : closed'[r] => ~outEnd'[r]
    BY <1>6 DEF Undisturbed, TypeOK, ShellTypeOK
  <2>2. \A d \in Callers : pc'[d] \notin {"caught", "drain", "finish", "report", "punct"}
    BY <1>5 DEF Resting
  <2> QED BY <1>1, <1>6, <2>1, <2>2 DEF Undisturbed
<1> QED BY <1>7, <1>8, <1>9

(* The thread in terminate() gets out of it once the command is reaped.    *)
LEMMA Reaped ==
  ASSUME TypeOK, NEW t, t # NoThread, ~Over, proc \in {"running", "zombie"},
         TerminateReturns(t) \/ WaitFails(t)
  PROVE  /\ mutex = t /\ mutex' = NoThread /\ proc' = "reaped"
         /\ exitCode' \in {status', "killed"} /\ (proc = "zombie" => exitCode' = status)
         /\ exitReason' = "Shutdown" => shutdown
         /\ CloseFds(ToClose) /\ (\A s \in Streams : outEnd'[s] => outEnd[s])
         /\ UNCHANGED <<shutdown, terminated, closed, shells, faulty>>
         /\ ~WaitFails(t)
<1>1. ~TerminateAgain /\ ~WaitForeign(t) /\ ~WaitFails(t)
  BY DEF TerminateAgain, WaitForeign, WaitFails, Over
<1>2. CASE Reap(t)
  BY <1>1, <1>2 DEF Reap, ReasonOf
<1>3. CASE Kill(t)
  <2>1. ~(proc = "zombie")
    BY <1>3 DEF Kill
  <2> QED BY <1>1, <1>3, <2>1 DEF Kill
<1> QED BY <1>1, <1>2, <1>3 DEF TerminateReturns

(* terminate() after the last line: until it is over the pipes are there.  *)
LEMMA ReadEndsSafe ==
  ASSUME TypeOK, OneCaller, Safe, NEW c \in Callers, ReadEnds(c)
  PROVE  Safe'
<1> USE DEF Safe
<1>1. /\ pc[c] = "fail" /\ UNCHANGED <<shutdownRequested, finalSent, aborted>> /\ ~aborted
      /\ c # NoThread
  BY ThreadsDiffer DEF ReadEnds, At, Up, opVars, runVars, upVars
<1>2. AllClosed /\ ~Over /\ ~Forking /\ shells > 0 /\ ~finalSent
  BY <1>1, Here, Stays DEF Life, Forking, Busy, Running, Reading, Resting, OneCaller, ForFinal
<1>3. proc \in {"running", "zombie"}
  BY <1>2 DEF Life, Command
<1>4. CASE TerminateBegin(c) /\ UNCHANGED pc
  <2>1. /\ terminated' = TRUE /\ mutex' = c
        /\ UNCHANGED <<shutdown, exitCode, fd, closed, proc, status, outEnd, shells, faulty, stray>>
    BY <1>4 DEF TerminateBegin, childVars, histVars
  <2>2. (\A d \in Callers \ {c} : pc[d] \in Resting) /\ Busy
    BY <1>1, Alone DEF Resting, Busy, Running
  <2>3. UNCHANGED <<Forking, Busy>> /\ ~Over' /\ pc' = pc
    BY <1>1, <1>4, <2>1 DEF Forking, Busy, Over
  <2>4. Life'
    <3>1. MutexHeld' /\ Command'
      BY <1>1, <1>3, <2>1, <2>3 DEF MutexHeld, Command
    <3>2. \A d \in Callers :
            /\ pc'[d] \in Reading => ~terminated'
            /\ pc'[d] = "fail" => AllClosed' /\ ~Over'
            /\ pc'[d] \in {"caught", "report", "punct"} => Over'
      BY <1>1, <1>2, <2>1, <2>2, <2>3 DEF Resting, Reading, AllClosed
    <3> QED BY <1>2, <2>1, <2>2, <2>3, <3>1, <3>2 DEF Life
  <2>5. Closing'
    BY <1>1, <2>1, <2>3 DEF Closing, OnlyOwn
  <2>6. Undisturbed'
    BY <1>1, <2>1, <2>2, <2>3 DEF Undisturbed, Resting
  <2> QED BY <2>4, <2>5, <2>6
<1>5. CASE \/ TerminateReturns(c) /\ ReadVerdict(c, exitReason')
           \/ WaitFails(c) /\ Goto(c, "caught")
  <2>1. TerminateReturns(c) \/ WaitFails(c)
    BY <1>5
  <2>2. /\ mutex' = NoThread /\ proc' = "reaped"
        /\ exitCode' \in {status', "killed"} /\ (proc = "zombie" => exitCode' = status)
        /\ exitReason' = "Shutdown" => shutdown
        /\ CloseFds(ToClose) /\ (\A s \in Streams : outEnd'[s] => outEnd[s])
        /\ UNCHANGED <<shutdown, terminated, closed, shells, faulty>>
        /\ ~WaitFails(c) /\ mutex = c
    BY <1>1, <1>2, <1>3, <2>1, Reaped
  <2>3. /\ Goto(c, IF AllClosed /\ exitReason' = "Shutdown" THEN "drain" ELSE "caught")
    BY <1>5, <2>2 DEF ReadVerdict
  <2>4. /\ pc'[c] \in {"drain", "caught"} /\ (pc'[c] = "drain" => shutdown)
        /\ (\A d \in Callers \ {c} : pc'[d] \in Resting) /\ ~Forking' /\ Busy'
    BY <1>1, <2>2, <2>3, Here DEF CallerLabels, Resting, Running, Life
  <2>5. terminated /\ Over'
    BY <1>1, <2>2 DEF Life, Over
  <2>6. Life'
    <3>1. MutexHeld' /\ Command'
      BY <2>2, <2>5 DEF MutexHeld, Command
    <3>2. \A d \in Callers :
            /\ pc'[d] \in Reading => ~terminated'
            /\ pc'[d] = "fail" => AllClosed' /\ ~Over'
            /\ pc'[d] \in {"caught", "report", "punct"} => Over'
      BY <2>4, <2>5 DEF Resting, Reading
    <3> QED BY <1>2, <2>2, <2>4, <2>5, <3>1, <3>2 DEF Life
  <2>7. Closing'
    <3>1. ASSUME ~shutdownRequested
          PROVE  stray' = stray /\ ~shutdown /\ \A f \in Fds : fd'[f] = "closed"
      BY <1>2, <1>3, <2>2, <3>1 DEF Closing, CloseFds, ToClose
    <3> QED BY <1>1, <1>2, <2>2, <2>4, <3>1 DEF Closing, OnlyOwn
  <2>8. Undisturbed'
    <3>1. faulty' \/ exitCode' = "zero"
      BY <1>2, <1>3, <2>2 DEF Undisturbed, AllClosed, Streams
    <3>2. ~shutdownRequested => pc'[c] = "caught"
      BY <1>2, <2>4 DEF Closing
    <3>3. (\A s \in Streams : closed'[s] => ~outEnd'[s])
      BY <2>2 DEF Undisturbed
    <3> QED BY <1>1, <2>2, <2>4, <3>1, <3>2, <3>3 DEF Undisturbed, Resting
  <2> QED BY <2>6, <2>7, <2>8
<1> QED BY <1>4, <1>5 DEF ReadEnds

(* The last terminate() of a command kills it when a shutdown cut it short *)
(* and has nothing to do otherwise.                                        *)
LEMMA FinishSafe ==
  ASSUME TypeOK, OneCaller, Safe, NEW c \in Callers, Finish(c)
  PROVE  Safe'
<1> USE DEF Safe
<1>1. /\ pc[c] = "finish" /\ UNCHANGED <<shutdownRequested, finalSent>> /\ ~aborted
      /\ c # NoThread
  BY ThreadsDiffer DEF Finish, At, Up, upVars
<1>2. ~Forking /\ shells > 0 /\ ~finalSent /\ Command /\ Busy
  BY <1>1, Here, Stays DEF Life, Forking, Busy, Running, Reading, Resting, OneCaller, ForFinal
<1>3. CASE TerminateBegin(c) /\ UNCHANGED <<pc, aborted>>
  <2>1. /\ terminated' = TRUE /\ mutex' = c /\ ~Over
        /\ UNCHANGED <<shutdown, exitCode, fd, closed, proc, status, outEnd, shells, faulty, stray>>
    BY <1>3 DEF TerminateBegin, Over, childVars, histVars
  <2>2. \A d \in Callers \ {c} : pc[d] \in Resting
    BY <1>1, Alone DEF Resting
  <2>3. UNCHANGED <<Forking, Busy>> /\ ~Over' /\ pc' = pc
    BY <1>1, <1>3, <2>1 DEF Forking, Busy, Over
  <2>4. Life'
    <3>1. MutexHeld' /\ Command'
      BY <1>1, <1>2, <2>1, <2>3 DEF MutexHeld, Command
    <3>2. \A d \in Callers :
            /\ pc'[d] \in Reading => ~terminated'
            /\ pc'[d] = "fail" => AllClosed' /\ ~Over'
            /\ pc'[d] \in {"caught", "report", "punct"} => Over'
      BY <1>1, <2>2, <2>3 DEF Resting, Reading
    <3> QED BY <1>2, <2>1, <2>3, <3>1, <3>2 DEF Life
  <2>5. Closing'
    BY <1>1, <2>1, <2>3 DEF Closing, OnlyOwn
  <2>6. Undisturbed'
    BY <1>1, <1>3, <2>1, <2>2, <2>3 DEF Undisturbed, Resting
  <2> QED BY <2>4, <2>5, <2>6
<1>4. CASE ~Over /\ (TerminateReturns(c) \/ WaitFails(c))
  <2>1. /\ mutex = c /\ mutex' = NoThread /\ proc' = "reaped"
        /\ exitCode' \in {status', "killed"}
        /\ CloseFds(ToClose) /\ (\A s \in Streams : outEnd'[s] => outEnd[s])
        /\ UNCHANGED <<shutdown, terminated, closed, shells, faulty>>
        /\ ~WaitFails(c)
    BY <1>1, <1>2, <1>4, Reaped DEF Command
  <2>2. Goto(c, "report") /\ UNCHANGED aborted
    BY <2>1 DEF Finish, LastTerminate, TerminateBegin
  <2>3. /\ pc'[c] = "report" /\ (\A d \in Callers \ {c} : pc'[d] \in Resting) /\ ~Forking' /\ Busy'
        /\ terminated /\ Over'
    BY <1>1, <2>1, <2>2, Here DEF CallerLabels, Resting, Running, Life, Over
  <2>4. shutdownRequested
    BY <1>1, <1>4 DEF Undisturbed
  <2>5. Life'
    <3>1. MutexHeld' /\ Command'
      BY <2>1, <2>3 DEF MutexHeld, Command
    <3>2. \A d \in Callers :
            /\ pc'[d] \in Reading => ~terminated'
            /\ pc'[d] = "fail" => AllClosed' /\ ~Over'
            /\ pc'[d] \in {"caught", "report", "punct"} => Over'
      BY <2>3 DEF Resting, Reading
    <3> QED BY <1>2, <2>1, <2>3, <3>1, <3>2 DEF Life
  <2>6. Closing'
    BY <1>1, <2>1, <2>4 DEF Closing
  <2>7. Undisturbed'
    BY <1>1, <2>1, <2>2, <2>3, <2>4 DEF Undisturbed, Resting
  <2> QED BY <2>5, <2>6, <2>7
<1>5. CASE Over
  <2>1. TerminateAgain /\ Goto(c, "report") /\ UNCHANGED aborted
    BY <1>1, <1>5 DEF Finish, LastTerminate, TerminateBegin, TerminateReturns, Reap, Kill,
                      WaitForeign, WaitFails, Over
  <2>2. UNCHANGED <<mutex, terminated, shutdown, exitCode, closed, fd, proc, status, outEnd,
                    shells, faulty, stray>>
    BY <2>1 DEF TerminateAgain, shellVars, objVars, childVars, histVars
  <2>3. (\A d \in Callers \ {c} : pc'[d] \in Resting) /\ pc'[c] = "report" /\ ~Forking' /\ Busy'
    BY <1>1, <2>1, Here DEF CallerLabels, Resting, Running, Life
  <2>4. Over' /\ mutex = NoThread
    BY <1>5, <2>2 DEF Over
  <2>5. Life'
    <3>1. MutexHeld' /\ Command'
      BY <1>2, <2>2, <2>4 DEF MutexHeld, Command, Over
    <3>2. \A d \in Callers :
            /\ pc'[d] \in Reading => ~terminated'
            /\ pc'[d] = "fail" => AllClosed' /\ ~Over'
            /\ pc'[d] \in {"caught", "report", "punct"} => Over'
      BY <2>3, <2>4 DEF Resting, Reading
    <3> QED BY <1>2, <2>2, <2>3, <2>4, <3>1, <3>2 DEF Life
  <2>6. Closing'
    BY <1>1, <1>2, <2>2, <2>3 DEF Closing, OnlyOwn
  <2>7. Undisturbed'
    BY <1>1, <2>1, <2>2, <2>3, <2>4 DEF Undisturbed, Resting
  <2> QED BY <2>5, <2>6, <2>7
<1> QED BY <1>3, <1>4, <1>5 DEF Finish, LastTerminate, TerminateBegin, Over

(* The exception for a command that ended.                                 *)
LEMMA CaughtSafe ==
  ASSUME TypeOK, OneCaller, Safe, NEW c \in Callers, Caught(c)
  PROVE  Safe'
<1> USE DEF Safe
<1>1. /\ pc[c] = "caught" /\ UNCHANGED <<shutdownRequested, finalSent>> /\ Over
      /\ UNCHANGED <<mutex, terminated, shutdown, exitCode, closed, fd, proc, status, outEnd,
                     shells, faulty, stray>>
  BY DEF Caught, At, Life, upVars, shellVars, objVars, childVars, histVars
<1>2. CASE exitCode = "zero"
  <2>1. Goto(c, "drain") /\ UNCHANGED aborted
    BY <1>2 DEF Caught, Failed
  <2> QED BY <1>1, <1>2, <2>1, LabelMove DEF Resting, Running, Reading, CallerLabels
<1>3. CASE exitCode # "zero"
  <2>1. pc' = pc /\ faulty
    BY <1>1, <1>3 DEF Caught, Failed, Undisturbed
  <2>2. UNCHANGED <<Forking, Busy>> /\ Life' /\ Closing'
    BY <1>1, <2>1 DEF Forking, Busy, Life, MutexHeld, Command, Over, AllClosed, Closing, OnlyOwn
  <2>3. Undisturbed'
    BY <1>1, <2>1 DEF Undisturbed, Over
  <2> QED BY <2>2, <2>3
<1> QED BY <1>2, <1>3

(* What else leaves the shell alone: the labels of the callers stay.       *)
LEMMA FrameSafe ==
  ASSUME TypeOK, OneCaller, Safe, UNCHANGED <<shellVars, finalSent, aborted>>,
         \A c \in Callers : pc'[c] = pc[c],
         pc[PE] = "destroy" => pc'[PE] = "destroy",
         shutdownRequested => shutdownRequested'
  PROVE  Safe'
<1> USE DEF Safe
<1>1. UNCHANGED <<mutex, terminated, shutdown, exitCode, closed, fd, proc, status, outEnd,
                  shells, faulty, stray>>
  BY DEF shellVars, objVars, childVars, histVars
<1>2. UNCHANGED <<Forking, Busy>>
  BY DEF Forking, Busy
<1>3. Life'
  BY <1>1, <1>2 DEF Life, MutexHeld, Command, Over, AllClosed
<1>4. Closing'
  BY <1>1, <1>2 DEF Closing, OnlyOwn
<1>5. Undisturbed'
  BY <1>1 DEF Undisturbed, Over
<1> QED BY <1>3, <1>4, <1>5

(* The terminate() of the destructor matters if there was no command.      *)
LEMMA DestroySafe == TypeOK /\ OneCaller /\ Safe /\ Destroy => Safe'
<1> SUFFICES ASSUME TypeOK, OneCaller, Safe, Destroy PROVE Safe'
  OBVIOUS
<1> USE DEF Safe
<1>1. /\ pc[PE] = "destroy" /\ UNCHANGED <<shutdownRequested, finalSent>> /\ ~aborted
      /\ UNCHANGED pc \/ Goto(PE, "done")
      /\ (TerminateBegin(PE) /\ UNCHANGED <<pc, aborted>>) \/ TerminateReturns(PE) \/ WaitFails(PE)
  BY DEF Destroy, LastTerminate, At, Up, upVars
<1>2. /\ shutdownRequested /\ \A c \in Callers : pc[c] \in Resting /\ pc'[c] = pc[c]
      /\ pc'[PE] \in {"destroy", "done"}
  BY <1>1, PEGoes DEF OneCaller, TypeOK, PELabels
<1>3. ~Forking /\ ~Busy /\ ~Forking' /\ ~Busy'
  BY <1>2 DEF Forking, Busy, Resting, Running, Reading
<1>4. CASE shells > 0
  <2>1. Over
    BY <1>3, <1>4 DEF Life
  <2>2. TerminateAgain /\ UNCHANGED aborted
    BY <1>1, <2>1, ThreadsDiffer
    DEF Destroy, LastTerminate, Over, TerminateBegin, TerminateReturns, Reap, Kill, WaitForeign,
        WaitFails
  <2>3. UNCHANGED <<mutex, terminated, shutdown, exitCode, closed, fd, proc, status, outEnd,
                    shells, faulty, stray>>
    BY <2>2 DEF TerminateAgain, shellVars, objVars, childVars, histVars
  <2>4. Life'
    BY <1>2, <1>3, <2>1, <2>3 DEF Life, MutexHeld, Command, Over, Resting, Reading
  <2>5. Closing'
    BY <1>1, <1>2, <1>3, <2>3 DEF Closing
  <2>6. Undisturbed'
    BY <1>1, <1>2, <2>2, <2>3 DEF Undisturbed, Resting
  <2> QED BY <2>4, <2>5, <2>6
<1>5. CASE ~(shells > 0)
  <2>1. shells = 0 /\ proc = "none"
    BY <1>5 DEF Life, TypeOK, ShellTypeOK
  <2>2. /\ mutex' = NoThread \/ (mutex' = PE /\ pc' = pc)
        /\ mutex' # NoThread => terminated'
        /\ UNCHANGED <<closed, proc, status, outEnd, shells, faulty>>
    BY <1>1, <2>1
    DEF TerminateBegin, TerminateReturns, TerminateAgain, Reap, Kill, WaitForeign, WaitFails,
        shellVars, objVars, childVars, histVars
  <2>3. Life'
    BY <1>1, <1>2, <1>3, <2>1, <2>2 DEF Life, MutexHeld, Resting, Reading
  <2>4. Closing'
    BY <1>1, <1>2, <2>1, <2>2 DEF Closing
  <2>5. Undisturbed'
    BY <1>1, <1>2, <2>1, <2>2 DEF Undisturbed, Resting
  <2> QED BY <2>3, <2>4, <2>5
<1> QED BY <1>4, <1>5

(* While it runs, the command prints, closes a stream or dies.             *)
LEMMA CommandSafe ==
  ASSUME TypeOK, OneCaller, Safe, CommandStep \/ CommandFault
  PROVE  Safe'
<1> USE DEF Safe
<1>1. /\ UNCHANGED <<pc, shutdownRequested, finalSent, aborted>> /\ ~aborted
      /\ \/ ChildQuit \/ CommandEnds
         \/ \E s \in Streams : ChildWrite(s) \/ ChildClose(s)
  BY DEF CommandStep, CommandFault, Beside, Up, opVars, runVars, upVars
<1>2. /\ proc = "running" /\ proc' \in {"running", "zombie"}
      /\ UNCHANGED <<mutex, terminated, shutdown, exitCode, closed, fd, shells, stray>>
      /\ faulty => faulty'
      /\ \A s \in Streams : outEnd'[s] => outEnd[s]
      /\ proc' = "running" => faulty' \/ UNCHANGED outEnd
      /\ proc' = "zombie" => faulty' \/ status' = "zero"
  <2>1. CASE ChildQuit
    BY <2>1 DEF ChildQuit, Die, objVars
  <2>2. CASE CommandEnds
    BY <2>2 DEF CommandEnds, Die, objVars
  <2>3. ASSUME NEW s \in Streams, ChildWrite(s)
        PROVE  <1>2!:
    BY <2>3 DEF ChildWrite, objVars, histVars
  <2>4. ASSUME NEW s \in Streams, ChildClose(s)
        PROVE  <1>2!:
    BY <2>4 DEF ChildClose, objVars, TypeOK, ShellTypeOK
  <2> QED BY <1>1, <2>1, <2>2, <2>3, <2>4
<1>3. /\ ~Forking /\ shells > 0 /\ ~Over /\ UNCHANGED <<Forking, Busy>>
  BY <1>1, <1>2 DEF Life, Command, Forking, Busy, TypeOK, ShellTypeOK
<1>4. Life'
  BY <1>1, <1>2, <1>3 DEF Life, MutexHeld, Command, Over, AllClosed
<1>5. Closing'
  BY <1>1, <1>2, <1>3 DEF Closing, OnlyOwn
<1>6. Undisturbed'
  BY <1>1, <1>2 DEF Undisturbed, Over
<1> QED BY <1>4, <1>5, <1>6

-----------------------------------------------------------------------------
(* The theorems                                                            *)

(* Initially there is no command.                                          *)
LEMMA InitSafe == Init => Safe
<1> SUFFICES ASSUME Init PROVE Safe
  OBVIOUS
<1>1. \A c \in Callers : pc[c] \in {"idle", "loop", "done"}
  BY ThreadsDiffer DEF Init
<1>2. /\ shells = 0 /\ mutex = NoThread /\ proc = "none" /\ stray = {} /\ ~shutdown /\ ~aborted
      /\ \A s \in Streams : ~closed[s]
  BY DEF Init, ShellInit
<1>3. ~Forking /\ ~Busy
  BY <1>1 DEF Forking, Busy, Running, Reading
<1>4. Life
  BY <1>1, <1>2, <1>3 DEF Life, MutexHeld, Reading
<1>5. Closing /\ Undisturbed
  BY <1>1, <1>2 DEF Closing, Undisturbed, OnlyOwn
<1> QED BY <1>4, <1>5 DEF Safe

(* No step leaves the invariant.                                           *)
LEMMA NextSafe == TypeOK /\ OneCaller /\ Safe /\ [Next]_vars => Safe'
<1> SUFFICES ASSUME TypeOK, OneCaller, Safe, [Next]_vars PROVE Safe'
  OBVIOUS
<1>1. ASSUME NEW c \in Callers, CallerStep(c)
      PROVE  Safe'
  BY <1>1, QuietSafe, ShutdownSafe, SetupSafe, ReadSafe, ReadEndsSafe, FinishSafe, CaughtSafe
  DEF CallerStep
<1>2. CASE Upstream
  <2>1. ASSUME NEW c \in Callers, WindowMarker(c)
        PROVE  Safe'
    BY <2>1, FrameSafe DEF WindowMarker, runVars
  <2> QED BY <1>2, <2>1, EnterSafe DEF Upstream
<1>3. CASE PEStep \/ RequestShutdown
  <2>1. CASE Join \/ RequestShutdown
    <3>1. /\ \E label \in PELabels : Goto(PE, label)
          /\ UNCHANGED <<shellVars, finalSent, aborted>> /\ pc[PE] # "destroy"
          /\ shutdownRequested => shutdownRequested'
      BY <2>1 DEF Join, RequestShutdown, At, PELabels, opVars, runVars, upVars
    <3>2. \A c \in Callers : pc'[c] = pc[c]
      BY <3>1, PEGoes DEF TypeOK
    <3> QED BY <3>1, <3>2, FrameSafe
  <2> QED BY <1>3, <2>1, ShutdownSafe, DestroySafe DEF PEStep
<1>4. CASE Ended \/ UNCHANGED vars
  BY <1>4, FrameSafe DEF Ended, vars, opVars, runVars, upVars
<1> QED BY <1>1, <1>2, <1>3, <1>4, CommandSafe DEF Next

(* The invariant holds for every number of callers and of runs, every      *)
(* command and every size of pipes and chunks.                             *)
THEOREM Inductive == Spec => []IInv
<1>1. Init => IInv
  BY InitType, InitOneCaller, InitSafe DEF IInv, Safe
<1>2. IInv /\ [Next]_vars => IInv'
  BY NextType, NextOneCaller, NextSafe DEF IInv, Safe
<1> QED BY <1>1, <1>2, PTL DEF Spec

(* Every variable has its type.                                            *)
THEOREM TypeCorrect == Spec => []TypeOK
<1>1. IInv => TypeOK
  BY DEF IInv
<1> QED BY <1>1, Inductive, PTL

(* The tuple on port 2 holds the exit code of the command that has just    *)
(* ended, whose process and descriptors are gone: executeShell() never     *)
(* reports what an earlier setup() or a later one left in exitCode_.       *)
THEOREM ExitCodeIsItsOwn == Spec => []ReportsOwnCode
<1>1. IInv => ReportsOwnCode
  <2> SUFFICES ASSUME IInv, NEW c \in Callers, pc[c] \in {"report", "punct"}
               PROVE  /\ proc = "reaped" /\ exitCode \in {status, "killed"}
                      /\ ~shutdownRequested => \A f \in Fds : fd[f] = "closed"
    BY DEF ReportsOwnCode
  <2>1. Over /\ shells > 0 /\ ~Forking
    BY Alone DEF IInv, Life, Busy, Running, Resting, Forking
  <2> QED BY <2>1 DEF IInv, Life, Closing, Command
<1> QED BY <1>1, Inductive, PTL

(* A command that ends with 0 does not abort the PE, and one that fails is *)
(* not followed by its punctuation: Caught() is the only abort that is     *)
(* reached once a command was started.                                     *)
THEOREM AbortsForFailure == Spec => []AbortsOnFailure
<1>1. IInv => AbortsOnFailure
  BY DEF IInv, Undisturbed, AbortsOnFailure
<1> QED BY <1>1, Inductive, PTL

(* From the first command to the shutdown of the PE every descriptor is    *)
(* closed once and every pid waited for is that of a command of its own,   *)
(* whichever threads call shutdown() and terminate().                      *)
THEOREM OwnDescriptors == Spec => []OwnDescriptorsOnceStarted
<1>1. IInv => OwnDescriptorsOnceStarted
  BY DEF IInv, Closing, OnlyOwn, OwnDescriptorsOnceStarted
<1> QED BY <1>1, Inductive, PTL
-----------------------------------------------------------------------------
(* What is submitted                                                       *)

(* Every stream is as readLine() and the submission of its lines leave it; *)
(* all that was printed has been submitted; the output has its punctuation. *)
Flows ==
  \A s \in Streams : Flow(written[s], taken[s], got[s], buffer[s], outPipe[s], ~outEnd[s])
AllTaken == \A s \in Streams : taken[s] = Len(written[s]) /\ ~outEnd[s]
Complete == output # <<>> /\ output[Len(output)] = [port |-> "window", line |-> <<>>]

(* A command is started with the buffers empty, and is terminated when all *)
(* it has printed is submitted; a shutdown may leave something in them,    *)
(* but then no line is read any more.                                      *)
Delivering ==
  /\ proc # "running" => \A s \in Streams : ~outEnd[s]
  /\ (\A c \in Callers : pc[c] # "submit") => got = Nothing
  /\ ~shutdownRequested /\ (\A c \in Callers : pc[c] \notin Reading) => buffer = Nothing
  /\ \A c \in Callers :
       /\ pc[c] \in Reading => Flows \/ (pc[c] = "test" /\ shutdownRequested)
       /\ pc[c] \in Running \ Reading => AllTaken \/ shutdownRequested
  /\ IF Busy THEN ~Complete ELSE output = <<>> \/ Complete

Relay == Streaming /\ Delivering

(* A step of a caller in the operator: what has to hold where it gets to.  *)
LEMMA MoveDelivers ==
  ASSUME TypeOK, OneCaller, Life, NEW c \in Callers, pc[c] \notin Resting,
         NEW label \in CallerLabels, Goto(c, label),
         proc' # "running" => \A s \in Streams : ~outEnd'[s],
         label # "submit" => got' = Nothing,
         ~shutdownRequested' /\ label \notin Reading => buffer' = Nothing,
         label \in Reading => Flows' \/ (label = "test" /\ shutdownRequested'),
         label \in Running \ Reading => AllTaken' \/ shutdownRequested',
         label \in Running => ~Complete',
         label \notin Running => output' = <<>> \/ Complete'
  PROVE  Delivering'
<1>1. /\ pc'[c] = label /\ (Busy' <=> label \in Running)
      /\ \A d \in Callers \ {c} : pc'[d] \in Resting
  BY Here DEF Life
<1>2. \A d \in Callers : pc'[d] \in Running => d = c
  BY <1>1 DEF Resting, Running, Reading
<1>3. (\A d \in Callers : pc'[d] # "submit") => got' = Nothing
  BY <1>1
<1>4. ~shutdownRequested' /\ (\A d \in Callers : pc'[d] \notin Reading) => buffer' = Nothing
  BY <1>1
<1>5. \A d \in Callers :
       /\ pc'[d] \in Reading => Flows' \/ (pc'[d] = "test" /\ shutdownRequested')
       /\ pc'[d] \in Running \ Reading => AllTaken' \/ shutdownRequested'
  BY <1>1, <1>2 DEF Running
<1> QED BY <1>1, <1>3, <1>4, <1>5 DEF Delivering

(* A step of another thread or of the command.                             *)
LEMMA BesideDelivers ==
  ASSUME Delivering,
         \A c \in Callers : pc'[c] = pc[c] \/ (pc[c] = "idle" /\ pc'[c] \in {"setup", "shut"}),
         UNCHANGED <<got, output, buffer>>, shutdownRequested => shutdownRequested',
         proc' # "running" => \A s \in Streams : ~outEnd'[s],
         Flows => Flows', AllTaken => AllTaken'
  PROVE  Delivering'
<1>1. \A c \in Callers : /\ pc'[c] \in Running <=> pc[c] \in Running
                         /\ pc'[c] \in Reading <=> pc[c] \in Reading
                         /\ pc'[c] = "submit" <=> pc[c] = "submit"
                         /\ pc'[c] = "test" <=> pc[c] = "test"
  BY DEF Running, Reading
<1>2. (Busy' <=> Busy) /\ (Complete' <=> Complete)
  BY <1>1 DEF Busy, Complete
<1>3. \A c \in Callers :
       /\ pc'[c] \in Reading => Flows' \/ (pc'[c] = "test" /\ shutdownRequested')
       /\ pc'[c] \in Running \ Reading => AllTaken' \/ shutdownRequested'
  BY <1>1 DEF Delivering
<1> QED BY <1>1, <1>2, <1>3 DEF Delivering

(* Initially nothing was printed.                                          *)
LEMMA InitRelay == Init => Relay
<1> SUFFICES ASSUME Init PROVE Relay
  OBVIOUS
<1>1. \A c \in Callers : pc[c] \in {"idle", "loop", "done"}
  BY ThreadsDiffer DEF Init
<1>2. ~Busy /\ \A c \in Callers : pc[c] \notin Running /\ pc[c] \notin Reading
  BY <1>1 DEF Busy, Running, Reading
<1>3. Streaming
  BY DEF Init, ShellInit, Streaming, Nothing, Plain
<1>4. Delivering
  BY <1>2 DEF Init, ShellInit, Delivering
<1> QED BY <1>3, <1>4 DEF Relay

(* Steps that leave the streams alone.                                     *)
LEMMA QuietDelivers ==
  ASSUME TypeOK, OneCaller, Life, Relay, NEW c \in Callers,
         \/ BeginRun(c) \/ TestShutdown(c) \/ ReadMore(c) \/ Select(c) \/ Iterate(c)
         \/ FinalShutdown(c) \/ AwaitDrained(c) \/ Drain(c) \/ Report(c) \/ Caught(c)
  PROVE  Relay'
<1> USE DEF Relay
<1>1. UNCHANGED <<written, taken, got, buffer, outPipe, outEnd, closed, work, output,
                  shutdownRequested>>
  BY DEF BeginRun, StartShell, SetupBegin, TestShutdown, ReadMore, Select, Iterate, FinalShutdown,
     ShutdownShell, AwaitDrained, Drain, Report, Caught, opVars, runVars, outVars, shellVars,
     objVars, childVars, pipeVars
<1>2. Streaming'
  BY <1>1, EndStreaming
<1>3. (Flows => Flows') /\ (AllTaken => AllTaken') /\ (Complete' <=> Complete)
  BY <1>1 DEF Flows, AllTaken, Complete
<1>4. pc[c] \notin Resting /\ (Busy <=> pc[c] \in Running) /\ (Forking <=> pc[c] = "fork")
  <2>1. pc[c] \notin Resting
    BY DEF BeginRun, TestShutdown, ReadMore, Select, Iterate, FinalShutdown, AwaitDrained, Drain,
       Report, Caught, At, Resting
  <2> QED BY <2>1, Alone DEF Busy, Forking, Resting, Running, Reading
<1>5. proc' # "running" => \A s \in Streams : ~outEnd'[s]
  <2>1. CASE BeginRun(c)
    <3>1. ~Busy /\ ~Forking
      BY <1>4, <2>1 DEF BeginRun, At, Running, Reading
    <3>2. proc # "running"
      <4>1. shells > 0 \/ shells = 0
        BY DEF TypeOK, ShellTypeOK
      <4> QED BY <3>1, <4>1 DEF Life, Command
    <3> QED BY <1>1, <3>2 DEF Delivering
  <2>2. CASE ~BeginRun(c)
    <3>1. proc' = proc
      BY <2>2 DEF TestShutdown, ReadMore, Select, Iterate, FinalShutdown,
         ShutdownShell, AwaitDrained, Drain, Report, Caught, shellVars, childVars
    <3> QED BY <1>1, <3>1 DEF Delivering
  <2> QED BY <2>1, <2>2
<1> DEFINE Arrives(label) ==
      /\ label \in CallerLabels /\ Goto(c, label) /\ label # "submit"
      /\ ~shutdownRequested /\ label \notin Reading => buffer = Nothing
      /\ label \in Reading => Flows \/ (label = "test" /\ shutdownRequested)
      /\ label \in Running \ Reading => AllTaken \/ shutdownRequested
      /\ label \in Running <=> pc[c] \in Running
<1>6. pc[c] # "submit"
  BY DEF BeginRun, TestShutdown, ReadMore, Select, Iterate, FinalShutdown, AwaitDrained, Drain,
     Report, Caught, At
<1>7. got = Nothing
  BY <1>4, <1>6, Alone DEF Delivering, Resting
<1>8. \A d \in Callers \ {c} : pc[d] \notin Reading
  BY <1>4, Alone DEF Resting, Reading
<1>9. pc[c] \notin Reading /\ ~shutdownRequested => buffer = Nothing
  BY <1>8 DEF Delivering
<1>10. IF pc[c] \in Running THEN ~Complete ELSE output = <<>> \/ Complete
  BY <1>4 DEF Delivering
<1>11. ASSUME NEW label, Arrives(label)
       PROVE  Delivering'
  BY <1>1, <1>3, <1>4, <1>5, <1>7, <1>10, <1>11, MoveDelivers
<1> USE DEF CallerLabels, Running, Reading
<1>12. CASE BeginRun(c) \/ Iterate(c) \/ FinalShutdown(c) \/ AwaitDrained(c)
  <2>1. /\ pc[c] \in {"setup", "loop", "shut", "await"}
        /\ \E label \in {"fork", "setup", "done", "await", "waiting"} : Goto(c, label)
    BY <1>12 DEF BeginRun, Iterate, FinalShutdown, AwaitDrained, At
  <2>2. PICK label \in {"fork", "setup", "done", "await", "waiting"} : Goto(c, label)
    BY <2>1
  <2>3. Arrives(label)
    BY <1>9, <2>1, <2>2
  <2> HIDE DEF Arrives
  <2> QED BY <1>2, <1>11, <2>3
<1>13. CASE TestShutdown(c)
  <2> DEFINE label == IF shutdownRequested THEN "drain" ELSE "read"
  <2>1. pc[c] = "test" /\ Goto(c, label)
    BY <1>13 DEF TestShutdown, At
  <2>2. Flows \/ shutdownRequested
    BY <2>1 DEF Delivering
  <2>3. Arrives(label)
    BY <2>1, <2>2 DEF TypeOK, FlagTypeOK
  <2> HIDE DEF Arrives
  <2> QED BY <1>2, <1>11, <2>3
<1>14. CASE Select(c)
  <2>1. pc[c] = "select" /\ Goto(c, "readOut")
    BY <1>14 DEF Select, At
  <2>2. Arrives("readOut")
    BY <2>1 DEF Delivering
  <2> HIDE DEF Arrives
  <2> QED BY <1>2, <1>11, <2>2
<1>15. CASE ReadMore(c)
  <2>1. pc[c] = "read" /\ NoLine /\ Goto(c, IF AllClosed THEN "fail" ELSE "select") /\ Flows
    BY <1>15 DEF ReadMore, At, Delivering
  <2>2. CASE ~AllClosed
    <3>1. Arrives("select")
      BY <2>1, <2>2
    <3> HIDE DEF Arrives
    <3> QED BY <1>2, <1>11, <3>1
  <2>3. CASE AllClosed
    <3>1. ASSUME NEW s \in Streams
          PROVE  buffer[s] = <<>> /\ taken[s] = Len(written[s]) /\ ~outEnd[s]
      <4>1. buffer[s] = <<>>
        BY <2>1, <2>3 DEF NoLine, HasLine, AllClosed
      <4>2. outPipe[s] = <<>> /\ ~outEnd[s]
        BY <2>3 DEF AllClosed, Streaming
      <4>3. Track(written[s], taken[s], buffer[s], outPipe[s])
        BY <1>7, <2>1 DEF Flows, Flow, Nothing
      <4>4. taken[s] \in Nat /\ Len(<<>>) = 0
        BY DEF TypeOK, OutputTypeOK
      <4> QED BY <4>1, <4>2, <4>3, <4>4 DEF Track
    <3>2. buffer = Nothing /\ AllTaken
      BY <3>1 DEF AllTaken, Nothing, TypeOK, ShellTypeOK
    <3>3. Arrives("fail")
      BY <2>1, <2>3, <3>2
    <3> HIDE DEF Arrives
    <3> QED BY <1>2, <1>11, <3>3
  <2> QED BY <2>2, <2>3
<1>16. CASE Drain(c)
  <2>1. pc[c] = "drain" /\ \A d \in Callers \ {c} : pc[d] \in Resting
    BY <1>4, <1>16, Alone DEF Drain, At
  <2>2. pc[PE] \in PELabels /\ pc \in [Threads -> CallerLabels \cup PELabels]
    BY DEF TypeOK, ThreadTypeOK
  <2>3. Goto(c, "finish")
    BY <1>16, <2>1, <2>2 DEF Drain, Goto, PELabels, Resting
  <2>4. Arrives("finish")
    BY <1>9, <2>1, <2>3 DEF Delivering
  <2> HIDE DEF Arrives
  <2> QED BY <1>2, <1>11, <2>4
<1>17. CASE Report(c)
  <2>1. pc[c] = "report" /\ Goto(c, "punct")
    BY <1>17 DEF Report, At
  <2>2. Arrives("punct")
    BY <1>9, <2>1 DEF Delivering
  <2> HIDE DEF Arrives
  <2> QED BY <1>2, <1>11, <2>2
<1>18. CASE Caught(c)
  <2>1. pc[c] = "caught" /\ (UNCHANGED pc \/ Goto(c, "drain"))
    BY <1>18 DEF Caught, At
  <2>2. Goto(c, "caught") \/ Goto(c, "drain")
    BY <2>1, Stays
  <2>3. PICK label \in {"caught", "drain"} : Goto(c, label)
    BY <2>2
  <2>4. Arrives(label)
    BY <1>9, <2>1, <2>3 DEF Delivering
  <2> HIDE DEF Arrives
  <2> QED BY <1>2, <1>11, <2>4
<1> QED BY <1>2, <1>12, <1>13, <1>14, <1>15, <1>16, <1>17, <1>18

(* terminate() kills no command that has something left to submit, unless  *)
(* the PE shuts down, and does not touch what is in the pipes.             *)
LEMMA EndDelivers ==
  ASSUME TypeOK, OneCaller, Life, Relay,
         (\E c \in Callers : ReadEnds(c) \/ Finish(c)) \/ Destroy
  PROVE  Relay'
<1>1. /\ \E t : TerminateBegin(t) \/ TerminateReturns(t) \/ WaitFails(t)
      /\ UNCHANGED <<taken, got, output, shutdownRequested>>
  BY DEF ReadEnds, Finish, Destroy, LastTerminate, opVars, runVars, outVars
<1>2. /\ Streaming' /\ UNCHANGED <<written, buffer>>
      /\ proc' # "running" => \A s \in Streams : ~outEnd'[s]
      /\ \A s \in Streams : outEnd'[s] => outEnd[s]
  BY <1>1, TerminateStreams DEF Relay, Delivering
<1>3. (AllTaken => AllTaken') /\ (Complete' <=> Complete)
  BY <1>1, <1>2 DEF AllTaken, Complete
<1>4. ASSUME NEW c \in Callers, ReadEnds(c) \/ Finish(c)
      PROVE  Delivering'
  <2>1. pc[c] \in {"fail", "finish"}
    BY <1>4 DEF ReadEnds, Finish, At
  <2>2. UNCHANGED pc \/ \E label \in {"drain", "caught", "report"} : Goto(c, label)
    BY <1>4 DEF ReadEnds, ReadVerdict, Finish, LastTerminate
  <2>3. \E label \in {"fail", "finish", "drain", "caught", "report"} : Goto(c, label)
    BY <2>1, <2>2, Stays
  <2>4. PICK label \in {"fail", "finish", "drain", "caught", "report"} : Goto(c, label)
    BY <2>3
  <2>5. \A d \in Callers \ {c} : pc[d] \in Resting
    BY <2>1, Alone DEF Resting
  <2>6. /\ got = Nothing /\ (~shutdownRequested => buffer = Nothing)
        /\ AllTaken \/ shutdownRequested
    BY <2>1, <2>5, Relay DEF Relay, Delivering, Resting, Reading, Running
  <2>7. ~Complete
    BY <2>1 DEF Relay, Delivering, Busy, Running
  <2> QED BY <1>1, <1>2, <1>3, <2>1, <2>4, <2>6, <2>7, MoveDelivers
          DEF Resting, CallerLabels, Reading, Running
<1>5. CASE Destroy
  <2>1. UNCHANGED pc \/ Goto(PE, "done")
    BY <1>5 DEF Destroy, LastTerminate
  <2>2. \A c \in Callers : pc'[c] = pc[c]
    BY <2>1, PEGoes DEF TypeOK, PELabels
  <2>3. \A c \in Callers : pc[c] \notin Reading
    BY <1>5 DEF Destroy, At, OneCaller, Resting, Reading
  <2>4. ~Busy
    BY <1>5 DEF Destroy, At, OneCaller, Resting, Busy, Running, Reading
  <2>5. ~Busy' /\ \A c \in Callers : pc'[c] \notin Running /\ pc'[c] \notin Reading
    BY <2>2, <2>4 DEF Busy, Running
  <2> QED BY <1>1, <1>2, <1>3, <2>2, <2>3, <2>4, <2>5 DEF Relay, Delivering
<1> QED BY <1>2, <1>4, <1>5 DEF Relay

(* A fresh command has empty pipes; a plain one prints no NUL.             *)
LEMMA RunDelivers ==
  ASSUME PlainProgram, TypeOK, OneCaller, Life, Relay, NEW c \in Callers, Run(c)
  PROVE  Relay'
<1>1. PICK p \in Program : SetupFork([s \in Streams |-> p[s]])
  BY DEF Run
<1> DEFINE first == [s \in Streams |-> p[s]]
<1>2. first \in [Streams -> Seq(Token)] /\ \A s \in Streams : Plain(first[s])
  <2>1. /\ p["out"] \in Seq(Token) /\ p["err"] \in Seq(Token)
        /\ Plain(p["out"]) /\ Plain(p["err"])
    BY ProgramAssumption DEF PlainProgram
  <2> QED BY <2>1 DEF Streams
<1> HIDE DEF first
<1>3. Streaming'
  BY <1>1, <1>2, SetupStreaming DEF first
<1>4. /\ written' = Nothing /\ outPipe' = Nothing /\ buffer' = buffer /\ proc' = "running"
      /\ taken' = [s \in Streams |-> 0] /\ output' = <<>>
      /\ UNCHANGED <<got, shutdownRequested>>
  BY <1>1 DEF Run, SetupFork, runVars
<1>5. pc[c] = "fork" /\ Goto(c, "test")
  BY DEF Run, At
<1>6. \A d \in Callers : pc[d] \notin Reading
  BY <1>5, Alone DEF Resting, Reading
<1>7. got = Nothing /\ (~shutdownRequested => buffer = Nothing)
  BY <1>6 DEF Relay, Delivering, Reading
<1>8. Flows' \/ shutdownRequested'
  <2>1. ASSUME ~shutdownRequested, NEW s \in Streams
        PROVE  Flow(written'[s], taken'[s], got'[s], buffer'[s], outPipe'[s], ~outEnd'[s])
    <3>1. /\ written'[s] = <<>> /\ taken'[s] = 0 /\ got'[s] = <<>> /\ buffer'[s] = <<>>
          /\ outPipe'[s] = <<>>
      BY <1>4, <1>7, <2>1 DEF Nothing
    <3>2. Track(<<>>, 0, <<>>, <<>>)
      BY DEF Track
    <3> QED BY <3>1, <3>2 DEF Flow
  <2> QED BY <1>4, <2>1 DEF Flows
<1>9. ~Complete'
  BY <1>4 DEF Complete
<1>10. Delivering'
  BY <1>4, <1>5, <1>7, <1>8, <1>9, MoveDelivers DEF Resting, CallerLabels, Reading, Running
<1> QED BY <1>3, <1>10 DEF Relay

(* readLine() takes the next line of each stream that has one,             *)
LEMMA ReadBufferedDelivers ==
  ASSUME TypeOK, OneCaller, Life, Relay, NEW c \in Callers, ReadBuffered(c)
  PROVE  Relay'
<1>1. /\ pc[c] = "read" /\ Goto(c, "submit") /\ TakeLines
      /\ UNCHANGED <<taken, output, shutdownRequested>>
      /\ got' = [s \in Streams |-> IF HasLine(s) THEN <<NextLine(s)>> ELSE <<>>]
  BY DEF ReadBuffered, At, runVars
<1>2. UNCHANGED <<written, outPipe, outEnd, closed, work, proc>>
  BY <1>1 DEF TakeLines, childVars, pipeVars
<1>3. Streaming'
  BY <1>2, EndStreaming DEF Relay
<1>4. got = Nothing /\ Flows /\ ~Complete
  BY <1>1, Alone DEF Relay, Delivering, Resting, Reading, Busy, Running
<1>5. Flows'
  <2>1. ASSUME NEW s \in Streams
        PROVE  Flow(written'[s], taken'[s], got'[s], buffer'[s], outPipe'[s], ~outEnd'[s])
    <3>1. taken[s] \in Nat /\ taken'[s] = taken[s]
      BY <1>1 DEF TypeOK, OutputTypeOK
    <3>2. got'[s] = IF HasLine(s) THEN <<NextLine(s)>> ELSE <<>>
      BY <1>1
    <3>3. Track(written[s], taken[s], buffer[s], outPipe[s])
      BY <1>4 DEF Flows, Flow, Nothing
    <3> QED BY <1>1, <3>1, <3>2, <3>3, FlowTaken DEF Relay, TypeOK
  <2> QED BY <2>1 DEF Flows
<1>6. ~Complete' /\ (proc' # "running" => \A s \in Streams : ~outEnd'[s])
  BY <1>1, <1>2, <1>4 DEF Complete, Relay, Delivering
<1>7. Delivering'
  BY <1>1, <1>5, <1>6, MoveDelivers DEF Resting, CallerLabels, Reading, Running
<1> QED BY <1>3, <1>7 DEF Relay

(* or reads more from the pipes.                                           *)
LEMMA ReadDelivers ==
  ASSUME TypeOK, OneCaller, Life, Closing, Relay, NEW c \in Callers, ReadOut(c) \/ ReadErr(c)
  PROVE  Relay'
<1>1. /\ pc[c] \in {"readOut", "readErr"}
      /\ UNCHANGED <<taken, got, output, shutdownRequested>>
      /\ \E r \in Streams :
           \/ ReadFromPipe(r) /\ \E label \in {"readErr", "read"} : Goto(c, label)
           \/ ReadFails(r)
  BY DEF ReadOut, ReadErr, ReadStream, At, Streams, opVars, runVars, outVars
<1>2. \A r \in Streams : fd[r] = "open"
  <2>1. ~Forking /\ Busy
    BY <1>1, Alone DEF Forking, Busy, Running, Reading, Resting
  <2>2. shells > 0 /\ ~terminated
    BY <1>1, <2>1 DEF Life, Reading
  <2>3. proc # "reaped"
    BY <2>1, <2>2 DEF Life, Command, Over
  <2> QED BY <2>1, <2>2, <2>3 DEF Closing
<1>3. PICK r \in Streams, label \in {"readErr", "read"} : ReadFromPipe(r) /\ Goto(c, label)
  BY <1>1, <1>2 DEF ReadFails
<1>4. Streaming'
  BY <1>3, ReadStreaming DEF Relay, TypeOK
<1>5. UNCHANGED <<written, outEnd, proc>>
  BY <1>3 DEF ReadFromPipe, childVars
<1>6. Flows /\ ~Complete /\ got = Nothing
  BY <1>1, Alone DEF Relay, Delivering, Resting, Reading, Busy, Running
<1>7. Flows'
  <2>1. ASSUME NEW s \in Streams
        PROVE  Flow(written'[s], taken'[s], got'[s], buffer'[s], outPipe'[s], ~outEnd'[s])
    <3>1. taken[s] \in Nat /\ taken'[s] = taken[s] /\ got'[s] = got[s] /\ got[s] = <<>>
      BY <1>1, <1>6 DEF TypeOK, OutputTypeOK, Nothing
    <3>2. Flow(written[s], taken[s], got[s], buffer[s], outPipe[s], ~outEnd[s])
      BY <1>6 DEF Flows
    <3> QED BY <1>3, <3>1, <3>2, FlowRead DEF Relay, TypeOK
  <2> QED BY <2>1 DEF Flows
<1>8. ~Complete' /\ (proc' # "running" => \A s \in Streams : ~outEnd'[s])
  BY <1>1, <1>5, <1>6 DEF Complete, Relay, Delivering
<1>9. Delivering'
  BY <1>1, <1>3, <1>6, <1>7, <1>8, MoveDelivers DEF Resting, CallerLabels, Reading, Running
<1> QED BY <1>4, <1>9 DEF Relay

(* What submit does for its stream: the line is the next one to deliver.   *)
LEMMA Submitted ==
  ASSUME TypeOK, Relay, NEW c \in Callers, Submit(c)
  PROVE  /\ Port \in Streams /\ got[Port] # <<>>
         /\ taken'[Port] = After(written[Port], taken[Port], got[Port][1])
         /\ got'[Port] = <<>>
         /\ \A s \in Streams \ {Port} : taken'[s] = taken[s] /\ got'[s] = got[s]
         /\ IsLine(written[Port], taken[Port], got[Port][1], ~outEnd[Port])
         /\ Flows /\ Flows'
<1>1. /\ Port \in Streams /\ got[Port] # <<>> /\ pc[c] = "submit"
      /\ taken \in [Streams -> Nat] /\ got \in [Streams -> Seq(Seq(Token))]
  BY DEF Submit, At, TypeOK, OutputTypeOK, Port, Streams
<1>2. /\ taken'[Port] = After(written[Port], taken[Port], got[Port][1])
      /\ got'[Port] = <<>>
      /\ \A s \in Streams \ {Port} : taken'[s] = taken[s] /\ got'[s] = got[s]
  BY <1>1 DEF Submit, After
<1>3. Flows
  BY <1>1 DEF Relay, Delivering, Reading
<1>4. /\ IsLine(written[Port], taken[Port], got[Port][1], ~outEnd[Port])
      /\ Track(written[Port], After(written[Port], taken[Port], got[Port][1]),
               buffer[Port], outPipe[Port])
  BY <1>1, <1>3 DEF Flows, Flow
<1>5. UNCHANGED <<written, buffer, outPipe, outEnd>>
  BY DEF Submit, shellVars, objVars, childVars, pipeVars
<1>6. ASSUME NEW s \in Streams
      PROVE  Flow(written'[s], taken'[s], got'[s], buffer'[s], outPipe'[s], ~outEnd'[s])
  <2>1. CASE s = Port
    BY <1>2, <1>4, <1>5, <2>1 DEF Flow
  <2>2. CASE s # Port
    BY <1>2, <1>3, <1>5, <2>2 DEF Flows
  <2> QED BY <2>1, <2>2
<1>7. Flows'
  BY <1>6 DEF Flows
<1> QED BY <1>1, <1>2, <1>3, <1>4, <1>7

(* A submitted line is one that has been read, and counts as taken.        *)
LEMMA SubmitDelivers ==
  ASSUME TypeOK, OneCaller, Life, Relay, NEW c \in Callers, Submit(c)
  PROVE  Relay'
<1>1. /\ pc[c] = "submit" /\ Goto(c, IF BothLines THEN "submit" ELSE "test")
      /\ UNCHANGED <<shellVars, shutdownRequested>>
  BY DEF Submit, At, runVars
<1>2. UNCHANGED <<proc, closed, outPipe, outEnd, work>>
  BY <1>1 DEF shellVars, objVars, childVars, pipeVars
<1>3. Streaming'
  BY <1>2, EndStreaming DEF Relay
<1>4. ~Complete
  BY <1>1 DEF Relay, Delivering, Busy, Running, Reading
<1>5. ~Complete'
  <2>1. output' = output \/ \E line : output' = Append(output, [port |-> Port, line |-> line])
    BY DEF Submit
  <2>2. ASSUME NEW line, output' = Append(output, [port |-> Port, line |-> line])
        PROVE  ~Complete'
    <3>1. output \in Seq([port : {"out", "err", "window"}, line : Seq(Token)])
      BY DEF TypeOK, OutputTypeOK
    <3>2. output'[Len(output')] = [port |-> Port, line |-> line]
      BY <2>2, <3>1
    <3>3. Port # "window"
      BY DEF Port
    <3>4. [port |-> Port, line |-> line].port # [port |-> "window", line |-> <<>>].port
      BY <3>3
    <3> QED BY <3>2, <3>4 DEF Complete
  <2> QED BY <1>4, <2>1, <2>2 DEF Complete
<1>6. ~BothLines => got' = Nothing
  <2>1. \A s \in Streams : ~BothLines => got'[s] = <<>>
    BY Submitted DEF BothLines, Port, Streams
  <2>2. got' \in [Streams -> Seq(Seq(Token))]
    <3>1. got \in [Streams -> Seq(Seq(Token))] /\ <<>> \in Seq(Seq(Token))
      BY NothingType DEF TypeOK, OutputTypeOK
    <3> QED BY <3>1 DEF Submit
  <2> QED BY <2>1, <2>2 DEF Nothing
<1>7. Flows' /\ (proc' # "running" => \A s \in Streams : ~outEnd'[s])
  BY <1>2, Submitted DEF Relay, Delivering
<1>8. Delivering'
  <2>1. CASE BothLines
    BY <1>1, <1>5, <1>7, <2>1, MoveDelivers DEF Resting, CallerLabels, Reading, Running
  <2>2. CASE ~BothLines
    BY <1>1, <1>5, <1>6, <1>7, <2>2, MoveDelivers DEF Resting, CallerLabels, Reading, Running
  <2> QED BY <2>1, <2>2
<1> QED BY <1>3, <1>8 DEF Relay

(* The window marker follows the last line of a command.                   *)
LEMMA PunctuateDelivers ==
  ASSUME TypeOK, OneCaller, Life, Relay, NEW c \in Callers, Punctuate(c)
  PROVE  Relay'
<1>1. /\ pc[c] = "punct" /\ Goto(c, IF hasInput THEN "idle" ELSE "loop")
      /\ UNCHANGED <<shellVars, shutdownRequested, got>>
      /\ output' = Append(output, [port |-> "window", line |-> <<>>])
  BY DEF Punctuate, At, runVars
<1>2. UNCHANGED <<proc, closed, outPipe, outEnd, work, buffer>>
  BY <1>1 DEF shellVars, objVars, childVars, pipeVars
<1>3. Streaming'
  BY <1>2, EndStreaming DEF Relay
<1>4. Complete'
  <2>1. output \in Seq([port : {"out", "err", "window"}, line : Seq(Token)])
    BY DEF TypeOK, OutputTypeOK
  <2>2. [port |-> "window", line |-> <<>>] \in [port : {"out", "err", "window"}, line : Seq(Token)]
    BY NothingType
  <2>3. /\ Len(output') = Len(output) + 1 /\ output'[Len(output')] = [port |-> "window", line |-> <<>>]
        /\ Len(output) \in Nat
    BY <1>1, <2>1, <2>2, AppendProperties
  <2>4. output' # <<>>
    <3>1. Len(output') # 0
      BY <2>3
    <3> QED BY <3>1, EmptySeq
  <2> QED BY <2>3, <2>4 DEF Complete
<1>5. got = Nothing /\ (~shutdownRequested => buffer = Nothing)
  BY <1>1, Alone DEF Relay, Delivering, Resting, Reading
<1>6. proc' # "running" => \A s \in Streams : ~outEnd'[s]
  BY <1>2 DEF Relay, Delivering
<1>7. PICK label \in {"idle", "loop"} : Goto(c, label)
  BY <1>1
<1>8. Delivering'
  BY <1>1, <1>2, <1>4, <1>5, <1>6, <1>7, MoveDelivers DEF Resting, CallerLabels, Reading, Running
<1> QED BY <1>3, <1>8 DEF Relay

(* The command adds to its streams what it prints, and ends them.          *)
LEMMA CommandDelivers ==
  ASSUME TypeOK, Relay, CommandStep \/ CommandFault
  PROVE  Relay'
<1>1. /\ UNCHANGED <<pc, got, taken, output, shutdownRequested, buffer, closed>>
      /\ \/ ChildQuit \/ CommandEnds
         \/ \E s \in Streams : ChildWrite(s) \/ ChildClose(s)
  BY DEF CommandStep, CommandFault, Beside, ChildQuit, CommandEnds, Die, ChildWrite, ChildClose,
     opVars, runVars, outVars, objVars
<1>2. ASSUME NEW r \in Streams, ChildWrite(r)
      PROVE  Relay'
  <2>1. UNCHANGED <<outEnd, proc>> /\ outEnd[r]
    BY <1>2 DEF ChildWrite, Relay, Streaming
  <2>2. Streaming'
    BY <1>2, PrintStreaming DEF Relay, TypeOK
  <2>3. Flows => Flows'
    <3>1. ASSUME Flows, NEW s \in Streams
          PROVE  Flow(written'[s], taken'[s], got'[s], buffer'[s], outPipe'[s], ~outEnd'[s])
      <4>1. taken[s] \in Nat /\ (got[s] # <<>> => got[s][1] \in Seq(Token))
        <5>1. taken[s] \in Nat /\ got[s] \in Seq(Seq(Token))
          BY DEF TypeOK, OutputTypeOK
        <5>2. got[s] # <<>> => 1 \in 1..Len(got[s])
          BY <5>1, EmptySeq
        <5> QED BY <5>1, <5>2, ElementOfSeq
      <4>2. Flow(written[s], taken[s], got[s], buffer[s], outPipe[s], ~outEnd[s])
        BY <3>1 DEF Flows
      <4>3. taken'[s] = taken[s] /\ got'[s] = got[s]
        BY <1>1
      <4> QED BY <1>2, <4>1, <4>2, <4>3, FlowPrinted DEF Relay, TypeOK
    <3> QED BY <3>1 DEF Flows
  <2>4. AllTaken => AllTaken'
    BY <2>1 DEF AllTaken
  <2>5. Delivering'
    BY <1>1, <2>1, <2>3, <2>4, BesideDelivers DEF Relay, Delivering
  <2> QED BY <2>2, <2>5 DEF Relay
<1>3. CASE ~ \E s \in Streams : ChildWrite(s)
  <2>1. /\ UNCHANGED <<written, outPipe>>
        /\ \A s \in Streams : \/ outEnd'[s] = FALSE /\ work'[s] = <<>>
                              \/ outEnd'[s] = outEnd[s] /\ work'[s] = work[s]
    BY <1>1, <1>3 DEF ChildQuit, CommandEnds, Die, ChildClose, Nothing, pipeVars, TypeOK, ShellTypeOK
  <2>2. Streaming'
    BY <1>1, <2>1, EndStreaming DEF Relay
  <2>3. proc' # "running" => \A s \in Streams : ~outEnd'[s]
    BY <1>1, <1>3 DEF ChildQuit, CommandEnds, Die, ChildClose, Relay, Delivering
  <2>4. Flows => Flows'
    <3>1. ASSUME Flows, NEW s \in Streams
          PROVE  Flow(written'[s], taken'[s], got'[s], buffer'[s], outPipe'[s], ~outEnd'[s])
      <4>1. /\ taken[s] \in Nat /\ taken'[s] = taken[s] /\ got'[s] = got[s]
            /\ outEnd'[s] => outEnd[s]
        BY <1>1, <2>1 DEF TypeOK, OutputTypeOK
      <4>2. Flow(written[s], taken[s], got[s], buffer[s], outPipe[s], ~outEnd[s])
        BY <3>1 DEF Flows
      <4> QED BY <1>1, <2>1, <4>1, <4>2, FlowEnds
    <3> QED BY <3>1 DEF Flows
  <2>5. AllTaken => AllTaken'
    BY <1>1, <2>1 DEF AllTaken
  <2>6. Delivering'
    BY <1>1, <2>3, <2>4, <2>5, BesideDelivers DEF Relay
  <2> QED BY <2>2, <2>6 DEF Relay
<1> QED BY <1>2, <1>3

(* No other step touches the streams.                                      *)
LEMMA OutsideDelivers ==
  ASSUME TypeOK, Relay,
         Upstream \/ RequestShutdown \/ PrepareToShutdown \/ Join \/ UNCHANGED vars
  PROVE  Relay'
<1>1. /\ UNCHANGED <<got, taken, output, buffer, closed, work, proc, written, outPipe, outEnd>>
      /\ shutdownRequested => shutdownRequested'
  BY DEF Upstream, ReceiveCommand, WindowMarker, FinalMarker, RequestShutdown, PrepareToShutdown,
     Join, ShutdownShell, vars, opVars, runVars, outVars, shellVars, objVars, childVars, pipeVars
<1>2. \A c \in Callers : pc'[c] = pc[c] \/ (pc[c] = "idle" /\ pc'[c] \in {"setup", "shut"})
  <2>1. ASSUME NEW d \in Callers, ReceiveCommand(d) \/ FinalMarker(d)
        PROVE  <1>2!:
    <3>1. pc[d] = "idle" /\ \E label \in {"setup", "shut"} : Goto(d, label)
      BY <2>1 DEF ReceiveCommand, FinalMarker, Callable, At
    <3> QED BY <3>1, CallerGoes DEF TypeOK, CallerLabels
  <2>2. CASE RequestShutdown \/ PrepareToShutdown \/ Join
    <3>1. \E label \in PELabels : Goto(PE, label)
      BY <2>2 DEF RequestShutdown, PrepareToShutdown, Join, PELabels
    <3> QED BY <3>1, PEGoes DEF TypeOK
  <2>3. CASE UNCHANGED vars \/ \E d \in Callers : WindowMarker(d)
    BY <2>3 DEF vars, WindowMarker
  <2> QED BY <2>1, <2>2, <2>3 DEF Upstream
<1>3. Streaming'
  BY <1>1, EndStreaming DEF Relay
<1>4. (Flows => Flows') /\ (AllTaken => AllTaken')
  BY <1>1 DEF Flows, AllTaken
<1>5. Delivering'
  BY <1>1, <1>2, <1>4, BesideDelivers DEF Relay, Delivering
<1> QED BY <1>3, <1>5 DEF Relay

(* Every step of a command of whole lines keeps the output in order.       *)
LEMMA NextRelay == PlainProgram /\ IInv /\ Relay /\ [Next]_vars => Relay'
<1> SUFFICES ASSUME PlainProgram, IInv, Relay, [Next]_vars PROVE Relay'
  OBVIOUS
<1>1. TypeOK /\ OneCaller /\ Life /\ Closing
  BY DEF IInv
<1>2. ASSUME NEW c \in Callers, CallerStep(c)
      PROVE  Relay'
  BY <1>1, <1>2, QuietDelivers, EndDelivers, RunDelivers, ReadBufferedDelivers, ReadDelivers,
     SubmitDelivers, PunctuateDelivers DEF CallerStep
<1>3. CASE PEStep
  BY <1>1, <1>3, OutsideDelivers, EndDelivers DEF PEStep
<1>4. CASE ~PEStep /\ ~ \E c \in Callers : CallerStep(c)
  BY <1>1, <1>4, OutsideDelivers, CommandDelivers DEF Next, Ended
<1> QED BY <1>2, <1>3, <1>4
-----------------------------------------------------------------------------
(* The refinement of LinePipe                                              *)

(* The output is complete, there and here.                                 *)
LEMMA FinishedIsComplete == Promise!Finished <=> Complete
BY DEF Promise!Finished, Promise!Marker, Complete

(* A command may end or be killed, which closes streams; the other steps   *)
(* are not seen.                                                           *)
LEMMA QuietRefines ==
  ASSUME UNCHANGED <<written, taken, output, shutdownRequested>>,
         \A s \in Streams : outEnd'[s] => outEnd[s]
  PROVE  Promise!Next
<1> DEFINE S == {s \in Streams : ~outEnd'[s]}
<1>1. Promise!Close(S)
  BY DEF Promise!Close
<1>2. S \in SUBSET Streams
  OBVIOUS
<1> HIDE DEF S
<1>3. \E R \in SUBSET Streams : Promise!Close(R)
  BY <1>1, <1>2 DEF Promise!Close
<1> QED BY <1>3 DEF Promise!Next

(* A new command begins where the last one has been delivered.             *)
LEMMA RunRefines ==
  ASSUME IInv, Relay, NEW c \in Callers, Run(c)
  PROVE  Promise!Next
<1>1. /\ written' = [s \in Streams |-> <<>>] /\ outEnd' = [s \in Streams |-> TRUE]
      /\ taken' = [s \in Streams |-> 0] /\ output' = <<>> /\ UNCHANGED shutdownRequested
  BY DEF Run, SetupFork, Nothing, runVars
<1>2. pc[c] = "fork"
  BY DEF Run, At
<1>3. ~Busy /\ Forking
  BY <1>2, Alone DEF IInv, Busy, Running, Reading, Resting, Forking
<1>4. \A s \in Streams : ~outEnd[s]
  BY <1>3 DEF IInv, Life, Relay, Delivering
<1>5. output = <<>> \/ Promise!Finished
  BY <1>3, FinishedIsComplete DEF Relay, Delivering
<1>6. Promise!Start
  BY <1>1, <1>4, <1>5 DEF Promise!Start
<1> QED BY <1>6 DEF Promise!Next

(* What the command prints is printed in the promise.                      *)
LEMMA WriteRefines ==
  ASSUME IInv, Relay, NEW s \in Streams, ChildWrite(s), UNCHANGED opVars
  PROVE  Promise!Next
<1>1. /\ outEnd[s] /\ Head(work[s]) \in Token
      /\ written' = [written EXCEPT ![s] = Append(@, Head(work[s]))]
      /\ UNCHANGED <<outEnd, taken, output, shutdownRequested>>
  BY HeadTailProperties
  DEF ChildWrite, IInv, TypeOK, ShellTypeOK, Relay, Streaming, opVars, runVars, outVars
<1>2. Promise!Emit(s)
  BY <1>1 DEF Promise!Emit
<1> QED BY <1>2 DEF Promise!Next

(* A submitted line is the next one of its stream.                         *)
LEMMA SubmitRefines ==
  ASSUME IInv, Relay, NEW c \in Callers, Submit(c)
  PROVE  Promise!Next
<1> DEFINE s == Port
           w == written[s]
           k == taken[s]
           line == got[s][1]
           n == After(w, k, line)
<1>1. /\ s \in Streams /\ taken'[s] = n /\ IsLine(w, k, line, ~outEnd[s])
      /\ got[s] # <<>> /\ \A r \in Streams \ {s} : taken'[r] = taken[r]
  BY Submitted DEF IInv
<1>2. w \in Seq(Token) /\ k \in Nat /\ line \in Seq(Token)
  <2>1. w \in Seq(Token) /\ k \in Nat /\ got[s] \in Seq(Seq(Token))
    BY <1>1 DEF IInv, TypeOK, ShellTypeOK, OutputTypeOK
  <2>2. 1 \in 1..Len(got[s])
    BY <1>1, <2>1, EmptySeq
  <2> QED BY <2>1, <2>2, ElementOfSeq
<1>3. Delivers(w, k, n, line, ~outEnd[s])
  BY <1>1, <1>2, LineDelivered
<1>4. ~Promise!Finished
  BY FinishedIsComplete DEF Submit, At, Relay, Delivering, Busy, Running, Reading
<1>5. taken' = [taken EXCEPT ![s] = n]
  BY <1>1 DEF Submit, After
<1>6. /\ UNCHANGED <<written, outEnd, shutdownRequested>>
      /\ output' = IF s = "out" \/ HasErrPort THEN Append(output, [port |-> s, line |-> line])
                                             ELSE output
  BY DEF Submit, runVars, shellVars, childVars
<1>7. s \in (IF HasErrPort THEN Streams ELSE {"out"}) <=> s = "out" \/ HasErrPort
  BY <1>1 DEF Streams
<1> HIDE DEF s, line, n
<1>8. Promise!Deliver(s)
  BY <1>1, <1>3, <1>4, <1>5, <1>6, <1>7 DEF Promise!Deliver, Delivers
<1> QED BY <1>1, <1>8 DEF Promise!Next

(* The window marker finishes the command.                                 *)
LEMMA PunctuateRefines ==
  ASSUME IInv, Relay, NEW c \in Callers, Punctuate(c)
  PROVE  Promise!Next
<1> DEFINE marker == [port |-> "window", line |-> <<>>]
<1>1. /\ pc[c] = "punct" /\ output' = Append(output, marker)
      /\ UNCHANGED <<written, outEnd, taken, shutdownRequested>>
  BY DEF Punctuate, At, runVars, shellVars, childVars
<1>2. shutdownRequested \/ \A s \in Streams : ~outEnd[s] /\ taken[s] = Len(written[s])
  BY <1>1 DEF Relay, Delivering, Reading, Running, AllTaken
<1>3. ~Promise!Finished
  BY <1>1, FinishedIsComplete DEF Relay, Delivering, Busy, Running
<1>4. output' = output \o [i \in DOMAIN <<"window">> |-> Promise!Marker(<<"window">>[i])]
  <2>1. [i \in DOMAIN <<"window">> |-> Promise!Marker(<<"window">>[i])] = <<marker>>
    BY DEF Promise!Marker
  <2>2. output \in Seq([port : {"out", "err", "window"}, line : Seq(Token)])
    BY DEF IInv, TypeOK, OutputTypeOK
  <2>3. marker \in [port : {"out", "err", "window"}, line : Seq(Token)]
    BY NothingType
  <2> HIDE DEF marker
  <2>4. Append(output, marker) = output \o <<marker>>
    BY <2>2, <2>3, AppendIsConcat
  <2> QED BY <1>1, <2>1, <2>4
<1>5. Promise!Finish
  BY <1>1, <1>2, <1>3, <1>4 DEF Promise!Finish
<1> QED BY <1>5 DEF Promise!Next

(* Every step of the operator, the runtime or the command is one of the    *)
(* promise or is not seen in it.                                           *)
LEMMA NextRefines ==
  ASSUME IInv, Relay, [Next]_vars
  PROVE  [Promise!Next]_(Promise!vars)
<1>1. ASSUME NEW c \in Callers, ReadEnds(c) \/ Finish(c)
      PROVE  Promise!Next
  <2>1. /\ \E t : TerminateBegin(t) \/ TerminateReturns(t) \/ WaitFails(t)
        /\ UNCHANGED <<taken, output, shutdownRequested>>
    BY <1>1 DEF ReadEnds, Finish, LastTerminate, opVars, runVars, outVars
  <2>2. UNCHANGED written /\ \A s \in Streams : outEnd'[s] => outEnd[s]
    BY <2>1, TerminateStreams DEF IInv, Relay, Delivering
  <2> QED BY <2>1, <2>2, QuietRefines
<1>2. CASE Destroy
  <2>1. /\ \E t : TerminateBegin(t) \/ TerminateReturns(t) \/ WaitFails(t)
        /\ UNCHANGED <<taken, output, shutdownRequested>>
    BY <1>2 DEF Destroy, LastTerminate, outVars
  <2>2. UNCHANGED written /\ \A s \in Streams : outEnd'[s] => outEnd[s]
    BY <2>1, TerminateStreams DEF IInv, Relay, Delivering
  <2> QED BY <2>1, <2>2, QuietRefines
<1>3. ASSUME NEW c \in Callers,
             \/ FinalShutdown(c) \/ AwaitDrained(c) \/ Iterate(c) \/ BeginRun(c)
             \/ TestShutdown(c) \/ ReadBuffered(c) \/ ReadMore(c) \/ Select(c)
             \/ ReadOut(c) \/ ReadErr(c) \/ Caught(c) \/ Drain(c) \/ Report(c)
      PROVE  Promise!Next
  <2>1. UNCHANGED <<written, taken, output, shutdownRequested, outEnd>>
    BY <1>3 DEF FinalShutdown, ShutdownShell, AwaitDrained, Iterate, BeginRun, StartShell,
       SetupBegin, TestShutdown, ReadBuffered, TakeLines, ReadMore, Select, ReadOut, ReadErr,
       ReadStream, ReadFromPipe, Caught, Drain, Report, opVars, runVars, outVars, shellVars,
       childVars
  <2> QED BY <2>1, QuietRefines
<1>4. CASE RequestShutdown
  <2>1. /\ shutdownRequested' = TRUE /\ UNCHANGED <<written, outEnd, taken, output>>
    BY <1>4 DEF RequestShutdown, outVars, shellVars, childVars
  <2>2. Promise!Shutdown
    BY <2>1 DEF Promise!Shutdown
  <2> QED BY <2>2 DEF Promise!Next
<1>5. CASE Upstream \/ PrepareToShutdown \/ Join \/ UNCHANGED vars
  <2>1. UNCHANGED <<written, taken, output, shutdownRequested, outEnd>>
    BY <1>5 DEF Upstream, ReceiveCommand, WindowMarker, FinalMarker, PrepareToShutdown, Join,
       ShutdownShell, vars, opVars, runVars, outVars, shellVars, childVars
  <2> QED BY <2>1, QuietRefines
<1>6. CASE CommandStep \/ CommandFault
  <2>1. UNCHANGED opVars
    BY <1>6 DEF CommandStep, CommandFault, Beside
  <2>2. CASE \E s \in Streams : ChildWrite(s)
    BY <2>1, <2>2, WriteRefines
  <2>3. CASE ~ \E s \in Streams : ChildWrite(s)
    <3>1. UNCHANGED written /\ \A s \in Streams : outEnd'[s] => outEnd[s]
      BY <1>6, <2>3 DEF CommandStep, CommandFault, CommandEnds, ChildQuit, Die, ChildClose, IInv,
         TypeOK, ShellTypeOK
    <3> QED BY <2>1, <3>1, QuietRefines DEF opVars, runVars, outVars
  <2> QED BY <2>2, <2>3
<1> QED BY <1>1, <1>2, <1>3, <1>4, <1>5, <1>6, RunRefines, SubmitRefines, PunctuateRefines
        DEF Next, CallerStep, PEStep, Ended

(* What a command prints without a NUL is submitted line by line, whole,   *)
(* once and in order, and all of it before the punctuation, whatever the   *)
(* sizes of the chunks that readLine() gets and wherever the command ends; *)
(* nothing that one command has left in the buffers gets into the lines of *)
(* the next.  Only a shutdown cuts the output short.                       *)
THEOREM LinesDelivered ==
  ASSUME PlainProgram
  PROVE  Spec => KeepsPromise
<1>1. Init => IInv /\ Relay
  BY InitType, InitOneCaller, InitSafe, InitRelay DEF IInv, Safe
<1>2. IInv /\ Relay /\ [Next]_vars => (IInv /\ Relay)'
  BY NextType, NextOneCaller, NextSafe, NextRelay DEF IInv, Safe
<1>3. Init => Promise!Init
  BY DEF Init, ShellInit, Promise!Init, Nothing
<1>4. IInv /\ Relay /\ [Next]_vars => [Promise!Next]_(Promise!vars)
  BY NextRefines
<1> QED BY <1>1, <1>2, <1>3, <1>4, PTL DEF Spec, KeepsPromise, Promise!Spec
=================================================================================
