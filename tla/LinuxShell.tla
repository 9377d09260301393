----------------------------- MODULE LinuxShell -----------------------------
(***************************************************************************)
(* One LinuxShell object (impl/include/streamsx.shell/LinuxShell.h), the   *)
(* three kernel pipes it owns and the command it runs.  The operators      *)
(* ShellPipe and ShellSource embed such an object; their modules extend    *)
(* this one and say which thread takes which of its steps.                 *)
(*                                                                         *)
(* A line of text is a sequence of tokens: pieces of text, the newline NL  *)
(* and the NUL byte.  Pipes and buffers hold tokens, so a read may end in  *)
(* the middle of a line, as it does in the code.                           *)
(***************************************************************************)
EXTENDS Integers, Sequences, FiniteSets

CONSTANTS
  Text,         \* pieces of text that hold neither a newline nor a NUL byte
  NL,           \* the newline character
  NUL,          \* the NUL character
  PipeSize,     \* capacity of a kernel pipe, in tokens
  ChunkSize,    \* most tokens one read() returns (1023 bytes in the code)
  Program,      \* the command, as a relation of input lines and what it prints for them
  QuitStatus,   \* statuses with which the command may die before its input ends
  Closers       \* streams the command may close while it keeps running

Token   == Text \cup {NL, NUL}
Streams == {"out", "err"}

ASSUME TokenAssumption == NL \notin Text /\ NUL \notin Text /\ NL # NUL
ASSUME SizeAssumption  == PipeSize \in Nat \ {0} /\ ChunkSize \in Nat \ {0}
ASSUME ProgramAssumption ==
  Program \subseteq [line : Seq(Text \cup {NUL}), out : Seq(Token), err : Seq(Token)]
ASSUME FaultAssumption ==
  /\ QuitStatus \subseteq {"zero", "nonzero", "signal"}
  /\ Closers \subseteq Streams

VARIABLES
  \* ---- members of the object
  shutdown,     \* shutdown_
  terminated,   \* terminated_
  exitReason,   \* exitReason_; "unset" until the first setup()
  exitCode,     \* exitCode_: "unset", "none" (-1), "zero", "nonzero", "signal" (-2), "killed" (-3)
  mutex,        \* the thread in a critical section of mutex_, or NoThread
  fd,           \* the parent's end of each pipe: "garbage", "open" or "closed"
  buffer,       \* stdoutBuffer_ and stderrBuffer_
  closed,       \* stdoutClosed_ and stderrClosed_
  \* ---- the kernel and the command
  proc,         \* "none", "running", "zombie" or "reaped"
  status,       \* how the command ended
  inPipe,       \* tokens in the stdin pipe
  inWrite,      \* threads inside a write() on the stdin pipe
  outPipe,      \* tokens in the stdout and stderr pipes
  outEnd,       \* does the command still hold its end of the stream?
  heard,        \* the unfinished line the command has read
  work,         \* what the command still has to print for the line it read
  \* ---- history
  consumed,     \* every token the command has read
  written,      \* every token the command has printed, per stream
  shells,       \* number of shells started
  faulty,       \* has the command ended or closed a stream before its input ended?
  stray         \* uses of a descriptor or pid the object does not own: "close", "write", "pid"

objVars  == <<shutdown, terminated, exitReason, exitCode, mutex, fd, buffer, closed>>
childVars == <<proc, status, outEnd, heard, work, consumed, written>>
pipeVars == <<inPipe, inWrite, outPipe>>
histVars == <<shells, faulty, stray>>
shellVars == <<objVars, childVars, pipeVars, histVars>>

NoThread == "nobody"
Fds      == {"in", "out", "err"}
Nothing  == [s \in Streams |-> <<>>]

-----------------------------------------------------------------------------
(* A fresh object, or one for which a constructor has called setup().      *)
ShellInit(running) ==
  /\ shutdown = FALSE /\ terminated = FALSE /\ mutex = NoThread
  /\ exitReason = IF running THEN "Unknown" ELSE "unset"
  /\ exitCode = IF running THEN "none" ELSE "unset"
  /\ fd = [f \in Fds |-> IF running THEN "open" ELSE "garbage"]
  /\ buffer = Nothing /\ closed = [s \in Streams |-> FALSE]
  /\ proc = (IF running THEN "running" ELSE "none") /\ status = "none"
  /\ inPipe = <<>> /\ inWrite = {} /\ outPipe = Nothing
  /\ outEnd = [s \in Streams |-> running]
  /\ heard = <<>> /\ work = Nothing
  /\ consumed = <<>> /\ written = Nothing
  /\ shells = (IF running THEN 1 ELSE 0) /\ faulty = FALSE /\ stray = {}

-----------------------------------------------------------------------------
(* setup() does not take mutex_.  First it resets what an earlier shell    *)
(* has left, and forgets the pid of that one (child_ = -1) ...             *)
SetupBegin ==
  /\ terminated' = FALSE
  /\ exitReason' = "Unknown" /\ exitCode' = "none"
  /\ proc' = "none"
  /\ UNCHANGED <<shutdown, mutex, fd, buffer, closed, status, outEnd, heard, work,
                 consumed, written, pipeVars, histVars>>

(* ... then it makes fresh pipes and forks a shell, which sets out to      *)
(* print `first'.  Neither the buffers nor shutdown_ are reset.            *)
SetupFork(first) ==
  /\ fd' = [f \in Fds |-> "open"]
  /\ closed' = [s \in Streams |-> FALSE]
  /\ proc' = "running" /\ status' = "none"
  /\ inPipe' = <<>> /\ outPipe' = Nothing
  /\ outEnd' = [s \in Streams |-> TRUE]
  /\ heard' = <<>> /\ work' = first
  /\ consumed' = <<>> /\ written' = Nothing
  /\ shells' = shells + 1
  /\ UNCHANGED <<shutdown, terminated, exitReason, exitCode, mutex, buffer, inWrite,
                 faulty, stray>>

(* close(2) of a set of descriptors.                                       *)
CloseFds(F) ==
  /\ fd' = [f \in Fds |-> IF f \in F THEN "closed" ELSE fd[f]]
  /\ stray' = IF \A f \in F : fd[f] = "open" THEN stray ELSE stray \cup {"close"}

(* Mutant of Useless: terminated_ is not looked at.                        *)
OnlyOnce == shutdown

(* Has stdin been closed already?                                          *)
Useless == shutdown \/ terminated

(* shutdown(false), a critical section of mutex_ that does not block in    *)
(* it.  No caller passes wait = true, so nobody ever waits on cv_.         *)
ShutdownShell ==
  /\ mutex = NoThread
  /\ shutdown' = TRUE
  /\ IF Useless
       THEN UNCHANGED <<fd, stray>>
       ELSE CloseFds({"in"})
  /\ UNCHANGED <<terminated, exitReason, exitCode, mutex, buffer, closed,
                 childVars, pipeVars, shells, faulty>>

-----------------------------------------------------------------------------
(* terminate() holds mutex_ while it polls the command for up to 100 ms    *)
(* and, if it has not finished by then, kills it.  Other threads still use *)
(* the descriptors meanwhile: none of them takes mutex_ to do so.          *)
TerminateBegin(t) ==
  /\ mutex = NoThread /\ ~terminated
  /\ terminated' = TRUE
  /\ mutex' = t
  /\ UNCHANGED <<shutdown, exitReason, exitCode, fd, buffer, closed,
                 childVars, pipeVars, histVars>>

TerminateAgain == mutex = NoThread /\ terminated /\ UNCHANGED shellVars

(* Mutants of ToClose: terminate() forgets that shutdown() may have closed *)
(* stdin before it, or relies on it.                                       *)
ClosesAll     == Fds
ClosesOutputs == Streams

(* The descriptors terminate() closes.                                     *)
ToClose == IF shutdown THEN Streams ELSE Fds

(* Mutant of ReasonOf: whether a shutdown was asked for is not looked at.  *)
ReasonIsExit(st) == IF st = "signal" THEN "Unknown" ELSE "Exit"

(* Why a command ended whose status waitpid() returned.                    *)
ReasonOf(st) ==
  IF st = "signal" THEN "Unknown"
  ELSE IF shutdown /\ st = "zero" THEN "Shutdown" ELSE "Exit"

(* waitpid() returned the command's status.                                *)
Reap(t) ==
  /\ mutex = t /\ proc = "zombie"
  /\ proc' = "reaped"
  /\ exitReason' = ReasonOf(status)
  /\ exitCode' = status
  /\ CloseFds(ToClose)
  /\ mutex' = NoThread
  /\ UNCHANGED <<shutdown, terminated, buffer, closed, status, outEnd, heard, work,
                 consumed, written, pipeVars, shells, faulty>>

(* Mutant of Kill: the command is waited for as long as it runs.           *)
WaitOn(t) == FALSE

(* Ten polls found the command still running: it is killed and reaped.     *)
Kill(t) ==
  /\ mutex = t /\ proc = "running"
  /\ proc' = "reaped" /\ status' = "signal"
  /\ outEnd' = [s \in Streams |-> FALSE]
  /\ work' = Nothing
  /\ exitReason' = IF shutdown THEN "Shutdown" ELSE "Unknown"
  /\ exitCode' = "killed"
  /\ CloseFds(ToClose)
  /\ mutex' = NoThread
  /\ UNCHANGED <<shutdown, terminated, buffer, closed, heard, consumed, written,
                 pipeVars, shells, faulty>>

(* There is no command: child_ was never set, and holds what the memory    *)
(* held, so waitpid() and kill() get a pid the object does not own.  If    *)
(* waitpid() fails, terminate() throws with terminated_ set and nothing    *)
(* closed ...                                                              *)
WaitFails(t) ==
  /\ mutex = t /\ proc \in {"none", "reaped"}
  /\ mutex' = NoThread
  /\ stray' = stray \cup {"pid"}
  /\ UNCHANGED <<shutdown, terminated, exitReason, exitCode, fd, buffer, closed,
                 childVars, pipeVars, shells, faulty>>

(* ... and if the pid names another child, its status is taken or it is    *)
(* killed.                                                                 *)
WaitForeign(t) ==
  /\ mutex = t /\ proc \in {"none", "reaped"}
  /\ mutex' = NoThread
  /\ exitReason' \in {"Exit", "Unknown"} \cup (IF shutdown THEN {"Shutdown"} ELSE {})
  /\ exitCode' \in {"zero", "nonzero", "signal", "killed"}
  /\ fd' = [f \in Fds |-> IF f \in ToClose THEN "closed" ELSE fd[f]]
  /\ stray' = stray \cup {"pid"}
  /\ UNCHANGED <<shutdown, terminated, buffer, closed, childVars, pipeVars, shells, faulty>>

(* A thread in terminate() gets out of it.                                 *)
TerminateReturns(t) == TerminateAgain \/ Reap(t) \/ Kill(t) \/ WaitForeign(t)

-----------------------------------------------------------------------------
(* writeToPipe() on the stdin pipe, one write() at a time.  A write()      *)
(* blocks while the pipe is full; once begun it is not disturbed by a      *)
(* close() of the descriptor, but fails when the command is gone.          *)
BeginWrite(t) ==
  /\ fd["in"] = "open"
  /\ inWrite' = inWrite \cup {t}
  /\ UNCHANGED <<objVars, childVars, inPipe, outPipe, histVars>>

EndWrite(t, token) ==
  /\ t \in inWrite /\ proc = "running"
  /\ Len(inPipe) < PipeSize
  /\ inPipe' = Append(inPipe, token)
  /\ inWrite' = inWrite \ {t}
  /\ UNCHANGED <<objVars, childVars, outPipe, histVars>>

(* EBADF for a descriptor that was closed, EPIPE for a command that died.  *)
FailWrite(t) ==
  /\ \/ t \notin inWrite /\ fd["in"] # "open" /\ stray' = stray \cup {"write"}
     \/ t \in inWrite /\ proc # "running" /\ stray' = stray
  /\ inWrite' = inWrite \ {t}
  /\ UNCHANGED <<objVars, childVars, inPipe, outPipe, shells, faulty>>

-----------------------------------------------------------------------------
(* Position of the first c in q, or 0.                                     *)
FirstOf(c, q) ==
  IF \E i \in DOMAIN q : q[i] = c
    THEN CHOOSE i \in DOMAIN q : q[i] = c /\ \A j \in 1..(i-1) : q[j] # c
    ELSE 0

(* The part of readLine() that finds a complete line in a buffer; text     *)
(* left after end of file counts as a line.                                *)
HasLine(s) == FirstOf(NL, buffer[s]) # 0 \/ (closed[s] /\ buffer[s] # <<>>)

NextLine(s) ==
  IF FirstOf(NL, buffer[s]) # 0
    THEN SubSeq(buffer[s], 1, FirstOf(NL, buffer[s]) - 1)
    ELSE buffer[s]

AfterLine(s) ==
  IF FirstOf(NL, buffer[s]) # 0
    THEN SubSeq(buffer[s], FirstOf(NL, buffer[s]) + 1, Len(buffer[s]))
    ELSE <<>>

(* readLine() returns a line of each stream that has one.                  *)
TakeLines ==
  /\ \E s \in Streams : HasLine(s)
  /\ buffer' = [s \in Streams |-> IF HasLine(s) THEN AfterLine(s) ELSE buffer[s]]
  /\ UNCHANGED <<shutdown, terminated, exitReason, exitCode, mutex, fd, closed,
                 childVars, pipeVars, histVars>>

NoLine    == \A s \in Streams : ~HasLine(s)

(* Mutant of AllClosed: `||' for `&&'.                                     *)
AnyClosed == \E s \in Streams : closed[s]

AllClosed == \A s \in Streams : closed[s]

(* select() returns.  readSet_ keeps a stream that has reached its end, so *)
(* from then on select() never blocks.                                     *)
SelectReady ==
  \E s \in Streams : fd[s] # "open" \/ outPipe[s] # <<>> \/ ~outEnd[s]

(* `buffer += buf' appends a C string: a chunk ends at its first NUL.      *)
CString(chunk) ==
  IF FirstOf(NUL, chunk) = 0 THEN chunk ELSE SubSeq(chunk, 1, FirstOf(NUL, chunk) - 1)

ReadFails(s) == ~closed[s] /\ fd[s] # "open"

(* One non-blocking read() of a stream: a chunk, end of file, or EAGAIN.   *)
ReadFromPipe(s) ==
  LET count == IF Len(outPipe[s]) < ChunkSize THEN Len(outPipe[s]) ELSE ChunkSize
  IN
  /\ ~ReadFails(s)
  /\ IF closed[s]
       THEN UNCHANGED <<buffer, closed, outPipe>>
       ELSE /\ closed' = [closed EXCEPT ![s] = count = 0 /\ ~outEnd[s]]
            /\ buffer' = [buffer EXCEPT ![s] = @ \o CString(SubSeq(outPipe[s], 1, count))]
            /\ outPipe' = [outPipe EXCEPT ![s] = SubSeq(@, count + 1, Len(@))]
  /\ UNCHANGED <<shutdown, terminated, exitReason, exitCode, mutex, fd,
                 childVars, inPipe, inWrite, histVars>>

-----------------------------------------------------------------------------
(* The command: a program that reads lines and prints its replies to each  *)
(* before it reads the next, as the toolkit's Python scripts do.           *)

StdinAtEOF == inPipe = <<>> /\ fd["in"] # "open" /\ inWrite = {}

Idle == work = Nothing

(* What the command will print for a line, on the streams it still holds;  *)
(* it prints nothing for a line it does not know.                          *)
Reply(line) ==
  \/ \E p \in Program :
       /\ p.line = line
       /\ work' = [s \in Streams |-> IF outEnd[s] THEN p[s] ELSE <<>>]
  \/ (\A p \in Program : p.line # line) /\ UNCHANGED work

ChildRead ==
  /\ proc = "running" /\ Idle /\ inPipe # <<>>
  /\ inPipe' = Tail(inPipe)
  /\ consumed' = Append(consumed, Head(inPipe))
  /\ IF Head(inPipe) = NL
       THEN heard' = <<>> /\ Reply(heard)
       ELSE heard' = Append(heard, Head(inPipe)) /\ UNCHANGED work
  /\ UNCHANGED <<objVars, proc, status, outEnd, written, inWrite, outPipe, histVars>>

(* A last line without newline is a line, too.                             *)
ChildReadRest ==
  /\ proc = "running" /\ Idle /\ StdinAtEOF /\ heard # <<>>
  /\ heard' = <<>> /\ Reply(heard)
  /\ UNCHANGED <<objVars, proc, status, outEnd, consumed, written, pipeVars, histVars>>

ChildWrite(s) ==
  /\ proc = "running" /\ work[s] # <<>>
  /\ Len(outPipe[s]) < PipeSize
  /\ work' = [work EXCEPT ![s] = Tail(@)]
  /\ outPipe' = [outPipe EXCEPT ![s] = Append(@, Head(work[s]))]
  /\ written' = [written EXCEPT ![s] = Append(@, Head(work[s]))]
  /\ UNCHANGED <<objVars, proc, status, outEnd, heard, consumed, inPipe, inWrite, histVars>>

Die(st) ==
  /\ proc' = "zombie" /\ status' = st
  /\ outEnd' = [s \in Streams |-> FALSE]
  /\ work' = Nothing
  /\ UNCHANGED <<objVars, heard, consumed, written, pipeVars, shells, stray>>

(* At the end of its input the command exits.                              *)
ChildExit ==
  /\ proc = "running" /\ Idle /\ StdinAtEOF /\ heard = <<>>
  /\ Die("zero") /\ UNCHANGED faulty

(* It may also exit, fail or be killed at any other time ...               *)
ChildQuit == proc = "running" /\ faulty' = TRUE /\ \E st \in QuitStatus : Die(st)

(* ... or close a stream early and go on.                                  *)
ChildClose(s) ==
  /\ proc = "running" /\ s \in Closers /\ outEnd[s]
  /\ outEnd' = [outEnd EXCEPT ![s] = FALSE]
  /\ work' = [work EXCEPT ![s] = <<>>]
  /\ faulty' = TRUE
  /\ UNCHANGED <<objVars, proc, status, heard, consumed, written, pipeVars, shells, stray>>

-----------------------------------------------------------------------------
ShellTypeOK ==
  /\ shutdown \in BOOLEAN /\ terminated \in BOOLEAN
  /\ exitReason \in {"unset", "Shutdown", "Unknown", "Exit"}
  /\ exitCode \in {"unset", "none", "zero", "nonzero", "signal", "killed"}
  /\ fd \in [Fds -> {"garbage", "open", "closed"}]
  /\ buffer \in [Streams -> Seq(Token)]
  /\ closed \in [Streams -> BOOLEAN]
  /\ proc \in {"none", "running", "zombie", "reaped"}
  /\ status \in {"none", "zero", "nonzero", "signal"}
  /\ inPipe \in Seq(Token) /\ Len(inPipe) \in 0..PipeSize
  /\ outPipe \in [Streams -> Seq(Token)]
  /\ \A s \in Streams : Len(outPipe[s]) \in 0..PipeSize
  /\ outEnd \in [Streams -> BOOLEAN]
  /\ heard \in Seq(Text \cup {NUL})
  /\ work \in [Streams -> Seq(Token)]
  /\ consumed \in Seq(Token)
  /\ written \in [Streams -> Seq(Token)]
  /\ shells \in Nat /\ faulty \in BOOLEAN /\ stray \subseteq {"close", "write", "pid"}
=============================================================================
