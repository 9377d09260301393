-------------------------- MODULE LinuxShell_proofs --------------------------
(***************************************************************************)
(* Lemmas about sequences, and about what the steps of a LinuxShell object *)
(* and its command do, for the proofs about the operators that embed one.  *)
(***************************************************************************)
EXTENDS LinuxShell, SequenceTheorems, WellFoundedInduction, TLAPS

-----------------------------------------------------------------------------
(* Moving the head of one sequence to the end of another changes nothing   *)
(* about the two together: what a write() or a read() of a token does.     *)
LEMMA MoveHead ==
  ASSUME NEW S, NEW a \in Seq(S), NEW b \in Seq(S), b # <<>>
  PROVE  Append(a, Head(b)) \o Tail(b) = a \o b
<1>1. Head(b) \in S /\ Tail(b) \in Seq(S)
  BY HeadTailProperties
<1>2. Append(a, Head(b)) = a \o <<Head(b)>>
  BY <1>1, AppendIsConcat
<1>3. <<Head(b)>> \in Seq(S)
  BY <1>1
<1>4. <<Head(b)>> \o Tail(b) = b
  <2>1. Len(b) \in Nat \ {0}
    BY EmptySeq
  <2>2. SubSeq(b, 1, Len(b)) = <<b[1]>> \o SubSeq(b, 2, Len(b))
    BY <2>1, SubSeqRecursiveFirst
  <2>3. Tail(b) = SubSeq(b, 2, Len(b)) /\ SubSeq(b, 1, Len(b)) = b
    BY TailIsSubSeq, SubSeqFull
  <2> QED BY <2>2, <2>3
<1> QED BY <1>1, <1>2, <1>3, <1>4, ConcatAssociative

(* Appending to the second of two sequences appends to both together.      *)
LEMMA AppendToConcat ==
  ASSUME NEW S, NEW a \in Seq(S), NEW b \in Seq(S), NEW e \in S
  PROVE  a \o Append(b, e) = Append(a \o b, e)
<1>1. <<e>> \in Seq(S) /\ a \o b \in Seq(S)
  BY ConcatProperties
<1>2. Append(b, e) = b \o <<e>> /\ Append(a \o b, e) = (a \o b) \o <<e>>
  BY <1>1, AppendIsConcat
<1> QED BY <1>1, <1>2, ConcatAssociative

(* The first of two sequences is a prefix of both together.                *)
LEMMA ConcatPrefix ==
  ASSUME NEW S, NEW a \in Seq(S), NEW b \in Seq(S)
  PROVE  Len(a) <= Len(a \o b) /\ a = SubSeq(a \o b, 1, Len(a))
<1>1. /\ a \o b \in Seq(S) /\ Len(a \o b) = Len(a) + Len(b)
      /\ \A i \in 1..Len(a) : (a \o b)[i] = a[i]
      /\ Len(a) \in Nat /\ Len(b) \in Nat
  BY ConcatProperties, LenProperties
<1>2. \A i \in 1..Len(a) : (a \o b)[i] \in S
  BY <1>1, ElementOfSeq
<1>3. /\ SubSeq(a \o b, 1, Len(a)) \in Seq(S)
      /\ Len(SubSeq(a \o b, 1, Len(a))) = Len(a)
      /\ \A i \in 1..Len(a) : SubSeq(a \o b, 1, Len(a))[i] = (a \o b)[i]
  BY <1>1, <1>2, SubSeqProperties
<1> QED BY <1>1, <1>3, SeqEqual

(* A part of a sequence is a sequence.                                     *)
LEMMA PartOfSeq ==
  ASSUME NEW S, NEW q \in Seq(S), NEW m \in Nat \ {0}, NEW n \in Int, n <= Len(q)
  PROVE  /\ SubSeq(q, m, n) \in Seq(S)
         /\ Len(SubSeq(q, m, n)) = IF m <= n THEN n - m + 1 ELSE 0
<1>1. Len(q) \in Nat
  BY LenProperties
<1>2. \A i \in m..n : q[i] \in S
  BY <1>1, ElementOfSeq
<1> QED BY <1>2, SubSeqProperties

(* Where something occurs in a sequence, it occurs a first time.           *)
LEMMA FirstThere ==
  ASSUME NEW S, NEW q \in Seq(S), NEW c, \E i \in 1..Len(q) : q[i] = c
  PROVE  \E k \in 1..Len(q) : q[k] = c /\ \A j \in 1..(k - 1) : q[j] # c
<1> DEFINE Hit  == {i \in Nat : i \in 1..Len(q) /\ q[i] = c}
           Less == {jk \in Nat \X Nat : jk[1] < jk[2]}
<1>1. Len(q) \in Nat
  BY LenProperties
<1>2. Hit \subseteq Nat /\ Hit # {}
  BY <1>1
<1>3. IsWellFoundedOn(Less, Nat)
  BY NatLessThanWellFounded DEF OpToRel
<1>4. \A j, k \in Nat : <<j, k>> \in Less \/ k <= j
  OBVIOUS
<1>5. \E k \in Hit : \A j \in Hit : ~ (<<j, k>> \in Less)
  <2> HIDE DEF Less, Hit
  <2> QED BY <1>2, <1>3, WFMin
<1>6. PICK k \in Hit : \A j \in Hit : k <= j
  <2> HIDE DEF Less
  <2> QED BY <1>4, <1>5
<1>7. \A j \in 1..(k - 1) : q[j] # c
  BY <1>1, <1>6
<1> QED BY <1>6, <1>7

(* FirstOf finds that position, ...                                        *)
LEMMA FirstOfFinds ==
  ASSUME NEW S, NEW q \in Seq(S), NEW c, \E i \in 1..Len(q) : q[i] = c
  PROVE  /\ FirstOf(c, q) \in 1..Len(q) /\ q[FirstOf(c, q)] = c
         /\ \A j \in 1..(FirstOf(c, q) - 1) : q[j] # c
<1>1. DOMAIN q = 1..Len(q)
  BY LenProperties
<1> QED BY <1>1, FirstThere DEF FirstOf

(* ... or 0.                                                               *)
LEMMA FirstOfNone ==
  ASSUME NEW S, NEW q \in Seq(S), NEW c, ~ \E i \in 1..Len(q) : q[i] = c
  PROVE  FirstOf(c, q) = 0
<1>1. DOMAIN q = 1..Len(q)
  BY LenProperties
<1> QED BY <1>1 DEF FirstOf

(* Either way it is a number up to the length of the sequence.             *)
LEMMA FirstOfPosition ==
  ASSUME NEW S, NEW q \in Seq(S), NEW c
  PROVE  FirstOf(c, q) \in 0..Len(q)
<1>1. Len(q) \in Nat
  BY LenProperties
<1> QED BY <1>1, FirstOfFinds, FirstOfNone

-----------------------------------------------------------------------------
(* Each step keeps the types of the object, the command and the pipes.     *)

USE DEF Streams, Fds, Token

(* Pipes and buffers that are empty have the types of pipes and buffers.   *)
LEMMA NothingType ==
  /\ \A S : <<>> \in Seq(S)
  /\ Len(<<>>) \in 0..PipeSize
  /\ Nothing \in [Streams -> Seq(Token)]
  /\ \A s \in Streams : Len(Nothing[s]) \in 0..PipeSize
BY EmptySeq, SizeAssumption DEF Nothing

(* Both steps of setup() yield an object of the right type.                *)
LEMMA SetupBeginType == ShellTypeOK /\ SetupBegin => ShellTypeOK'
BY DEF ShellTypeOK, SetupBegin, pipeVars, histVars

(* For the second, what the command sets out to print has to be text.      *)
LEMMA SetupForkType ==
  ASSUME ShellTypeOK, NEW first \in [Streams -> Seq(Token)], SetupFork(first)
  PROVE  ShellTypeOK'
<1>1. /\ inPipe' \in Seq(Token) /\ Len(inPipe') \in 0..PipeSize
      /\ outPipe' \in [Streams -> Seq(Token)]
      /\ \A s \in Streams : Len(outPipe'[s]) \in 0..PipeSize
      /\ heard' \in Seq(Text \cup {NUL}) /\ consumed' \in Seq(Token)
      /\ work' \in [Streams -> Seq(Token)] /\ written' \in [Streams -> Seq(Token)]
  BY NothingType DEF SetupFork
<1>2. /\ fd' \in [Fds -> {"garbage", "open", "closed"}]
      /\ closed' \in [Streams -> BOOLEAN] /\ outEnd' \in [Streams -> BOOLEAN]
  BY DEF SetupFork
<1>3. /\ shutdown' \in BOOLEAN /\ buffer' \in [Streams -> Seq(Token)]
      /\ shells' \in Nat /\ stray' \subseteq {"close", "write", "pid"}
  BY DEF SetupFork, ShellTypeOK
<1> QED BY <1>1, <1>2, <1>3 DEF SetupFork, ShellTypeOK

(* close() leaves descriptors descriptors.                                 *)
LEMMA CloseFdsType ==
  ASSUME ShellTypeOK, NEW F, CloseFds(F)
  PROVE  fd' \in [Fds -> {"garbage", "open", "closed"}] /\ stray' \subseteq {"close", "write", "pid"}
BY DEF ShellTypeOK, CloseFds

(* shutdown() does.                                                        *)
LEMMA ShutdownType == ShellTypeOK /\ ShutdownShell => ShellTypeOK'
<1> SUFFICES ASSUME ShellTypeOK, ShutdownShell PROVE ShellTypeOK'
  OBVIOUS
<1>1. /\ fd' \in [Fds -> {"garbage", "open", "closed"}]
      /\ stray' \subseteq {"close", "write", "pid"}
  <2>1. CASE UNCHANGED <<fd, stray>>
    BY <2>1 DEF ShellTypeOK
  <2>2. CASE CloseFds({"in"})
    BY <2>2, CloseFdsType
  <2> QED BY <2>1, <2>2 DEF ShutdownShell
<1>2. /\ shutdown' = TRUE
      /\ UNCHANGED <<terminated, exitReason, exitCode, mutex, buffer, closed,
                     childVars, pipeVars, shells, faulty>>
  BY DEF ShutdownShell
<1> QED BY <1>1, <1>2 DEF ShellTypeOK, childVars, pipeVars

(* Every step of terminate() does.                                         *)
LEMMA TerminateType ==
  ASSUME ShellTypeOK, NEW t,
         TerminateBegin(t) \/ TerminateReturns(t) \/ WaitFails(t)
  PROVE  ShellTypeOK'
<1>1. CASE TerminateBegin(t)
  BY <1>1 DEF ShellTypeOK, TerminateBegin, childVars, pipeVars, histVars
<1>2. CASE TerminateAgain
  BY <1>2 DEF ShellTypeOK, TerminateAgain, shellVars, objVars, childVars, pipeVars, histVars
<1>3. CASE Reap(t)
  <2>1. exitReason' \in {"Unknown", "Exit", "Shutdown"}
    BY <1>3 DEF Reap, ReasonOf
  <2> QED BY <1>3, <2>1, CloseFdsType DEF ShellTypeOK, Reap, pipeVars
<1>4. CASE Kill(t)
  BY <1>4, CloseFdsType DEF ShellTypeOK, Kill, pipeVars, Nothing
<1>5. CASE WaitForeign(t)
  BY <1>5 DEF ShellTypeOK, WaitForeign, childVars, pipeVars
<1>6. CASE WaitFails(t)
  BY <1>6 DEF ShellTypeOK, WaitFails, childVars, pipeVars
<1> QED BY <1>1, <1>2, <1>3, <1>4, <1>5, <1>6 DEF TerminateReturns

(* Every step of a write() does.                                           *)
LEMMA WriteType ==
  ASSUME ShellTypeOK, NEW t, NEW token \in Token,
         BeginWrite(t) \/ EndWrite(t, token) \/ FailWrite(t)
  PROVE  ShellTypeOK'
<1>1. CASE BeginWrite(t)
  BY <1>1 DEF ShellTypeOK, BeginWrite, objVars, childVars, histVars
<1>2. CASE EndWrite(t, token)
  <2>1. inPipe' \in Seq(Token) /\ Len(inPipe') \in 0..PipeSize
    BY <1>2, AppendProperties, SizeAssumption DEF ShellTypeOK, EndWrite
  <2> QED BY <1>2, <2>1 DEF ShellTypeOK, EndWrite, objVars, childVars, histVars
<1>3. CASE FailWrite(t)
  <2>1. stray' \subseteq {"close", "write", "pid"}
    BY <1>3 DEF ShellTypeOK, FailWrite
  <2>2. UNCHANGED <<objVars, childVars, inPipe, outPipe, shells, faulty>>
    BY <1>3 DEF FailWrite
  <2> QED BY <2>1, <2>2 DEF ShellTypeOK, objVars, childVars
<1> QED BY <1>1, <1>2, <1>3

(* The line at the front of a buffer and what follows it are sequences.    *)
LEMMA LineType ==
  ASSUME ShellTypeOK, NEW s \in Streams
  PROVE  NextLine(s) \in Seq(Token) /\ AfterLine(s) \in Seq(Token)
<1> DEFINE k == FirstOf(NL, buffer[s])
<1>1. buffer[s] \in Seq(Token) /\ Len(buffer[s]) \in Nat
  BY LenProperties DEF ShellTypeOK
<1>2. k \in 0..Len(buffer[s])
  BY <1>1, FirstOfPosition
<1>3. CASE k = 0
  BY <1>1, <1>3 DEF NextLine, AfterLine
<1>4. CASE k # 0
  <2>1. k - 1 \in Int /\ k - 1 <= Len(buffer[s]) /\ k + 1 \in Nat \ {0}
    BY <1>1, <1>2, <1>4
  <2> HIDE DEF k
  <2>2. SubSeq(buffer[s], 1, k - 1) \in Seq(Token)
    BY <1>1, <2>1, PartOfSeq
  <2>3. SubSeq(buffer[s], k + 1, Len(buffer[s])) \in Seq(Token)
    BY <1>1, <2>1, PartOfSeq
  <2> QED BY <1>4, <2>2, <2>3 DEF NextLine, AfterLine, k
<1> QED BY <1>3, <1>4

(* Taking lines from the buffers does.                                     *)
LEMMA TakeLinesType == ShellTypeOK /\ TakeLines => ShellTypeOK'
<1> SUFFICES ASSUME ShellTypeOK, TakeLines PROVE ShellTypeOK'
  OBVIOUS
<1>1. buffer' \in [Streams -> Seq(Token)]
  BY LineType DEF ShellTypeOK, TakeLines
<1> QED BY <1>1 DEF ShellTypeOK, TakeLines, childVars, pipeVars, histVars

(* A read() of a stream does.                                              *)
LEMMA ReadFromPipeType ==
  ASSUME ShellTypeOK, NEW s \in Streams, ReadFromPipe(s)
  PROVE  ShellTypeOK'
<1> DEFINE count == IF Len(outPipe[s]) < ChunkSize THEN Len(outPipe[s]) ELSE ChunkSize
           chunk == SubSeq(outPipe[s], 1, count)
<1>1. /\ outPipe[s] \in Seq(Token) /\ Len(outPipe[s]) \in 0..PipeSize
      /\ buffer[s] \in Seq(Token) /\ count \in Nat /\ count <= Len(outPipe[s])
  BY SizeAssumption DEF ShellTypeOK
<1> HIDE DEF count
<1>2. chunk \in Seq(Token) /\ Len(chunk) \in Nat
  BY <1>1, PartOfSeq, LenProperties
<1> HIDE DEF chunk
<1>3. CString(chunk) \in Seq(Token)
  <2>1. FirstOf(NUL, chunk) \in 0..Len(chunk)
    BY <1>2, FirstOfPosition
  <2>2. FirstOf(NUL, chunk) - 1 \in Int /\ FirstOf(NUL, chunk) - 1 <= Len(chunk)
    BY <1>2, <2>1
  <2>3. SubSeq(chunk, 1, FirstOf(NUL, chunk) - 1) \in Seq(Token)
    BY <1>2, <2>2, PartOfSeq
  <2> QED BY <1>2, <2>3 DEF CString
<1>4. /\ SubSeq(outPipe[s], count + 1, Len(outPipe[s])) \in Seq(Token)
      /\ Len(SubSeq(outPipe[s], count + 1, Len(outPipe[s]))) \in 0..PipeSize
  <2>1. count + 1 \in Nat \ {0} /\ Len(outPipe[s]) \in Int /\ Len(outPipe[s]) <= Len(outPipe[s])
    BY <1>1, SizeAssumption
  <2>2. /\ SubSeq(outPipe[s], count + 1, Len(outPipe[s])) \in Seq(Token)
        /\ Len(SubSeq(outPipe[s], count + 1, Len(outPipe[s]))) =
             IF count + 1 <= Len(outPipe[s]) THEN Len(outPipe[s]) - (count + 1) + 1 ELSE 0
    BY <1>1, <2>1, PartOfSeq
  <2> QED BY <1>1, <2>2, SizeAssumption
<1>5. CASE closed[s]
  BY <1>5 DEF ShellTypeOK, ReadFromPipe, childVars, histVars
<1>6. CASE ~closed[s]
  <2>1. /\ closed' = [closed EXCEPT ![s] = count = 0 /\ ~outEnd[s]]
        /\ buffer' = [buffer EXCEPT ![s] = @ \o CString(chunk)]
        /\ outPipe' = [outPipe EXCEPT ![s] = SubSeq(@, count + 1, Len(@))]
    BY <1>6 DEF ReadFromPipe, count, chunk
  <2>2. closed' \in [Streams -> BOOLEAN]
    BY <2>1 DEF ShellTypeOK
  <2>3. buffer[s] \o CString(chunk) \in Seq(Token)
    BY <1>1, <1>3, ConcatProperties
  <2>4. buffer' \in [Streams -> Seq(Token)]
    BY <2>1, <2>3 DEF ShellTypeOK
  <2>5. /\ outPipe' \in [Streams -> Seq(Token)]
        /\ \A r \in Streams : Len(outPipe'[r]) \in 0..PipeSize
    BY <1>4, <2>1 DEF ShellTypeOK
  <2> QED BY <2>2, <2>4, <2>5 DEF ShellTypeOK, ReadFromPipe, childVars, histVars
<1> QED BY <1>5, <1>6
(* Every step of the command does.                                         *)
LEMMA ReplyType ==
  ASSUME ShellTypeOK, NEW line, Reply(line)
  PROVE  work' \in [Streams -> Seq(Token)]
<1>1. CASE UNCHANGED work
  BY <1>1 DEF ShellTypeOK
<1>2. ASSUME NEW p \in Program, work' = [s \in Streams |-> IF outEnd[s] THEN p[s] ELSE <<>>]
      PROVE  work' \in [Streams -> Seq(Token)]
  <2>1. p["out"] \in Seq(Token) /\ p["err"] \in Seq(Token)
    BY ProgramAssumption
  <2> QED BY <1>2, <2>1, NothingType
<1> QED BY <1>1, <1>2 DEF Reply

(* A token read by the command keeps the types.                            *)
LEMMA ChildReadType == ShellTypeOK /\ ChildRead => ShellTypeOK'
<1> SUFFICES ASSUME ShellTypeOK, ChildRead PROVE ShellTypeOK'
  OBVIOUS
<1>1. /\ inPipe \in Seq(Token) /\ inPipe # <<>> /\ Len(inPipe) \in 0..PipeSize
      /\ consumed \in Seq(Token) /\ heard \in Seq(Text \cup {NUL})
  BY DEF ShellTypeOK, ChildRead
<1>2. /\ Head(inPipe) \in Token /\ Tail(inPipe) \in Seq(Token)
      /\ Len(Tail(inPipe)) \in 0..PipeSize
  <2>1. /\ Head(inPipe) \in Token /\ Tail(inPipe) \in Seq(Token)
        /\ Len(Tail(inPipe)) = Len(inPipe) - 1
    BY <1>1, HeadTailProperties
  <2>2. Len(Tail(inPipe)) \in Nat
    BY <2>1, LenProperties
  <2> QED BY <1>1, <2>1, <2>2, SizeAssumption
<1>3. inPipe' \in Seq(Token) /\ Len(inPipe') \in 0..PipeSize
  BY <1>2 DEF ChildRead
<1>4. consumed' \in Seq(Token)
  BY <1>1, <1>2, AppendProperties DEF ChildRead
<1>5. heard' \in Seq(Text \cup {NUL})
  <2>1. CASE Head(inPipe) = NL
    BY <2>1, NothingType DEF ChildRead
  <2>2. CASE Head(inPipe) # NL
    <3>1. Head(inPipe) \in Text \cup {NUL}
      BY <1>2, <2>2
    <3>2. heard' = Append(heard, Head(inPipe))
      BY <2>2 DEF ChildRead
    <3> QED BY <1>1, <3>1, <3>2, AppendProperties
  <2> QED BY <2>1, <2>2
<1>6. work' \in [Streams -> Seq(Token)]
  BY ReplyType DEF ChildRead, ShellTypeOK
<1> QED BY <1>3, <1>4, <1>5, <1>6 DEF ShellTypeOK, ChildRead, objVars, histVars

(* So does its last, unfinished line,                                      *)
LEMMA ChildReadRestType == ShellTypeOK /\ ChildReadRest => ShellTypeOK'
<1> SUFFICES ASSUME ShellTypeOK, ChildReadRest PROVE ShellTypeOK'
  OBVIOUS
<1>1. work' \in [Streams -> Seq(Token)] /\ heard' \in Seq(Text \cup {NUL})
  BY ReplyType, NothingType DEF ChildReadRest
<1> QED BY <1>1 DEF ShellTypeOK, ChildReadRest, objVars, pipeVars, histVars

(* what it prints,                                                         *)
LEMMA ChildWriteType ==
  ASSUME ShellTypeOK, NEW s \in Streams, ChildWrite(s)
  PROVE  ShellTypeOK'
<1>1. /\ work[s] \in Seq(Token) /\ work[s] # <<>>
      /\ outPipe[s] \in Seq(Token) /\ Len(outPipe[s]) \in 0..PipeSize
      /\ Len(outPipe[s]) < PipeSize
      /\ written[s] \in Seq(Token)
  BY DEF ShellTypeOK, ChildWrite
<1>2. Head(work[s]) \in Token /\ Tail(work[s]) \in Seq(Token)
  BY <1>1, HeadTailProperties
<1>3. /\ Append(outPipe[s], Head(work[s])) \in Seq(Token)
      /\ Len(Append(outPipe[s], Head(work[s]))) \in 0..PipeSize
      /\ Append(written[s], Head(work[s])) \in Seq(Token)
  <2>1. Len(Append(outPipe[s], Head(work[s]))) = Len(outPipe[s]) + 1
    BY <1>1, <1>2, AppendProperties
  <2> QED BY <1>1, <1>2, <2>1, AppendProperties, SizeAssumption
<1>4. /\ work' \in [Streams -> Seq(Token)]
      /\ outPipe' \in [Streams -> Seq(Token)] /\ written' \in [Streams -> Seq(Token)]
      /\ \A r \in Streams : Len(outPipe'[r]) \in 0..PipeSize
  BY <1>2, <1>3 DEF ShellTypeOK, ChildWrite
<1> QED BY <1>4 DEF ShellTypeOK, ChildWrite, objVars, histVars

(* its death,                                                              *)
LEMMA DieType ==
  ASSUME ShellTypeOK, NEW st \in {"zero", "nonzero", "signal"}, Die(st), faulty' \in BOOLEAN
  PROVE  ShellTypeOK'
BY NothingType DEF ShellTypeOK, Die, objVars, pipeVars, histVars

(* and a stream it closes.                                                 *)
LEMMA ChildCloseType ==
  ASSUME ShellTypeOK, NEW s \in Streams, ChildClose(s)
  PROVE  ShellTypeOK'
<1>1. outEnd' \in [Streams -> BOOLEAN] /\ work' \in [Streams -> Seq(Token)]
  BY NothingType DEF ShellTypeOK, ChildClose
<1> QED BY <1>1 DEF ShellTypeOK, ChildClose, objVars, pipeVars, histVars

-----------------------------------------------------------------------------
(* Until terminate() leaves its critical section, the command and the      *)
(* descriptors are the object's; afterwards they are gone.                 *)
Unfinished == ~terminated \/ mutex # NoThread

Owned ==
  /\ Unfinished => /\ proc \in {"running", "zombie"}
                   /\ fd = [f \in Fds |-> IF f = "in" /\ shutdown THEN "closed" ELSE "open"]
  /\ ~Unfinished => proc = "reaped" /\ fd = [f \in Fds |-> "closed"]
  /\ mutex # NoThread => terminated

(* Nothing but its own was closed, waited for or killed.                   *)
OnlyOwn == stray \cap {"close", "pid"} = {}

(* Ownership concerns the members of the object and the command's process. *)
LEMMA OwnedFrame ==
  Owned /\ OnlyOwn /\ UNCHANGED <<shutdown, terminated, mutex, fd, proc, stray>>
    => Owned' /\ OnlyOwn'
BY DEF Owned, Unfinished, OnlyOwn

(* shutdown() closes stdin, if it is open still.                           *)
LEMMA ShutdownOwned == Owned /\ OnlyOwn /\ ShutdownShell => Owned' /\ OnlyOwn'
<1> SUFFICES ASSUME Owned, OnlyOwn, ShutdownShell PROVE Owned' /\ OnlyOwn'
  OBVIOUS
<1> USE DEF ShutdownShell, Useless
<1>1. /\ mutex = NoThread /\ UNCHANGED <<mutex, terminated, proc>> /\ shutdown' = TRUE
  BY DEF childVars
<1>2. CASE shutdown \/ terminated
  BY <1>1, <1>2 DEF Owned, Unfinished, OnlyOwn
<1>3. CASE ~shutdown /\ ~terminated
  <2>1. fd = [f \in Fds |-> "open"] /\ proc \in {"running", "zombie"}
    BY <1>3 DEF Owned, Unfinished
  <2>2. fd' = [f \in Fds |-> IF f = "in" THEN "closed" ELSE "open"] /\ stray' = stray
    BY <1>3, <2>1 DEF CloseFds
  <2> QED BY <1>1, <1>3, <2>1, <2>2 DEF Owned, Unfinished, OnlyOwn
<1> QED BY <1>2, <1>3

(* terminate() waits for, kills and closes what is its own, once.          *)
LEMMA TerminateOwned ==
  ASSUME Owned, OnlyOwn, NEW t, t # NoThread,
         TerminateBegin(t) \/ TerminateReturns(t) \/ WaitFails(t)
  PROVE  Owned' /\ OnlyOwn'
<1>1. CASE TerminateBegin(t)
  BY <1>1 DEF TerminateBegin, Owned, Unfinished, OnlyOwn, childVars, histVars
<1>2. CASE TerminateAgain
  BY <1>2, OwnedFrame DEF TerminateAgain, shellVars, objVars, childVars, histVars
<1>3. CASE Reap(t) \/ Kill(t)
  <2>1. /\ mutex = t /\ mutex' = NoThread /\ proc' = "reaped" /\ CloseFds(ToClose)
        /\ UNCHANGED <<shutdown, terminated>>
    BY <1>3 DEF Reap, Kill
  <2>2. terminated /\ fd = [f \in Fds |-> IF f = "in" /\ shutdown THEN "closed" ELSE "open"]
    BY <2>1 DEF Owned, Unfinished
  <2>3. stray' = stray /\ fd' = [f \in Fds |-> "closed"]
    BY <2>1, <2>2 DEF CloseFds, ToClose
  <2> QED BY <2>1, <2>2, <2>3 DEF Owned, Unfinished, OnlyOwn
<1>4. ~WaitForeign(t) /\ ~WaitFails(t)
  BY DEF WaitForeign, WaitFails, Owned, Unfinished
<1> QED BY <1>1, <1>2, <1>3, <1>4 DEF TerminateReturns

(* The command runs, and dies, as long as it is the object's.              *)
LEMMA ChildOwned ==
  ASSUME Owned, OnlyOwn,
         \/ ChildRead \/ ChildReadRest \/ ChildExit \/ ChildQuit
         \/ \E s \in Streams : ChildWrite(s) \/ ChildClose(s)
  PROVE  Owned' /\ OnlyOwn'
<1>1. proc = "running" /\ proc' \in {"running", "zombie"}
  BY DEF ChildRead, ChildReadRest, ChildExit, ChildQuit, ChildWrite, ChildClose, Die
<1>2. UNCHANGED <<shutdown, terminated, mutex, fd, stray>>
  BY DEF ChildRead, ChildReadRest, ChildExit, ChildQuit, ChildWrite, ChildClose, Die,
         objVars, histVars
<1> QED BY <1>1, <1>2 DEF Owned, Unfinished, OnlyOwn

(* Reading and writing closes nothing.                                     *)
LEMMA TransferOwned ==
  ASSUME Owned, OnlyOwn, NEW t, NEW token,
         \/ BeginWrite(t) \/ EndWrite(t, token) \/ FailWrite(t)
         \/ TakeLines \/ \E s \in Streams : ReadFromPipe(s)
  PROVE  Owned' /\ OnlyOwn'
<1>1. UNCHANGED <<shutdown, terminated, mutex, fd, proc>>
  BY DEF BeginWrite, EndWrite, FailWrite, TakeLines, ReadFromPipe, objVars, childVars
<1>2. stray' \in {stray, stray \cup {"write"}}
  BY DEF BeginWrite, EndWrite, FailWrite, TakeLines, ReadFromPipe, histVars
<1>3. OnlyOwn'
  BY <1>2 DEF OnlyOwn
<1> QED BY <1>1, <1>3 DEF Owned, Unfinished

-----------------------------------------------------------------------------
(* What readLine() makes of a stream                                       *)

(* The buffer holds what the command has printed after the first k tokens, *)
(* and the pipe what it has printed after those of the buffer.             *)
Track(w, k, b, p) ==
  /\ Len(w) = k + Len(b) + Len(p)
  /\ \A i \in 1..Len(b) : w[k + i] = b[i]
  /\ \A i \in 1..Len(p) : w[k + Len(b) + i] = p[i]

(* So it is when the command prints another token,                         *)
LEMMA TrackPrinted ==
  ASSUME NEW w \in Seq(Token), NEW k \in Nat, NEW b \in Seq(Token), NEW p \in Seq(Token),
         NEW x \in Token, Track(w, k, b, p)
  PROVE  Track(Append(w, x), k, b, Append(p, x))
<1>1. Len(w) \in Nat /\ Len(b) \in Nat /\ Len(p) \in Nat
  BY LenProperties
<1>2. /\ Len(Append(w, x)) = Len(w) + 1 /\ Append(w, x)[Len(w) + 1] = x
      /\ \A i \in 1..Len(w) : Append(w, x)[i] = w[i]
  BY AppendProperties
<1>3. /\ Len(Append(p, x)) = Len(p) + 1 /\ Append(p, x)[Len(p) + 1] = x
      /\ \A i \in 1..Len(p) : Append(p, x)[i] = p[i]
  BY AppendProperties
<1> DEFINE v == Append(w, x)
           q == Append(p, x)
<1> HIDE DEF v, q
<1>4. Len(v) = k + Len(b) + Len(q)
  BY <1>1, <1>2, <1>3 DEF Track, v, q
<1>5. ASSUME NEW i \in 1..Len(b)
      PROVE  v[k + i] = b[i]
  <2>1. k + i \in 1..Len(w)
    BY <1>1 DEF Track
  <2> QED BY <1>2, <2>1 DEF Track, v
<1>6. ASSUME NEW i \in 1..Len(q)
      PROVE  v[k + Len(b) + i] = q[i]
  <2>1. CASE i = Len(p) + 1
    <3>1. k + Len(b) + i = Len(w) + 1
      BY <1>1, <2>1 DEF Track
    <3> QED BY <1>2, <1>3, <2>1, <3>1 DEF v, q
  <2>2. CASE i # Len(p) + 1
    <3>1. i \in 1..Len(p) /\ k + Len(b) + i \in 1..Len(w)
      BY <1>1, <1>3, <2>2 DEF Track, q
    <3> QED BY <1>2, <1>3, <3>1 DEF Track, v, q
  <2> QED BY <2>1, <2>2
<1>7. Track(v, k, b, q)
  BY <1>4, <1>5, <1>6 DEF Track
<1> QED BY <1>7 DEF v, q

(* when some of the pipe is read into the buffer,                          *)
LEMMA TrackMoved ==
  ASSUME NEW w \in Seq(Token), NEW k \in Nat, NEW b \in Seq(Token), NEW p \in Seq(Token),
         NEW n \in 0..Len(p), Track(w, k, b, p)
  PROVE  Track(w, k, b \o SubSeq(p, 1, n), SubSeq(p, n + 1, Len(p)))
<1> DEFINE c == SubSeq(p, 1, n)
           q == SubSeq(p, n + 1, Len(p))
<1>1. Len(w) \in Nat /\ Len(b) \in Nat /\ Len(p) \in Nat /\ n \in Nat
  BY LenProperties
<1>2. \A i \in 1..Len(p) : p[i] \in Token
  BY ElementOfSeq
<1>3. c \in Seq(Token) /\ Len(c) = n /\ \A i \in 1..n : c[i] = p[i]
  BY <1>1, <1>2, SubSeqProperties
<1>4. /\ q \in Seq(Token) /\ Len(q) = Len(p) - n
      /\ \A i \in 1..(Len(p) - n) : q[i] = p[n + i]
  <2>1. /\ Len(q) = (IF n + 1 <= Len(p) THEN Len(p) - (n + 1) + 1 ELSE 0) /\ q \in Seq(Token)
        /\ \A i \in 1..(Len(p) - (n + 1) + 1) : q[i] = p[(n + 1) + i - 1]
    BY <1>1, <1>2, SubSeqProperties
  <2> HIDE DEF q
  <2> QED BY <1>1, <2>1
<1> HIDE DEF c, q
<1>5. /\ b \o c \in Seq(Token) /\ Len(b \o c) = Len(b) + n
      /\ \A i \in 1..(Len(b) + n) : (b \o c)[i] = IF i <= Len(b) THEN b[i] ELSE c[i - Len(b)]
  BY <1>3, ConcatProperties
<1>6. Len(w) = k + Len(b \o c) + Len(q)
  BY <1>1, <1>4, <1>5 DEF Track
<1>7. ASSUME NEW i \in 1..Len(b \o c)
      PROVE  w[k + i] = (b \o c)[i]
  <2>1. CASE i <= Len(b)
    BY <1>1, <1>5, <2>1 DEF Track
  <2>2. CASE ~(i <= Len(b))
    <3>1. i - Len(b) \in 1..n /\ i - Len(b) \in 1..Len(p) /\ k + Len(b) + (i - Len(b)) = k + i
      BY <1>1, <1>5, <2>2
    <3> QED BY <1>3, <1>5, <2>2, <3>1 DEF Track
  <2> QED BY <2>1, <2>2
<1>8. ASSUME NEW i \in 1..Len(q)
      PROVE  w[k + Len(b \o c) + i] = q[i]
  <2>1. n + i \in 1..Len(p) /\ k + Len(b) + (n + i) = k + Len(b \o c) + i
    BY <1>1, <1>4, <1>5
  <2> QED BY <1>4, <2>1 DEF Track
<1>9. Track(w, k, b \o c, q)
  BY <1>6, <1>7, <1>8 DEF Track
<1> QED BY <1>9 DEF c, q

(* and when the first n tokens of the buffer are taken from it.            *)
LEMMA TrackTaken ==
  ASSUME NEW w \in Seq(Token), NEW k \in Nat, NEW b \in Seq(Token), NEW p \in Seq(Token),
         NEW n \in 0..Len(b), Track(w, k, b, p)
  PROVE  Track(w, k + n, SubSeq(b, n + 1, Len(b)), p)
<1> DEFINE c == SubSeq(b, n + 1, Len(b))
<1>1. Len(w) \in Nat /\ Len(b) \in Nat /\ Len(p) \in Nat /\ n \in Nat
  BY LenProperties
<1>2. \A i \in 1..Len(b) : b[i] \in Token
  BY ElementOfSeq
<1>3. /\ c \in Seq(Token) /\ Len(c) = Len(b) - n
      /\ \A i \in 1..(Len(b) - n) : c[i] = b[n + i]
  <2>1. /\ Len(c) = (IF n + 1 <= Len(b) THEN Len(b) - (n + 1) + 1 ELSE 0) /\ c \in Seq(Token)
        /\ \A i \in 1..(Len(b) - (n + 1) + 1) : c[i] = b[(n + 1) + i - 1]
    BY <1>1, <1>2, SubSeqProperties
  <2> HIDE DEF c
  <2>2. Len(c) = Len(b) - n /\ Len(b) - (n + 1) + 1 = Len(b) - n
    BY <1>1, <2>1
  <2>3. \A i \in 1..(Len(b) - n) : (n + 1) + i - 1 = n + i
    BY <1>1
  <2> QED BY <2>1, <2>2, <2>3
<1> HIDE DEF c
<1>4. Len(w) = (k + n) + Len(c) + Len(p)
  BY <1>1, <1>3 DEF Track
<1>5. ASSUME NEW i \in 1..Len(c)
      PROVE  w[(k + n) + i] = c[i]
  <2>1. n + i \in 1..Len(b) /\ k + (n + i) = (k + n) + i
    BY <1>1, <1>3
  <2> QED BY <1>3, <2>1 DEF Track
<1>6. ASSUME NEW i \in 1..Len(p)
      PROVE  w[(k + n) + Len(c) + i] = p[i]
  <2>1. k + Len(b) + i = (k + n) + Len(c) + i
    BY <1>1, <1>3
  <2> QED BY <2>1 DEF Track
<1>7. Track(w, k + n, c, p)
  BY <1>4, <1>5, <1>6 DEF Track
<1> QED BY <1>7 DEF c

(* Where the stream goes on after a line that began after k tokens; and    *)
(* that it is a line: it ends at the first newline, or where an unfinished *)
(* line ends with the stream.                                              *)
After(w, k, line) == IF k + Len(line) < Len(w) THEN k + Len(line) + 1 ELSE Len(w)

IsLine(w, k, line, end) ==
  /\ k + Len(line) <= Len(w)
  /\ \A i \in 1..Len(line) : w[k + i] = line[i] /\ line[i] # NL
  /\ k + Len(line) < Len(w) => w[k + Len(line) + 1] = NL
  /\ k + Len(line) = Len(w) => end /\ line # <<>>

(* What a caller of readLine() has for a stream: the first k tokens, a     *)
(* line if g is not empty, and the rest in the buffer and the pipe.        *)
Flow(w, k, g, b, p, end) ==
  /\ g = <<>> => Track(w, k, b, p)
  /\ g # <<>> => IsLine(w, k, g[1], end) /\ Track(w, After(w, k, g[1]), b, p)

(* A stream that was seen to end is empty, only a stream still held is     *)
(* printed to, and nothing printed holds a NUL, at which a chunk is cut.   *)
Plain(q) == \A i \in 1..Len(q) : q[i] # NUL

Streaming ==
  \A s \in Streams :
    /\ closed[s] => ~outEnd[s] /\ outPipe[s] = <<>>
    /\ work[s] # <<>> => outEnd[s]
    /\ Plain(work[s]) /\ Plain(outPipe[s])

PlainProgram == \A p \in Program : Plain(p.out) /\ Plain(p.err)

(* A line that is found in the buffer is taken from it.                    *)
LEMMA FlowTaken ==
  ASSUME ShellTypeOK, Streaming, NEW s \in Streams, NEW k \in Nat, TakeLines,
         Track(written[s], k, buffer[s], outPipe[s])
  PROVE  Flow(written'[s], k, IF HasLine(s) THEN <<NextLine(s)>> ELSE <<>>,
              buffer'[s], outPipe'[s], ~outEnd'[s])
<1> DEFINE w == written[s]
           b == buffer[s]
           p == outPipe[s]
           f == FirstOf(NL, b)
<1>1. /\ w \in Seq(Token) /\ b \in Seq(Token) /\ p \in Seq(Token)
      /\ Len(w) \in Nat /\ Len(b) \in Nat /\ Len(p) \in Nat
  BY LenProperties DEF ShellTypeOK
<1>2. /\ written'[s] = w /\ outPipe'[s] = p /\ outEnd'[s] = outEnd[s]
      /\ buffer'[s] = IF HasLine(s) THEN AfterLine(s) ELSE b
  BY DEF TakeLines, childVars, pipeVars
<1>3. CASE ~HasLine(s)
  BY <1>2, <1>3 DEF Flow
<1>4. CASE f # 0
  <2> DEFINE line == SubSeq(b, 1, f - 1)
             rest == SubSeq(b, f + 1, Len(b))
  <2>1. HasLine(s) /\ NextLine(s) = line /\ AfterLine(s) = rest
    BY <1>4 DEF HasLine, NextLine, AfterLine
  <2>2. \E i \in 1..Len(b) : b[i] = NL
    BY <1>1, <1>4, FirstOfNone
  <2>3. f \in 1..Len(b) /\ b[f] = NL /\ \A i \in 1..(f - 1) : b[i] # NL
    BY <1>1, <2>2, FirstOfFinds
  <2> HIDE DEF f
  <2>4. Track(w, k + f, rest, p)
    <3>1. f \in 0..Len(b)
      BY <1>1, <2>3
    <3> QED BY <1>1, <3>1, TrackTaken
  <2>5. line \in Seq(Token) /\ Len(line) = f - 1 /\ \A i \in 1..(f - 1) : line[i] = b[i]
    <3>1. \A i \in 1..(f - 1) : b[i] \in Token
      BY <1>1, <2>3, ElementOfSeq
    <3>2. /\ Len(line) = (IF 1 <= f - 1 THEN f - 1 - 1 + 1 ELSE 0) /\ line \in Seq(Token)
          /\ \A i \in 1..(f - 1 - 1 + 1) : line[i] = b[1 + i - 1]
      BY <2>3, <3>1, SubSeqProperties
    <3> HIDE DEF line
    <3> QED BY <1>1, <2>3, <3>2
  <2> HIDE DEF line, rest
  <2>6. k + Len(line) < Len(w) /\ k + Len(line) + 1 = k + f /\ After(w, k, line) = k + f
    <3>1. Len(w) = k + Len(b) + Len(p)
      BY DEF Track
    <3>2. k + Len(line) < Len(w) /\ k + Len(line) + 1 = k + f
      <4>1. \A l, m, n \in Nat : f \in 1..m /\ l = f - 1 =>
              k + l < k + m + n /\ k + l + 1 = k + f
        OBVIOUS
      <4>2. Len(line) = f - 1 /\ Len(line) \in Nat
        BY <2>3, <2>5, LenProperties
      <4> QED BY <1>1, <2>3, <3>1, <4>1, <4>2
    <3> QED BY <3>2 DEF After
  <2>7. w[k + f] = NL /\ \A i \in 1..(f - 1) : w[k + i] = b[i]
    <3>1. \A i \in 1..Len(b) : w[k + i] = b[i]
      BY DEF Track
    <3>2. \A i \in 1..(f - 1) : i \in 1..Len(b)
      BY <1>1, <2>3
    <3> HIDE DEF w, b
    <3> QED BY <2>3, <3>1, <3>2
  <2>8. IsLine(w, k, line, ~outEnd[s])
    <3>1. \A i \in 1..Len(line) : w[k + i] = line[i] /\ line[i] # NL
      BY <2>3, <2>5, <2>7
    <3>2. k + Len(line) <= Len(w) /\ ~(k + Len(line) = Len(w)) /\ w[k + Len(line) + 1] = NL
      <4>1. Len(line) \in Int
        BY <2>3, <2>5
      <4> QED BY <1>1, <2>6, <2>7, <4>1
    <3> QED BY <3>1, <3>2 DEF IsLine
  <2>9. Flow(w, k, <<line>>, rest, p, ~outEnd[s])
    BY <2>4, <2>6, <2>8 DEF Flow
  <2> QED BY <1>2, <2>1, <2>9
<1>5. CASE f = 0 /\ HasLine(s)
  <2>1. NextLine(s) = b /\ AfterLine(s) = <<>> /\ closed[s] /\ b # <<>>
    BY <1>5 DEF HasLine, NextLine, AfterLine
  <2>2. \A i \in 1..Len(b) : b[i] # NL
    BY <1>1, <1>5, FirstOfFinds
  <2>3. p = <<>> /\ ~outEnd[s] /\ Len(p) = 0
    BY <2>1 DEF Streaming
  <2>4. Len(w) = k + Len(b) /\ After(w, k, b) = Len(w)
    BY <1>1, <2>3 DEF Track, After
  <2>5. IsLine(w, k, b, ~outEnd[s])
    BY <1>1, <2>1, <2>2, <2>3, <2>4 DEF IsLine, Track
  <2>6. Track(w, Len(w), <<>>, p)
    BY <1>1, <2>3 DEF Track
  <2>7. Flow(w, k, <<b>>, <<>>, p, ~outEnd[s])
    BY <2>4, <2>5, <2>6 DEF Flow
  <2> QED BY <1>2, <1>5, <2>1, <2>7
<1> QED BY <1>3, <1>4, <1>5

(* What the command prints to it goes to the end of its pipe.              *)
LEMMA FlowPrinted ==
  ASSUME ShellTypeOK, Streaming, NEW s \in Streams, NEW r \in Streams, NEW k \in Nat, NEW g,
         g # <<>> => g[1] \in Seq(Token), ChildWrite(r),
         Flow(written[s], k, g, buffer[s], outPipe[s], ~outEnd[s])
  PROVE  Flow(written'[s], k, g, buffer'[s], outPipe'[s], ~outEnd'[s])
<1> DEFINE w == written[s]
           b == buffer[s]
           p == outPipe[s]
<1>1. /\ w \in Seq(Token) /\ b \in Seq(Token) /\ p \in Seq(Token)
      /\ Len(w) \in Nat
  BY LenProperties DEF ShellTypeOK
<1>2. buffer' = buffer /\ outEnd' = outEnd
  BY DEF ChildWrite, objVars
<1>3. CASE s # r
  <2>1. written'[s] = w /\ outPipe'[s] = p
    BY <1>3 DEF ChildWrite, ShellTypeOK
  <2> QED BY <1>2, <2>1
<1>4. CASE s = r
  <2> DEFINE x == Head(work[s])
  <2>1. work[s] \in Seq(Token) /\ work[s] # <<>> /\ x \in Token /\ outEnd[s]
    BY <1>4, HeadTailProperties DEF ChildWrite, ShellTypeOK, Streaming
  <2>2. written'[s] = Append(w, x) /\ outPipe'[s] = Append(p, x)
    BY <1>4 DEF ChildWrite, ShellTypeOK
  <2> HIDE DEF x
  <2>3. CASE g = <<>>
    <3>1. Track(Append(w, x), k, b, Append(p, x))
      BY <1>1, <2>1, <2>3, TrackPrinted DEF Flow
    <3> QED BY <1>2, <2>2, <2>3, <3>1 DEF Flow
  <2>4. CASE g # <<>>
    <3> DEFINE line == g[1]
               v == Append(w, x)
    <3>1. line \in Seq(Token) /\ Len(line) \in Nat
      BY <2>4, LenProperties
    <3>2. IsLine(w, k, line, FALSE) /\ Track(w, After(w, k, line), b, p)
      BY <2>1, <2>4 DEF Flow
    <3>3. Len(v) = Len(w) + 1 /\ \A i \in 1..Len(w) : v[i] = w[i]
      BY <1>1, <2>1, AppendProperties
    <3> HIDE DEF line, v
    <3>4. k + Len(line) < Len(w) /\ w[k + Len(line) + 1] = NL
          /\ \A i \in 1..Len(line) : w[k + i] = line[i] /\ line[i] # NL
      <4>1. k + Len(line) <= Len(w) /\ ~(k + Len(line) = Len(w))
        BY <3>2 DEF IsLine
      <4>2. k + Len(line) < Len(w)
        <5>1. Len(w) \in Nat /\ Len(line) \in Nat
          BY <1>1, <3>1
        <5>2. \A m, n \in Nat : m <= n /\ ~(m = n) => m < n
          OBVIOUS
        <5>3. k + Len(line) \in Nat
          BY <5>1
        <5> QED BY <4>1, <5>1, <5>2, <5>3
      <4> QED BY <3>2, <4>2 DEF IsLine
    <3>5. k + Len(line) + 1 \in 1..Len(w) /\ \A i \in 1..Len(line) : k + i \in 1..Len(w)
      BY <1>1, <3>1, <3>4
    <3>6. IsLine(v, k, line, ~outEnd[s])
      BY <1>1, <3>1, <3>3, <3>4, <3>5 DEF IsLine
    <3>7. After(v, k, line) = After(w, k, line) /\ After(w, k, line) \in Nat
      BY <1>1, <3>1, <3>3, <3>4 DEF After
    <3>8. Track(v, After(v, k, line), b, Append(p, x))
      BY <1>1, <2>1, <3>2, <3>7, TrackPrinted DEF v
    <3> QED BY <1>2, <2>2, <2>4, <3>6, <3>8 DEF Flow, line, v
  <2> QED BY <2>3, <2>4
<1> QED BY <1>3, <1>4

(* A read() moves a chunk from the pipe to the buffer.                     *)
LEMMA FlowRead ==
  ASSUME ShellTypeOK, Streaming, NEW s \in Streams, NEW r \in Streams, NEW k \in Nat, NEW g,
         g = <<>> \/ After(written[s], k, g[1]) \in Nat, ReadFromPipe(r),
         Flow(written[s], k, g, buffer[s], outPipe[s], ~outEnd[s])
  PROVE  Flow(written'[s], k, g, buffer'[s], outPipe'[s], ~outEnd'[s])
<1> DEFINE w == written[s]
           b == buffer[s]
           p == outPipe[s]
           count == IF Len(p) < ChunkSize THEN Len(p) ELSE ChunkSize
           chunk == SubSeq(p, 1, count)
<1>1. /\ w \in Seq(Token) /\ b \in Seq(Token) /\ p \in Seq(Token)
      /\ count \in 0..Len(p) /\ Len(p) \in Nat
  BY LenProperties, SizeAssumption DEF ShellTypeOK
<1>2. written' = written /\ outEnd' = outEnd
  BY DEF ReadFromPipe, childVars
<1>3. CASE s # r \/ closed[r]
  <2>1. buffer'[s] = b /\ outPipe'[s] = p
    BY <1>3 DEF ReadFromPipe, ShellTypeOK
  <2> QED BY <1>2, <2>1
<1>4. CASE s = r /\ ~closed[r]
  <2>1. /\ buffer'[s] = b \o CString(chunk)
        /\ outPipe'[s] = SubSeq(p, count + 1, Len(p))
    BY <1>4 DEF ReadFromPipe, ShellTypeOK
  <2> HIDE DEF count
  <2>2. /\ chunk \in Seq(Token) /\ Len(chunk) = count
        /\ \A i \in 1..count : chunk[i] = p[i]
    <3>1. \A i \in 1..count : p[i] \in Token
      BY <1>1, ElementOfSeq
    <3>2. /\ Len(chunk) = (IF 1 <= count THEN count - 1 + 1 ELSE 0) /\ chunk \in Seq(Token)
          /\ \A i \in 1..(count - 1 + 1) : chunk[i] = p[1 + i - 1]
      BY <1>1, <3>1, SubSeqProperties
    <3> HIDE DEF chunk
    <3> QED BY <1>1, <3>2
  <2> HIDE DEF chunk
  <2>3. ~ \E i \in 1..Len(chunk) : chunk[i] = NUL
    BY <1>1, <2>2 DEF Streaming, Plain
  <2>4. CString(chunk) = chunk
    BY <2>2, <2>3, FirstOfNone DEF CString
  <2>5. ASSUME NEW n \in Nat, Track(w, n, b, p)
        PROVE  Track(w, n, buffer'[s], outPipe'[s])
    BY <1>1, <2>1, <2>4, <2>5, TrackMoved DEF chunk
  <2> QED BY <1>2, <2>5 DEF Flow
<1> QED BY <1>3, <1>4

(* The end of the stream makes a line of what is left.                     *)
LEMMA FlowEnds ==
  ASSUME NEW s \in Streams, NEW k \in Nat, NEW g,
         UNCHANGED <<written, buffer, outPipe>>, outEnd'[s] => outEnd[s],
         Flow(written[s], k, g, buffer[s], outPipe[s], ~outEnd[s])
  PROVE  Flow(written'[s], k, g, buffer'[s], outPipe'[s], ~outEnd'[s])
BY DEF Flow, IsLine

(* A line that readLine() returns is one that may be delivered next: the n *)
(* tokens it takes the stream to end with a newline or with the stream.    *)
Delivers(w, k, n, line, end) ==
  /\ n \in (k + 1)..Len(w)
  /\ \A i \in (k + 1)..(n - 1) : w[i] # NL
  /\ w[n] = NL \/ (end /\ n = Len(w))
  /\ line = SubSeq(w, k + 1, IF w[n] = NL THEN n - 1 ELSE n)

(* The line that begins at token k is delivered up to its newline, or to   *)
(* the end of the stream.                                                  *)
LEMMA LineDelivered ==
  ASSUME NEW w \in Seq(Token), NEW k \in Nat, NEW line \in Seq(Token), NEW end,
         IsLine(w, k, line, end)
  PROVE  Delivers(w, k, After(w, k, line), line, end)
<1> DEFINE n == After(w, k, line)
           l == Len(line)
           m == Len(w)
<1>1. l \in Nat /\ m \in Nat
  BY LenProperties
<1>2. k + l <= m /\ \A i \in 1..l : w[k + i] = line[i] /\ line[i] # NL
  BY DEF IsLine
<1>3. ASSUME NEW j \in Nat, j = k + l
      PROVE  line = SubSeq(w, k + 1, j)
  <2> DEFINE part == SubSeq(w, k + 1, j)
  <2>1. \A i \in (k + 1)..j : w[i] \in Token
    <3>1. \A i \in (k + 1)..j : i \in 1..m
      BY <1>1, <1>2, <1>3
    <3> QED BY <3>1, ElementOfSeq
  <2>2. /\ part \in Seq(Token) /\ Len(part) = (IF k + 1 <= j THEN j - (k + 1) + 1 ELSE 0)
        /\ \A i \in 1..(j - (k + 1) + 1) : part[i] = w[(k + 1) + i - 1]
    BY <2>1, SubSeqProperties
  <2> HIDE DEF part
  <2>3. Len(part) = l /\ j - (k + 1) + 1 = l /\ \A i \in 1..l : (k + 1) + i - 1 = k + i
    <3>1. \A x, y \in Nat : y = k + x =>
            /\ (IF k + 1 <= y THEN y - (k + 1) + 1 ELSE 0) = x /\ y - (k + 1) + 1 = x
            /\ \A i \in 1..x : (k + 1) + i - 1 = k + i
      OBVIOUS
    <3> QED BY <1>1, <1>3, <2>2, <3>1
  <2>4. \A i \in 1..l : part[i] = line[i]
    BY <1>2, <2>2, <2>3
  <2>5. part = line
    BY <2>2, <2>3, <2>4, SeqEqual
  <2> QED BY <2>5 DEF part
<1>4. CASE k + l < m
  <2>1. n = k + l + 1 /\ w[n] = NL
    BY <1>4 DEF After, IsLine
  <2>2. ASSUME NEW i \in (k + 1)..(n - 1)
        PROVE  w[i] # NL
    <3>1. i - k \in 1..l /\ k + (i - k) = i
      BY <1>1, <2>1
    <3> QED BY <1>2, <3>1
  <2>3. n \in (k + 1)..m /\ n - 1 \in Nat /\ n - 1 = k + l
    BY <1>1, <1>4, <2>1
  <2> QED BY <1>3, <2>1, <2>2, <2>3 DEF Delivers
<1>5. CASE ~(k + l < m)
  <2>1. k + l = m /\ n = m
    <3>1. \A x, y \in Nat : x <= y /\ ~(x < y) => x = y
      OBVIOUS
    <3>2. k + l \in Nat
      BY <1>1
    <3>3. k + l = m
      BY <1>1, <1>2, <1>5, <3>1, <3>2
    <3> QED BY <1>5, <3>3 DEF After
  <2>2. end /\ line # <<>>
    BY <2>1 DEF IsLine
  <2>3. l # 0
    BY <2>2, EmptySeq
  <2>4. ASSUME NEW i \in (k + 1)..n
        PROVE  w[i] # NL
    <3>1. i - k \in 1..l /\ k + (i - k) = i
      BY <1>1, <2>1
    <3> QED BY <1>2, <3>1
  <2>5. n \in (k + 1)..m /\ n \in (k + 1)..n /\ \A i \in (k + 1)..(n - 1) : i \in (k + 1)..n
    BY <1>1, <2>1, <2>3
  <2> QED BY <1>1, <1>3, <2>1, <2>2, <2>4, <2>5 DEF Delivers
<1> QED BY <1>4, <1>5

(* A part of a plain text is plain.                                        *)
LEMMA PartPlain ==
  ASSUME NEW q \in Seq(Token), Plain(q), NEW n \in 0..Len(q)
  PROVE  /\ Plain(SubSeq(q, n + 1, Len(q)))
         /\ Len(q) = 0 => SubSeq(q, n + 1, Len(q)) = <<>>
<1> DEFINE c == SubSeq(q, n + 1, Len(q))
<1>1. Len(q) \in Nat
  BY LenProperties
<1>2. \A i \in 1..Len(q) : q[i] \in Token
  BY ElementOfSeq
<1>3. /\ Len(c) = (IF n + 1 <= Len(q) THEN Len(q) - (n + 1) + 1 ELSE 0) /\ c \in Seq(Token)
      /\ \A i \in 1..(Len(q) - (n + 1) + 1) : c[i] = q[(n + 1) + i - 1]
  BY <1>1, <1>2, SubSeqProperties
<1> HIDE DEF c
<1>4. Len(c) = Len(q) - n /\ \A i \in 1..Len(c) : /\ i \in 1..(Len(q) - (n + 1) + 1)
                                                  /\ (n + 1) + i - 1 \in 1..Len(q)
  BY <1>1, <1>3
<1>5. Plain(c)
  BY <1>3, <1>4 DEF Plain
<1>6. Len(q) = 0 => Len(c) = 0
  <2>1. \A l, m \in Nat : m <= l /\ l = 0 => l - m = 0
    OBVIOUS
  <2>2. n \in Nat /\ n <= Len(q)
    BY <1>1
  <2> QED BY <1>1, <1>4, <2>1, <2>2
<1>7. Len(q) = 0 => c = <<>>
  BY <1>3, <1>6, EmptySeq
<1> QED BY <1>5, <1>7 DEF c

(* The streams stay as they should be when a shell is forked whose output  *)
(* is plain, when one is read, when the command prints,                    *)
LEMMA SetupStreaming ==
  ASSUME NEW first \in [Streams -> Seq(Token)], \A s \in Streams : Plain(first[s]),
         SetupFork(first)
  PROVE  Streaming'
BY DEF SetupFork, Streaming, Plain, Nothing

(* A read from a pipe keeps what the streams hold in order.                *)
LEMMA ReadStreaming ==
  ASSUME ShellTypeOK, Streaming, NEW r \in Streams, ReadFromPipe(r)
  PROVE  Streaming'
<1> DEFINE p == outPipe[r]
           count == IF Len(p) < ChunkSize THEN Len(p) ELSE ChunkSize
<1>1. /\ p \in Seq(Token) /\ Len(p) \in Nat /\ count \in 0..Len(p)
      /\ count = 0 => Len(p) = 0
  BY LenProperties, SizeAssumption DEF ShellTypeOK
<1>2. /\ UNCHANGED <<work, outEnd>>
      /\ \A s \in Streams \ {r} : closed'[s] = closed[s] /\ outPipe'[s] = outPipe[s]
  BY DEF ReadFromPipe, childVars, ShellTypeOK
<1>3. CASE closed[r]
  BY <1>2, <1>3 DEF ReadFromPipe, Streaming
<1>4. CASE ~closed[r]
  <2>1. /\ closed'[r] = (count = 0 /\ ~outEnd[r])
        /\ outPipe'[r] = SubSeq(p, count + 1, Len(p))
    BY <1>4 DEF ReadFromPipe, ShellTypeOK
  <2> HIDE DEF count
  <2>2. Plain(SubSeq(p, count + 1, Len(p))) /\ (Len(p) = 0 => SubSeq(p, count + 1, Len(p)) = <<>>)
    BY <1>1, PartPlain DEF Streaming
  <2>3. closed'[r] => ~outEnd'[r] /\ outPipe'[r] = <<>>
    BY <1>1, <1>2, <2>1, <2>2
  <2> QED BY <1>2, <2>1, <2>2, <2>3 DEF Streaming
<1> QED BY <1>3, <1>4

(* So does the command when it prints.                                     *)
LEMMA PrintStreaming ==
  ASSUME ShellTypeOK, Streaming, NEW r \in Streams, ChildWrite(r)
  PROVE  Streaming'
<1> DEFINE q == work[r]
           p == outPipe[r]
<1>1. q \in Seq(Token) /\ q # <<>> /\ p \in Seq(Token) /\ Plain(q) /\ Plain(p) /\ outEnd[r]
  BY DEF ChildWrite, ShellTypeOK, Streaming
<1>2. /\ UNCHANGED <<closed, outEnd>> /\ work'[r] = Tail(q) /\ outPipe'[r] = Append(p, Head(q))
      /\ \A s \in Streams \ {r} : work'[s] = work[s] /\ outPipe'[s] = outPipe[s]
  BY DEF ChildWrite, ShellTypeOK, objVars
<1>3. Len(q) \in Nat /\ Len(p) \in Nat /\ Len(q) # 0
  BY <1>1, LenProperties, EmptySeq
<1>4. Plain(Tail(q))
  <2>1. Len(Tail(q)) = Len(q) - 1 /\ \A i \in 1..Len(Tail(q)) : Tail(q)[i] = q[i + 1]
    BY <1>1, HeadTailProperties
  <2>2. \A i \in 1..Len(Tail(q)) : i + 1 \in 1..Len(q)
    BY <1>3, <2>1
  <2> QED BY <1>1, <2>1, <2>2 DEF Plain
<1>5. Plain(Append(p, Head(q)))
  <2>1. Head(q) \in Token /\ Head(q) = q[1] /\ 1 \in 1..Len(q)
    BY <1>1, <1>3, HeadTailProperties
  <2>2. /\ Len(Append(p, Head(q))) = Len(p) + 1 /\ Append(p, Head(q))[Len(p) + 1] = Head(q)
        /\ \A i \in 1..Len(p) : Append(p, Head(q))[i] = p[i]
    BY <1>1, <2>1, AppendProperties
  <2>3. \A i \in 1..(Len(p) + 1) : i = Len(p) + 1 \/ i \in 1..Len(p)
    BY <1>3
  <2> QED BY <1>1, <2>1, <2>2, <2>3 DEF Plain
<1>6. ~closed[r]
  BY <1>1 DEF Streaming
<1> QED BY <1>1, <1>2, <1>4, <1>5, <1>6 DEF Streaming

(* and when it closes a stream, or all of them as it ends.                 *)
LEMMA EndStreaming ==
  ASSUME Streaming, UNCHANGED <<closed, outPipe>>,
         \A s \in Streams : \/ outEnd'[s] = FALSE /\ work'[s] = <<>>
                            \/ outEnd'[s] = outEnd[s] /\ work'[s] = work[s]
  PROVE  Streaming'
BY DEF Streaming, Plain

(* The streams stay as they should be when the command learns what to      *)
(* print next,                                                             *)
LEMMA ReplyStreaming ==
  ASSUME Streaming, PlainProgram, NEW line, UNCHANGED <<closed, outPipe, outEnd>>, Reply(line)
  PROVE  Streaming'
<1>1. CASE UNCHANGED work
  BY <1>1 DEF Streaming, Plain
<1>2. CASE \E p \in Program : work' = [s \in Streams |-> IF outEnd[s] THEN p[s] ELSE <<>>]
  <2>1. PICK p \in Program : work' = [s \in Streams |-> IF outEnd[s] THEN p[s] ELSE <<>>]
    BY <1>2
  <2>2. Plain(p["out"]) /\ Plain(p["err"]) /\ Plain(<<>>)
    BY DEF PlainProgram, Plain
  <2>3. \A s \in Streams : Plain(work'[s]) /\ (work'[s] # <<>> => outEnd[s])
    BY <2>1, <2>2 DEF Streams
  <2> QED BY <2>3 DEF Streaming, Plain
<1> QED BY <1>1, <1>2 DEF Reply

(* and when somebody is in terminate(), which may close them.              *)
LEMMA TerminateStreams ==
  ASSUME Streaming, proc # "running" => \A s \in Streams : ~outEnd[s],
         NEW t, TerminateBegin(t) \/ TerminateReturns(t) \/ WaitFails(t)
  PROVE  /\ Streaming' /\ UNCHANGED <<written, buffer, outPipe, closed>>
         /\ proc' # "running" => \A s \in Streams : ~outEnd'[s]
         /\ \A s \in Streams : outEnd'[s] => outEnd[s]
<1>1. CASE Kill(t)
  <2>1. /\ UNCHANGED <<closed, outPipe, written, buffer>>
        /\ \A s \in Streams : outEnd'[s] = FALSE /\ work'[s] = <<>>
    BY <1>1 DEF Kill, pipeVars, Nothing
  <2> QED BY <2>1, EndStreaming
<1>2. CASE ~Kill(t)
  <2>1. UNCHANGED <<closed, outPipe, written, buffer, outEnd, work>>
    BY <1>2 DEF TerminateBegin, TerminateReturns, TerminateAgain, Reap, WaitForeign, WaitFails,
       shellVars, objVars, childVars, pipeVars
  <2>2. proc' = proc \/ proc # "running"
    BY <1>2 DEF TerminateBegin, TerminateReturns, TerminateAgain, Reap, WaitForeign, WaitFails,
       shellVars, childVars
  <2> QED BY <2>1, <2>2, EndStreaming
<1> QED BY <1>1, <1>2
=============================================================================
