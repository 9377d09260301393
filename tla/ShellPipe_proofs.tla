--------------------------- MODULE ShellPipe_proofs ---------------------------
(***************************************************************************)
(* Proofs about ShellPipe.                                                 *)
(***************************************************************************)
EXTENDS ClassificationPipeline, LinuxShell_proofs

-----------------------------------------------------------------------------
(* The inductive invariant                                                 *)

(* Where a writer holds mutex_.                                            *)
Inside == {"store", "write", "writeFail", "shut", "drain", "waiting"}

Exclusion == \A w \in Writers : pc[w] \in Inside <=> portMutex = w

(* Only the writer inside writeToPipe() can be inside a write().           *)
WritingAt == \A w \in inWrite : pc[w] = "write"

(* What the holder of mutex_ has still to write of its line.               *)
Pending ==
  IF portMutex = NoThread THEN <<>>
  ELSE IF pc[portMutex] = "store" THEN Append(Payload(tuple[portMutex]), NL)
  ELSE IF pc[portMutex] \in {"write", "writeFail"} THEN rest[portMutex]
  ELSE <<>>

Accounted == accepted = (consumed \o inPipe) \o Pending

(* Nobody is in the part of process(tuple) that starts a shell late.       *)
NeverLate == \A w \in Writers : pc[w] \notin {"check", "setup", "fork", "mark"}

(* Once the destructor runs no thread is left in the operator.             *)
Deserted ==
  /\ pc[PE] \in {"destroy", "done"} => \A w \in Writers : pc[w] \in {"idle", "done"}
  /\ pc[PE] = "done" => ~Unfinished

WriteSide == NeverLate /\ Exclusion /\ WritingAt /\ Accounted
ShellSide == Owned /\ OnlyOwn

IInv == TypeOK /\ WriteSide /\ ShellSide /\ Deserted

-----------------------------------------------------------------------------
(* Types                                                                   *)

USE DEF Threads, Reader, PE

(* The labels of different threads do not matter to one another, and no    *)
(* two threads have one name.                                              *)
LEMMA ThreadsDiffer ==
  /\ Reader # PE /\ NoThread # Reader /\ NoThread # PE
  /\ \A w \in Writers : w # Reader /\ w # PE /\ w # NoThread
BY ThreadAssumption DEF NoThread

(* Initially every variable has its type.                                  *)
THEOREM TypeInit == Init => TypeOK
<1> SUFFICES ASSUME Init PROVE TypeOK
  OBVIOUS
<1>1. ShellTypeOK
  BY NothingType DEF Init, ShellInit, ShellTypeOK
<1>2. /\ pc \in [Threads -> {"idle", "spin", "test", "up"}]
      /\ pc[Reader] \in {"spin", "test"} /\ pc[PE] = "up"
      /\ \A w \in Writers : pc[w] = "idle"
  BY ThreadsDiffer DEF Init
<1>3. ThreadTypeOK
  BY <1>2 DEF Init, ShellInit, ThreadTypeOK, WriterLabels, ReaderLabels, PELabels
<1>4. InputTypeOK
  <2>1. /\ rest \in [Writers -> Seq(Token)] /\ accepted \in Seq(Token)
    BY NothingType DEF Init
  <2>2. /\ sent = 0 /\ windows = 0 /\ tuple = [w \in Writers |-> 0]
        /\ portMutex = NoThread /\ inputTuple = <<0, 0>>
    BY DEF Init
  <2> QED BY <1>2, <2>1, <2>2, BoundAssumption DEF InputTypeOK
<1>5. OutputTypeOK
  <2>1. /\ got \in [Streams -> Seq(Seq(Token))]
        /\ emitted \in Seq([port : {"out", "err", "window", "final"}, line : Seq(Token),
                            from : (0..MaxTuples) \X (0..MaxTuples)])
    BY NothingType DEF Init, Nothing
  <2>2. copied = 0 /\ taken = [s \in Streams |-> 0]
    BY DEF Init
  <2> QED BY <1>2, <2>1, <2>2, BoundAssumption DEF OutputTypeOK
<1>6. FlagTypeOK
  BY DEF Init, FlagTypeOK
<1> QED BY <1>1, <1>3, <1>4, <1>5, <1>6 DEF TypeOK

-----------------------------------------------------------------------------
(* What a step leaves alone keeps its type.                                *)

(* What leaves the shell alone keeps its types, ...                        *)
LEMMA ShellFrame == ShellTypeOK /\ UNCHANGED shellVars => ShellTypeOK'
BY DEF ShellTypeOK, shellVars, objVars, childVars, pipeVars, histVars

(* ... and likewise for the flags.                                         *)
LEMMA FlagFrame ==
  FlagTypeOK /\ UNCHANGED <<aborted, shutdownRequested, finalSent, firstTuple, drained>>
    => FlagTypeOK'
BY DEF FlagTypeOK

(* The program counters of the writers matter to the types of the input,   *)
(* and that of the reader to those of the output.                          *)
LEMMA InputFrame ==
  InputTypeOK /\ UNCHANGED <<upVars, portVars>> /\ (\A w \in Writers : pc'[w] = pc[w])
    => InputTypeOK'
BY DEF InputTypeOK, upVars, portVars

(* The output depends on the label of the reader only.                     *)
LEMMA OutputFrame ==
  OutputTypeOK /\ UNCHANGED outVars /\ pc'[Reader] = pc[Reader] => OutputTypeOK'
BY DEF OutputTypeOK, outVars, Port

(* A thread that goes to one of its labels, while the others stay.         *)
LEMMA WriterGoes ==
  ASSUME ThreadTypeOK, NEW w \in Writers, NEW label \in WriterLabels, Goto(w, label)
  PROVE  /\ pc' \in [Threads -> WriterLabels \cup ReaderLabels \cup PELabels]
         /\ pc'[w] = label /\ \A x \in Writers \ {w} : pc'[x] = pc[x]
         /\ pc'[Reader] = pc[Reader] /\ pc'[PE] = pc[PE]
         /\ \A x \in Writers : pc'[x] \in WriterLabels
BY ThreadsDiffer DEF ThreadTypeOK, Goto

(* The reader goes to one of its labels.                                   *)
LEMMA ReaderGoes ==
  ASSUME ThreadTypeOK, NEW label \in ReaderLabels, Goto(Reader, label)
  PROVE  /\ pc' \in [Threads -> WriterLabels \cup ReaderLabels \cup PELabels]
         /\ pc'[Reader] = label /\ pc'[PE] = pc[PE] /\ \A x \in Writers : pc'[x] = pc[x]
BY ThreadsDiffer DEF ThreadTypeOK, Goto

(* The thread of the runtime goes to one of its labels.                    *)
LEMMA PEGoes ==
  ASSUME ThreadTypeOK, NEW label \in PELabels, Goto(PE, label)
  PROVE  /\ pc' \in [Threads -> WriterLabels \cup ReaderLabels \cup PELabels]
         /\ pc'[PE] = label /\ pc'[Reader] = pc[Reader] /\ \A x \in Writers : pc'[x] = pc[x]
BY ThreadsDiffer DEF ThreadTypeOK, Goto

-----------------------------------------------------------------------------
(* The steps of a writer                                                   *)

(* A tuple that arrives.                                                   *)
LEMMA ReceiveType ==
  ASSUME TypeOK, NEW w \in Writers, Receive(w)
  PROVE  TypeOK'
<1> USE DEF TypeOK, Receive
<1>1. PICK label \in {"check", "enter"} : Goto(w, label)
  OBVIOUS
<1>2. label \in WriterLabels
  BY DEF WriterLabels
<1>3. ThreadTypeOK'
  BY <1>1, <1>2, WriterGoes DEF ThreadTypeOK, runVars, shellVars, objVars, pipeVars
<1>4. InputTypeOK'
  <2>1. pc'[w] = label /\ \A x \in Writers \ {w} : pc'[x] = pc[x]
    BY <1>1, <1>2, WriterGoes
  <2>2. sent' \in 0..MaxTuples /\ sent' # 0 /\ windows' \in 0..MaxWindows
    BY BoundAssumption DEF InputTypeOK
  <2>3. /\ tuple' \in [Writers -> 0..MaxTuples]
        /\ tuple'[w] = sent' /\ \A x \in Writers \ {w} : tuple'[x] = tuple[x]
    BY <2>2 DEF InputTypeOK
  <2> QED BY <2>1, <2>2, <2>3 DEF InputTypeOK, portVars
<1>5. OutputTypeOK'
  BY <1>1, <1>2, WriterGoes, OutputFrame
<1>6. FlagTypeOK'
  BY FlagFrame DEF runVars, portVars, outVars
<1> QED BY <1>3, <1>4, <1>5, <1>6, ShellFrame

(* The first tuple, with initOnFirstTuple.                                 *)
LEMMA StartShellType ==
  ASSUME TypeOK, NEW w \in Writers, StartShell(w)
  PROVE  TypeOK'
<1> USE DEF TypeOK, StartShell
<1>1. /\ pc[w] \in {"check", "setup", "fork", "mark"}
      /\ \E label \in {"enter", "setup", "fork", "mark"} : Goto(w, label)
      /\ UNCHANGED <<mutex, inWrite>>
  BY DEF CheckFirst, At, SetupBegin, SetupFork, shellVars, objVars, pipeVars
<1>2. PICK label \in {"enter", "setup", "fork", "mark"} : Goto(w, label)
  BY <1>1
<1>3. label \in WriterLabels
  BY DEF WriterLabels
<1>4. ThreadTypeOK'
  BY <1>1, <1>2, <1>3, WriterGoes DEF ThreadTypeOK, runVars
<1>5. InputTypeOK'
  BY <1>1, <1>2, <1>3, WriterGoes DEF InputTypeOK, upVars
<1>6. OutputTypeOK'
  BY <1>2, <1>3, WriterGoes, OutputFrame
<1>7. FlagTypeOK'
  BY DEF FlagTypeOK, CheckFirst, runVars, upVars, outVars
<1>8. ShellTypeOK'
  BY ShellFrame, NothingType, SetupBeginType, SetupForkType DEF CheckFirst
<1> QED BY <1>4, <1>5, <1>6, <1>7, <1>8

(* Taking mutex_.                                                          *)
LEMMA EnterType ==
  ASSUME TypeOK, NEW w \in Writers, Enter(w)
  PROVE  TypeOK'
<1> USE DEF TypeOK, Enter
<1>1. "store" \in WriterLabels
  BY DEF WriterLabels
<1>2. ThreadTypeOK'
  BY <1>1, WriterGoes DEF ThreadTypeOK, runVars, shellVars, objVars, pipeVars
<1>3. tuple[w] \in 1..MaxTuples
  BY BoundAssumption DEF InputTypeOK, At
<1>4. accepted' \in Seq(Token)
  <2>1. Append(Payload(tuple[w]), NL) \in Seq(Token)
    BY <1>3, PayloadAssumption, AppendProperties DEF Token
  <2> QED BY <2>1, ConcatProperties DEF InputTypeOK
<1>5. InputTypeOK'
  <2>1. pc'[w] = "store" /\ \A x \in Writers \ {w} : pc'[x] = pc[x]
    BY <1>1, WriterGoes
  <2>2. inputTuple' \in (0..MaxTuples) \X (0..MaxTuples)
    <3>1. inputTuple \in (0..MaxTuples) \X (0..MaxTuples) /\ tuple[w] \in 0..MaxTuples
      BY DEF InputTypeOK
    <3>2. inputTuple' = [inputTuple EXCEPT ![1] = tuple[w]]
      OBVIOUS
    <3> QED BY <3>1, <3>2
  <2>3. portMutex' = w /\ UNCHANGED <<rest, sent, tuple, windows>>
    BY DEF upVars
  <2>4. tuple[w] # 0
    BY <1>3, BoundAssumption
  <2> HIDE DEF Enter
  <2>5. \A x \in Writers :
           /\ pc'[x] \in {"check", "setup", "fork", "mark", "enter", "store"} => tuple'[x] # 0
           /\ pc'[x] = "write" => rest'[x] # <<>>
    BY <2>1, <2>3, <2>4 DEF InputTypeOK
  <2>6. /\ sent' \in 0..MaxTuples /\ windows' \in 0..MaxWindows /\ portMutex' \in Writers \cup {NoThread}
        /\ tuple' \in [Writers -> 0..MaxTuples] /\ rest' \in [Writers -> Seq(Token)]
    BY <2>3 DEF InputTypeOK
  <2> QED BY <1>4, <2>2, <2>5, <2>6 DEF InputTypeOK
<1>6. OutputTypeOK'
  BY <1>1, WriterGoes, OutputFrame
<1>7. FlagTypeOK'
  BY FlagFrame DEF runVars, upVars, outVars
<1> QED BY <1>2, <1>5, <1>6, <1>7, ShellFrame

(* The end of the assignment of inputTuple.                                *)
LEMMA StoreType ==
  ASSUME TypeOK, NEW w \in Writers, Store(w)
  PROVE  TypeOK'
<1> USE DEF TypeOK, Store
<1>1. "write" \in WriterLabels
  BY DEF WriterLabels
<1>2. ThreadTypeOK'
  BY <1>1, WriterGoes DEF ThreadTypeOK, runVars, shellVars, objVars, pipeVars
<1>3. tuple[w] \in 1..MaxTuples
  BY BoundAssumption DEF InputTypeOK, At
<1>4. Append(Payload(tuple[w]), NL) \in Seq(Token) /\ Append(Payload(tuple[w]), NL) # <<>>
  BY <1>3, PayloadAssumption, AppendProperties DEF Token
<1>5. InputTypeOK'
  <2>1. pc'[w] = "write" /\ \A x \in Writers \ {w} : pc'[x] = pc[x]
    BY <1>1, WriterGoes
  <2>2. inputTuple' \in (0..MaxTuples) \X (0..MaxTuples)
    <3>1. inputTuple \in (0..MaxTuples) \X (0..MaxTuples) /\ tuple[w] \in 0..MaxTuples
      BY DEF InputTypeOK
    <3>2. inputTuple' = [inputTuple EXCEPT ![2] = tuple[w]]
      OBVIOUS
    <3> QED BY <3>1, <3>2
  <2>3. /\ rest' \in [Writers -> Seq(Token)]
        /\ rest'[w] # <<>> /\ \A x \in Writers \ {w} : rest'[x] = rest[x]
    BY <1>4 DEF InputTypeOK
  <2> QED BY <2>1, <2>2, <2>3 DEF InputTypeOK, upVars
<1>6. OutputTypeOK'
  BY <1>1, WriterGoes, OutputFrame
<1>7. FlagTypeOK'
  BY FlagFrame DEF runVars, upVars, outVars
<1> QED BY <1>2, <1>5, <1>6, <1>7, ShellFrame

(* A write() of a token.                                                   *)
LEMMA WriteStepType ==
  ASSUME TypeOK, NEW w \in Writers, WriteBegin(w) \/ WriteEnd(w) \/ WriteFail(w)
  PROVE  TypeOK'
<1> USE DEF TypeOK
<1>1. CASE WriteBegin(w)
  <2>1. ShellTypeOK'
    BY <1>1, WriteType DEF WriteBegin, Token
  <2>2. ThreadTypeOK'
    BY <1>1 DEF WriteBegin, BeginWrite, ThreadTypeOK, opVars, runVars, objVars
  <2> QED
    BY <1>1, <2>1, <2>2, FlagFrame, InputFrame, OutputFrame
    DEF WriteBegin, opVars, runVars, upVars, portVars, outVars
<1>2. CASE WriteEnd(w)
  <2> USE DEF WriteEnd
  <2>1. rest[w] \in Seq(Token) /\ rest[w] # <<>>
    BY <1>2 DEF InputTypeOK, At
  <2>2. Head(rest[w]) \in Token /\ Tail(rest[w]) \in Seq(Token)
    BY <2>1, HeadTailProperties
  <2>3. ShellTypeOK'
    BY <1>2, <2>2, WriteType
  <2>4. /\ rest' \in [Writers -> Seq(Token)]
        /\ rest'[w] = Tail(rest[w]) /\ \A x \in Writers \ {w} : rest'[x] = rest[x]
    BY <1>2, <2>2 DEF InputTypeOK
  <2>5. "idle" \in WriterLabels
    BY DEF WriterLabels
  <2>6. /\ pc' \in [Threads -> WriterLabels \cup ReaderLabels \cup PELabels]
        /\ pc'[w] \in {"idle", pc[w]} /\ \A x \in Writers \ {w} : pc'[x] = pc[x]
        /\ pc'[Reader] = pc[Reader] /\ pc'[PE] = pc[PE]
    BY <1>2, <2>5, WriterGoes DEF ThreadTypeOK
  <2>7. Tail(rest[w]) = <<>> => pc'[w] = "idle"
    BY <1>2, <2>5, WriterGoes DEF LastWrite
  <2>8. mutex' = mutex /\ inWrite' \subseteq Writers
    BY <1>2 DEF EndWrite, objVars, ThreadTypeOK
  <2>9. ThreadTypeOK'
    BY <1>2, <2>5, <2>6, <2>8 DEF ThreadTypeOK, runVars
  <2>10. portMutex' \in Writers \cup {NoThread}
    BY <1>2 DEF InputTypeOK
  <2>11. InputTypeOK'
    BY <1>2, <2>4, <2>6, <2>7, <2>10 DEF InputTypeOK, upVars
  <2> QED BY <1>2, <2>3, <2>6, <2>9, <2>11, FlagFrame, OutputFrame DEF runVars, upVars, outVars
<1>3. CASE WriteFail(w)
  <2> USE DEF WriteFail
  <2>1. "writeFail" \in WriterLabels
    BY DEF WriterLabels
  <2>2. ShellTypeOK'
    BY <1>3, WriteType DEF Token
  <2>3. mutex' = mutex /\ inWrite' \subseteq Writers
    BY <1>3 DEF FailWrite, objVars, ThreadTypeOK
  <2>4. ThreadTypeOK'
    BY <1>3, <2>1, <2>3, WriterGoes DEF ThreadTypeOK, opVars, runVars
  <2>5. InputTypeOK'
    <3>1. pc'[w] = "writeFail" /\ \A x \in Writers \ {w} : pc'[x] = pc[x]
      BY <1>3, <2>1, WriterGoes
    <3> QED BY <1>3, <3>1 DEF InputTypeOK, opVars, upVars, portVars
  <2>6. OutputTypeOK'
    BY <1>3, <2>1, WriterGoes, OutputFrame DEF opVars
  <2> QED BY <1>3, <2>2, <2>4, <2>5, <2>6, FlagFrame DEF opVars, runVars, upVars, portVars, outVars
<1> QED BY <1>1, <1>2, <1>3

(* No step of terminate() leaves mutex_ to a thread other than its own.    *)
LEMMA TerminateMutex ==
  ASSUME NEW t, TerminateBegin(t) \/ TerminateReturns(t) \/ WaitFails(t)
  PROVE  mutex' \in {t, NoThread, mutex} /\ inWrite' = inWrite
BY DEF TerminateBegin, TerminateReturns, TerminateAgain, Reap, Kill, WaitForeign, WaitFails,
       shellVars, objVars, pipeVars

(* terminate() after a failed write.                                       *)
LEMMA WriterTerminateType ==
  ASSUME TypeOK, NEW w \in Writers, WriterTerminate(w)
  PROVE  TypeOK'
<1> USE DEF TypeOK, WriterTerminate
<1>1. ShellTypeOK'
  BY TerminateType
<1>2. ThreadTypeOK'
  BY TerminateMutex DEF ThreadTypeOK
<1>3. FlagTypeOK'
  BY DEF FlagTypeOK, Abort, upVars, portVars, outVars
<1> QED BY <1>1, <1>2, <1>3, InputFrame, OutputFrame

(* Punctuation.                                                            *)
LEMMA PunctuationType ==
  ASSUME TypeOK, NEW w \in Writers,
         WindowMarker(w) \/ FinalMarker(w) \/ FinalShutdown(w) \/ AwaitDrained(w)
  PROVE  TypeOK'
<1> USE DEF TypeOK
<1>0. {"shut", "drain", "waiting", "done"} \subseteq WriterLabels
  BY DEF WriterLabels
<1>1. CASE WindowMarker(w)
  <2> USE DEF WindowMarker
  <2>1. windows' \in 0..MaxWindows
    BY <1>1, BoundAssumption DEF InputTypeOK
  <2>2. InputTypeOK'
    BY <1>1, <2>1 DEF InputTypeOK, portVars
  <2>3. ThreadTypeOK'
    BY <1>1 DEF ThreadTypeOK, runVars, shellVars, objVars, pipeVars
  <2> QED
    BY <1>1, <2>2, <2>3, ShellFrame, FlagFrame, OutputFrame DEF runVars, portVars, outVars
<1>2. CASE FinalMarker(w)
  <2> USE DEF FinalMarker
  <2>1. Goto(w, "shut") /\ "shut" \in WriterLabels
    BY <1>0, <1>2
  <2>2. ThreadTypeOK'
    BY <1>2, <2>1, WriterGoes DEF ThreadTypeOK, runVars, shellVars, objVars, pipeVars
  <2>3. InputTypeOK'
    <3>1. pc'[w] = "shut" /\ \A x \in Writers \ {w} : pc'[x] = pc[x]
      BY <2>1, WriterGoes
    <3> QED BY <1>2, <3>1 DEF InputTypeOK
  <2>4. OutputTypeOK'
    BY <1>2, <2>1, WriterGoes, OutputFrame
  <2>5. FlagTypeOK'
    BY <1>2 DEF FlagTypeOK, runVars, outVars
  <2> QED BY <1>2, <2>2, <2>3, <2>4, <2>5, ShellFrame
<1>3. CASE FinalShutdown(w)
  <2> USE DEF FinalShutdown
  <2>1. Goto(w, "drain") /\ "drain" \in WriterLabels
    BY <1>0, <1>3
  <2>2. mutex' = mutex /\ inWrite' = inWrite
    BY <1>3 DEF ShutdownShell, pipeVars
  <2>3. ThreadTypeOK'
    BY <1>3, <2>1, <2>2, WriterGoes DEF ThreadTypeOK, opVars, runVars
  <2>4. InputTypeOK'
    <3>1. pc'[w] = "drain" /\ \A x \in Writers \ {w} : pc'[x] = pc[x]
      BY <2>1, WriterGoes
    <3> QED BY <1>3, <3>1 DEF InputTypeOK, opVars, upVars, portVars
  <2>5. OutputTypeOK'
    BY <1>3, <2>1, WriterGoes, OutputFrame DEF opVars
  <2>6. FlagTypeOK'
    BY <1>3, FlagFrame DEF opVars, runVars, upVars, portVars, outVars
  <2> QED BY <1>3, <2>3, <2>4, <2>5, <2>6, ShutdownType
<1>4. CASE AwaitDrained(w)
  <2> USE DEF AwaitDrained
  <2>1. PICK label \in {"done", "waiting"} : Goto(w, label)
    BY <1>4
  <2>2. label \in WriterLabels
    BY <1>0
  <2>3. ThreadTypeOK'
    BY <1>4, <2>1, <2>2, WriterGoes DEF ThreadTypeOK, runVars, shellVars, objVars, pipeVars
  <2>4. InputTypeOK'
    <3>1. pc'[w] = label /\ \A x \in Writers \ {w} : pc'[x] = pc[x]
      BY <2>1, <2>2, WriterGoes
    <3>2. portMutex' \in Writers \cup {NoThread}
      BY <1>4 DEF InputTypeOK
    <3> QED BY <1>4, <3>1, <3>2 DEF InputTypeOK, upVars
  <2>5. OutputTypeOK'
    <3> DEFINE Out == [port : {"out", "err", "window", "final"}, line : Seq(Token),
                       from : (0..MaxTuples) \X (0..MaxTuples)]
    <3>1. Punct("window") \in Out /\ Punct("final") \in Out
      BY NothingType, BoundAssumption DEF Punct
    <3> HIDE DEF Out
    <3>2. emitted \in Seq(Out)
      BY DEF OutputTypeOK, Out
    <3>3. <<Punct("window"), Punct("final")>> \in Seq(Out)
      BY <3>1
    <3>4. emitted' \in Seq(Out)
      BY <1>4, <3>2, <3>3, ConcatProperties
    <3>5. pc'[Reader] = pc[Reader]
      BY <2>1, <2>2, WriterGoes
    <3> QED BY <1>4, <3>4, <3>5 DEF OutputTypeOK, Port, Out
  <2>6. FlagTypeOK'
    BY <1>4, FlagFrame DEF runVars, upVars
  <2> QED BY <1>4, <2>3, <2>4, <2>5, <2>6, ShellFrame
<1> QED BY <1>1, <1>2, <1>3, <1>4

-----------------------------------------------------------------------------
(* The steps of the reader                                                 *)

(* A step of the reader that changes no variable of the operator and does  *)
(* not lead to the submission of a line.                                   *)
LEMMA ReaderMoves ==
  ASSUME TypeOK, NEW label \in ReaderLabels \ {"copy", "submit"}, Goto(Reader, label),
         UNCHANGED opVars, ShellTypeOK',
         mutex' \in {Reader, NoThread, mutex}, inWrite' = inWrite
  PROVE  TypeOK'
<1>1. /\ pc' \in [Threads -> WriterLabels \cup ReaderLabels \cup PELabels]
      /\ pc'[Reader] = label /\ pc'[PE] = pc[PE] /\ \A x \in Writers : pc'[x] = pc[x]
  BY ReaderGoes DEF TypeOK
<1>2. ThreadTypeOK'
  BY <1>1 DEF ThreadTypeOK, TypeOK
<1>3. UNCHANGED <<runVars, upVars, portVars, outVars>>
  BY DEF opVars
<1>4. FlagTypeOK'
  BY <1>3, FlagFrame DEF TypeOK, runVars, upVars, portVars, outVars
<1>5. InputTypeOK'
  BY <1>1, <1>3, InputFrame DEF TypeOK
<1>6. OutputTypeOK'
  BY <1>1, <1>3 DEF TypeOK, OutputTypeOK, outVars
<1> QED BY <1>2, <1>4, <1>5, <1>6 DEF TypeOK

(* Steps that move the reader only.                                        *)
LEMMA ReaderMovesType ==
  ASSUME TypeOK, Spin \/ TestShutdown \/ ReadMore \/ Select
  PROVE  TypeOK'
<1>1. PICK label \in {"test", "drain", "read", "fail", "select", "readOut"} : Goto(Reader, label)
  BY DEF Spin, TestShutdown, ReadMore, Select
<1>2. label \in ReaderLabels \ {"copy", "submit"}
  BY DEF ReaderLabels
<1>3. UNCHANGED <<opVars, shellVars>>
  BY DEF Spin, TestShutdown, ReadMore, Select
<1>4. mutex' = mutex /\ inWrite' = inWrite
  BY <1>3 DEF shellVars, objVars, pipeVars
<1> QED BY <1>1, <1>2, <1>3, <1>4, ReaderMoves, ShellFrame DEF TypeOK

(* A read() of a stream.                                                   *)
LEMMA ReadStreamType ==
  ASSUME TypeOK, NEW s \in Streams, NEW here, NEW next \in {"readErr", "read"},
         ReadStream(here, s, next)
  PROVE  TypeOK'
<1>1. PICK label \in {next, "fail"} : Goto(Reader, label)
  BY DEF ReadStream
<1>2. label \in ReaderLabels \ {"copy", "submit"}
  BY DEF ReaderLabels
<1>3. ShellTypeOK'
  BY ReadFromPipeType, ShellFrame DEF ReadStream, TypeOK
<1>4. mutex' = mutex /\ inWrite' = inWrite
  BY DEF ReadStream, ReadFromPipe, shellVars, objVars, pipeVars
<1>5. UNCHANGED opVars
  BY DEF ReadStream
<1> QED BY <1>1, <1>2, <1>3, <1>4, <1>5, ReaderMoves

(* Taking lines from the buffers.                                          *)
LEMMA ReadBufferedType == TypeOK /\ ReadBuffered => TypeOK'
<1> SUFFICES ASSUME TypeOK, ReadBuffered PROVE TypeOK'
  OBVIOUS
<1>1. "copy" \in ReaderLabels /\ Goto(Reader, "copy")
  BY DEF ReaderLabels, ReadBuffered
<1>2. /\ pc' \in [Threads -> WriterLabels \cup ReaderLabels \cup PELabels]
      /\ pc'[Reader] = "copy" /\ pc'[PE] = pc[PE] /\ \A x \in Writers : pc'[x] = pc[x]
  BY <1>1, ReaderGoes DEF TypeOK
<1>3. ShellTypeOK' /\ mutex' = mutex /\ inWrite' = inWrite
  BY TakeLinesType DEF TypeOK, ReadBuffered, TakeLines, pipeVars
<1>4. ThreadTypeOK'
  <2>1. UNCHANGED runVars
    BY DEF ReadBuffered
  <2> QED BY <1>1, <1>2, <1>3, <2>1 DEF ThreadTypeOK, TypeOK, runVars
<1>5. FlagTypeOK'
  BY FlagFrame DEF TypeOK, ReadBuffered, runVars, upVars, portVars
<1>6. InputTypeOK'
  BY <1>2, InputFrame DEF TypeOK, ReadBuffered
<1>7. got' \in [Streams -> Seq(Seq(Token))]
  <2>1. \A s \in Streams : NextLine(s) \in Seq(Token)
    BY LineType DEF TypeOK
  <2>2. \A s \in Streams : <<NextLine(s)>> \in Seq(Seq(Token)) /\ <<>> \in Seq(Seq(Token))
    BY <2>1
  <2> QED BY <2>2 DEF ReadBuffered
<1>8. got'[Port'] # <<>>
  <2>1. PICK s \in Streams : HasLine(s)
    BY DEF ReadBuffered, TakeLines
  <2>2. got'[s] # <<>>
    BY <2>1 DEF ReadBuffered
  <2> QED BY <2>2 DEF Port, Streams
<1>9. OutputTypeOK'
  BY <1>7, <1>8 DEF OutputTypeOK, TypeOK, ReadBuffered
<1> QED BY <1>3, <1>4, <1>5, <1>6, <1>9 DEF TypeOK

(* terminate() after the end of the streams, and the last one.             *)
LEMMA ReaderTerminateType ==
  ASSUME TypeOK, ReaderTerminate \/ ReaderFinish
  PROVE  TypeOK'
<1>1. ShellTypeOK' /\ mutex' \in {Reader, NoThread, mutex} /\ inWrite' = inWrite
  BY TerminateType, TerminateMutex DEF TypeOK, ReaderTerminate, ReaderFinish, LastTerminate
<1>2. ThreadTypeOK /\ pc' = pc => ThreadTypeOK'
  BY <1>1 DEF ThreadTypeOK, TypeOK, ReaderTerminate, ReaderFinish, LastTerminate, Abort, opVars, runVars
<1>3. CASE ReaderTerminate /\ pc' = pc
  BY <1>1, <1>2, <1>3, FlagFrame, InputFrame, OutputFrame
  DEF TypeOK, ReaderTerminate, opVars, runVars, upVars, portVars, outVars
<1>4. CASE ReaderTerminate /\ pc' # pc
  <2>1. PICK label \in {"drain", "caught"} : Goto(Reader, label)
    BY <1>4 DEF ReaderTerminate, ReadVerdict
  <2>2. label \in ReaderLabels \ {"copy", "submit"}
    BY DEF ReaderLabels
  <2> QED BY <1>1, <1>4, <2>1, <2>2, ReaderMoves DEF ReaderTerminate
<1>5. CASE ReaderFinish
  <2> USE DEF ReaderFinish, LastTerminate
  <2>1. FlagTypeOK'
    BY <1>5 DEF TypeOK, FlagTypeOK, Abort, upVars, portVars, outVars
  <2>2. CASE pc' = pc
    BY <1>1, <1>2, <1>5, <2>1, <2>2, InputFrame, OutputFrame DEF TypeOK
  <2>3. CASE Goto(Reader, "done")
    <3>1. "done" \in ReaderLabels
      BY DEF ReaderLabels
    <3>2. /\ pc' \in [Threads -> WriterLabels \cup ReaderLabels \cup PELabels]
          /\ pc'[Reader] = "done" /\ pc'[PE] = pc[PE] /\ \A x \in Writers : pc'[x] = pc[x]
      BY <2>3, <3>1, ReaderGoes DEF TypeOK
    <3>3. ThreadTypeOK'
      BY <1>1, <1>5, <3>1, <3>2 DEF ThreadTypeOK, TypeOK
    <3>4. OutputTypeOK'
      BY <1>5, <3>2 DEF OutputTypeOK, TypeOK, outVars
    <3> QED BY <1>1, <1>5, <2>1, <3>2, <3>3, <3>4, InputFrame DEF TypeOK
  <2> QED BY <1>5, <2>2, <2>3
<1> QED BY <1>3, <1>4, <1>5

(* The handler of the exception.                                           *)
LEMMA CaughtType == TypeOK /\ Caught => TypeOK'
<1> SUFFICES ASSUME TypeOK, Caught PROVE TypeOK'
  OBVIOUS
<1>1. FlagTypeOK'
  BY DEF TypeOK, FlagTypeOK, Caught, Abort, upVars, portVars, outVars
<1>2. "drain" \in ReaderLabels
  BY DEF ReaderLabels
<1>3. /\ pc' \in [Threads -> WriterLabels \cup ReaderLabels \cup PELabels]
      /\ pc'[Reader] \in {"drain", pc[Reader]} /\ pc'[PE] = pc[PE]
      /\ \A x \in Writers : pc'[x] = pc[x]
  BY <1>2, ReaderGoes DEF Caught, TypeOK, ThreadTypeOK
<1>4. ThreadTypeOK'
  BY <1>2, <1>3 DEF ThreadTypeOK, TypeOK, Caught, shellVars, objVars, pipeVars
<1>5. OutputTypeOK'
  BY <1>3 DEF OutputTypeOK, TypeOK, Caught, outVars, Port
<1> QED BY <1>1, <1>3, <1>4, <1>5, ShellFrame, InputFrame DEF TypeOK, Caught

(* Copying attributes of the input tuple.                                  *)
LEMMA CopyAttributesType == TypeOK /\ CopyAttributes => TypeOK'
<1> SUFFICES ASSUME TypeOK, CopyAttributes PROVE TypeOK'
  OBVIOUS
<1> USE DEF CopyAttributes
<1>1. "submit" \in ReaderLabels
  BY DEF ReaderLabels
<1>2. /\ pc' \in [Threads -> WriterLabels \cup ReaderLabels \cup PELabels]
      /\ pc'[Reader] = "submit" /\ pc'[PE] = pc[PE] /\ \A x \in Writers : pc'[x] = pc[x]
  BY <1>1, ReaderGoes DEF TypeOK
<1>3. ThreadTypeOK'
  BY <1>1, <1>2 DEF ThreadTypeOK, TypeOK, runVars, shellVars, objVars, pipeVars
<1>4. FlagTypeOK'
  BY FlagFrame DEF TypeOK, runVars, upVars, portVars
<1>5. copied' \in 0..MaxTuples
  BY DEF TypeOK, InputTypeOK
<1>6. OutputTypeOK'
  BY <1>2, <1>5 DEF OutputTypeOK, TypeOK, At, Port
<1> QED BY <1>2, <1>3, <1>4, <1>6, ShellFrame, InputFrame DEF TypeOK

(* Submitting a tuple.                                                     *)
LEMMA SubmitType == TypeOK /\ Submit => TypeOK'
<1> SUFFICES ASSUME TypeOK, Submit PROVE TypeOK'
  OBVIOUS
<1> USE DEF Submit
<1>1. PICK label \in {"copy", "test"} : Goto(Reader, label)
  OBVIOUS
<1>2. label \in ReaderLabels
  BY DEF ReaderLabels
<1>3. /\ pc' \in [Threads -> WriterLabels \cup ReaderLabels \cup PELabels]
      /\ pc'[Reader] = label /\ pc'[PE] = pc[PE] /\ \A x \in Writers : pc'[x] = pc[x]
  BY <1>1, <1>2, ReaderGoes DEF TypeOK
<1>4. ThreadTypeOK'
  BY <1>2, <1>3 DEF ThreadTypeOK, TypeOK, runVars, shellVars, objVars, pipeVars
<1>5. FlagTypeOK'
  BY FlagFrame DEF TypeOK, runVars, upVars, portVars
<1>6. Port \in Streams /\ got[Port] \in Seq(Seq(Token)) /\ got[Port] # <<>>
  BY DEF TypeOK, OutputTypeOK, At, Port, Streams
<1>7. got[Port][1] \in Seq(Token) /\ Len(got[Port][1]) \in Nat
  <2>1. Len(got[Port]) \in Nat \ {0}
    BY <1>6, EmptySeq
  <2>2. got[Port][1] \in Seq(Token)
    BY <1>6, <2>1, ElementOfSeq
  <2> QED BY <2>2, LenProperties
<1>8. taken' \in [Streams -> Nat]
  <2>1. Len(written[Port]) \in Nat
    BY <1>6, LenProperties DEF TypeOK, ShellTypeOK
  <2>2. taken \in [Streams -> Nat]
    BY DEF TypeOK, OutputTypeOK
  <2>3. PICK n \in Nat : taken' = [taken EXCEPT ![Port] = n]
    <3> DEFINE n == IF taken[Port] + Len(got[Port][1]) < Len(written[Port])
                      THEN taken[Port] + Len(got[Port][1]) + 1 ELSE Len(written[Port])
    <3>1. n \in Nat
      BY <1>6, <1>7, <2>1, <2>2
    <3>2. taken' = [taken EXCEPT ![Port] = n]
      OBVIOUS
    <3> QED BY <3>1, <3>2
  <2> QED BY <2>2, <2>3
<1>9. got' \in [Streams -> Seq(Seq(Token))]
  BY <1>6, NothingType DEF TypeOK, OutputTypeOK
<1>10. label = "copy" => got'[Port'] # <<>>
  <2>1. label = "copy" => Port = "out" /\ got["err"] # <<>>
    BY <1>1, <1>3 DEF Goto, TypeOK, ThreadTypeOK
  <2>2. Port = "out" => got'["out"] = <<>> /\ got'["err"] = got["err"]
    BY DEF TypeOK, OutputTypeOK, Streams
  <2> QED BY <2>1, <2>2 DEF Port
<1>11. emitted' \in Seq([port : {"out", "err", "window", "final"}, line : Seq(Token),
                         from : (0..MaxTuples) \X (0..MaxTuples)])
  <2> DEFINE Out == [port : {"out", "err", "window", "final"}, line : Seq(Token),
                     from : (0..MaxTuples) \X (0..MaxTuples)]
             tup == [port |-> Port, line |-> got[Port][1], from |-> <<copied, inputTuple[2]>>]
  <2>1. Port \in {"out", "err", "window", "final"}
    BY DEF Port
  <2>2. <<copied, inputTuple[2]>> \in (0..MaxTuples) \X (0..MaxTuples)
    BY DEF TypeOK, InputTypeOK, OutputTypeOK
  <2>3. tup \in Out
    BY <1>7, <2>1, <2>2
  <2>4. emitted \in Seq(Out)
    BY DEF TypeOK, OutputTypeOK
  <2>5. emitted' \in {emitted, Append(emitted, tup)}
    OBVIOUS
  <2> HIDE DEF Out, tup
  <2>6. Append(emitted, tup) \in Seq(Out)
    BY <2>3, <2>4, AppendProperties
  <2>7. emitted' \in Seq(Out)
    BY <2>4, <2>5, <2>6
  <2> QED BY <2>7 DEF Out
<1>12. OutputTypeOK'
  <2>1. copied' = copied
    OBVIOUS
  <2> QED BY <1>1, <1>3, <1>8, <1>9, <1>10, <1>11, <2>1 DEF TypeOK, OutputTypeOK
<1> QED BY <1>3, <1>4, <1>5, <1>12, ShellFrame, InputFrame DEF TypeOK

(* The end of the output.                                                  *)
LEMMA DrainType == TypeOK /\ Drain => TypeOK'
<1> SUFFICES ASSUME TypeOK, Drain PROVE TypeOK'
  OBVIOUS
<1> USE DEF Drain, Signal
<1>1. /\ pc' \in [Threads -> WriterLabels \cup ReaderLabels \cup PELabels]
      /\ pc'[Reader] = "finish"
      /\ \A x \in Writers : pc'[x] = IF pc[x] = "waiting" THEN "drain" ELSE pc[x]
  BY ThreadsDiffer DEF TypeOK, ThreadTypeOK, WriterLabels, ReaderLabels
<1>2. pc'[PE] = pc[PE]
  BY DEF TypeOK, ThreadTypeOK, PELabels
<1>3. ThreadTypeOK'
  BY <1>1, <1>2 DEF ThreadTypeOK, TypeOK, WriterLabels, ReaderLabels, runVars, shellVars, objVars, pipeVars
<1>4. FlagTypeOK'
  BY DEF TypeOK, FlagTypeOK, runVars, upVars, portVars
<1>5. InputTypeOK'
  BY <1>1 DEF TypeOK, InputTypeOK, upVars, portVars
<1>6. OutputTypeOK'
  BY <1>1 DEF TypeOK, OutputTypeOK
<1> QED BY <1>3, <1>4, <1>5, <1>6, ShellFrame DEF TypeOK

-----------------------------------------------------------------------------
(* The steps of the runtime and of the command                             *)

(* The steps of the runtime.                                               *)
LEMMA PEType ==
  ASSUME TypeOK, RequestShutdown \/ PEStep
  PROVE  TypeOK'
<1>1. ShellTypeOK' /\ mutex' \in {PE, NoThread, mutex} /\ inWrite' = inWrite
  <2>1. CASE RequestShutdown \/ Join
    BY <2>1, ShellFrame DEF TypeOK, RequestShutdown, Join, shellVars, objVars, pipeVars
  <2>2. CASE PrepareToShutdown
    BY <2>2, ShutdownType DEF TypeOK, PrepareToShutdown, ShutdownShell, pipeVars
  <2>3. CASE Destroy
    BY <2>3, TerminateType, TerminateMutex DEF TypeOK, Destroy, LastTerminate
  <2> QED BY <2>1, <2>2, <2>3 DEF PEStep
<1>2. pc' = pc \/ \E label \in {"prepare", "join", "destroy", "done"} : Goto(PE, label)
  BY DEF RequestShutdown, PEStep, PrepareToShutdown, Join, Destroy, LastTerminate
<1>3. /\ pc' \in [Threads -> WriterLabels \cup ReaderLabels \cup PELabels]
      /\ pc'[PE] \in PELabels /\ pc'[Reader] = pc[Reader] /\ \A x \in Writers : pc'[x] = pc[x]
  BY <1>2, PEGoes DEF TypeOK, ThreadTypeOK, PELabels
<1>4. FlagTypeOK'
  BY DEF TypeOK, FlagTypeOK, RequestShutdown, PEStep, PrepareToShutdown, Join, Destroy,
         LastTerminate, Abort, opVars, runVars, upVars, portVars, outVars
<1>5. UNCHANGED <<upVars, portVars, outVars>>
  BY DEF RequestShutdown, PEStep, PrepareToShutdown, Join, Destroy, opVars
<1>6. ThreadTypeOK'
  BY <1>1, <1>3, <1>4 DEF TypeOK, ThreadTypeOK
<1> QED BY <1>1, <1>3, <1>4, <1>5, <1>6, InputFrame, OutputFrame DEF TypeOK

(* The steps of the command.                                               *)
LEMMA CommandType ==
  ASSUME TypeOK, CommandStep \/ CommandFault
  PROVE  TypeOK'
<1>1. UNCHANGED <<pc, opVars, mutex, inWrite>>
  BY DEF CommandStep, CommandFault, Beside, ChildRead, ChildReadRest, ChildWrite, ChildExit,
         ChildQuit, Die, ChildClose, objVars, pipeVars
<1>2. ShellTypeOK'
  <2>1. CASE ChildExit \/ ChildQuit
    <3>1. faulty' \in BOOLEAN
      BY <2>1 DEF ChildExit, ChildQuit, TypeOK, ShellTypeOK
    <3>2. PICK st \in {"zero", "nonzero", "signal"} : Die(st)
      BY <2>1, FaultAssumption DEF ChildExit, ChildQuit
    <3> QED BY <3>1, <3>2, DieType DEF TypeOK
  <2> QED BY <2>1, ChildReadType, ChildReadRestType, ChildWriteType, ChildCloseType
          DEF TypeOK, CommandStep, CommandFault
<1>3. ThreadTypeOK'
  BY <1>1 DEF TypeOK, ThreadTypeOK
<1> QED
  BY <1>1, <1>2, <1>3, FlagFrame, InputFrame, OutputFrame
  DEF TypeOK, opVars, runVars, upVars, portVars, outVars

(* A step that changes nothing.                                            *)
LEMMA StutterType == TypeOK /\ UNCHANGED vars => TypeOK'
<1> SUFFICES ASSUME TypeOK, UNCHANGED vars PROVE TypeOK'
  OBVIOUS
<1>1. UNCHANGED <<pc, opVars, shellVars>>
  BY DEF vars
<1>2. UNCHANGED <<mutex, inWrite>>
  BY <1>1 DEF shellVars, objVars, pipeVars
<1>3. ThreadTypeOK'
  BY <1>1, <1>2 DEF TypeOK, ThreadTypeOK
<1> QED
  BY <1>1, <1>3, ShellFrame, FlagFrame, InputFrame, OutputFrame
  DEF TypeOK, opVars, runVars, upVars, portVars, outVars

(* Every step keeps the types.                                             *)
THEOREM TypeStep == TypeOK /\ [Next]_vars => TypeOK'
<1> SUFFICES ASSUME TypeOK, [Next]_vars PROVE TypeOK'
  OBVIOUS
<1>1. ASSUME NEW w \in Writers, WriterStep(w) PROVE TypeOK'
  BY <1>1, StartShellType, EnterType, StoreType, WriteStepType, WriterTerminateType,
     PunctuationType DEF WriterStep
<1>2. CASE ReaderStep
  BY <1>2, ReaderMovesType, ReadBufferedType, ReadStreamType, ReaderTerminateType, CaughtType,
     CopyAttributesType, SubmitType, DrainType DEF ReaderStep, ReadOut, ReadErr, Streams
<1>3. CASE PEStep \/ RequestShutdown
  BY <1>3, PEType
<1>4. CASE Upstream
  BY <1>4, ReceiveType, PunctuationType DEF Upstream
<1>5. CASE CommandStep \/ CommandFault
  BY <1>5, CommandType
<1>6. CASE Ended \/ UNCHANGED vars
  BY <1>6, StutterType DEF Ended
<1> QED BY <1>1, <1>2, <1>3, <1>4, <1>5, <1>6 DEF Next

(* Every variable keeps its type, whatever the upstream, the runtime and   *)
(* the command do.                                                         *)
THEOREM TypeCorrect == Spec => []TypeOK
<1>1. Init => TypeOK
  BY TypeInit
<1>2. TypeOK /\ [Next]_vars => TypeOK'
  BY TypeStep
<1> QED BY <1>1, <1>2, PTL DEF Spec

-----------------------------------------------------------------------------
(* The shell of the operator                                               *)

(* Every step keeps the shell the object's own.                            *)
LEMMA ShellSideStep ==
  ASSUME IInv, ~InitOnFirstTuple, [Next]_vars
  PROVE  ShellSide'
<1> USE DEF IInv, ShellSide
<1>1. CASE UNCHANGED shellVars
  BY <1>1, OwnedFrame DEF shellVars, objVars, childVars, histVars
<1>2. ASSUME NEW w \in Writers, WriterStep(w) PROVE ShellSide'
  <2>1. CASE StartShell(w)
    BY <1>1, <2>1 DEF StartShell, CheckFirst, At, WriteSide, NeverLate
  <2>2. CASE Enter(w) \/ Store(w) \/ AwaitDrained(w)
    BY <1>1, <2>2 DEF Enter, Store, AwaitDrained
  <2>3. CASE WriteBegin(w) \/ WriteEnd(w) \/ WriteFail(w)
    BY <2>3, TransferOwned DEF WriteBegin, WriteEnd, WriteFail
  <2>4. CASE WriterTerminate(w)
    BY <2>4, TerminateOwned, ThreadsDiffer DEF WriterTerminate
  <2>5. CASE FinalShutdown(w)
    BY <2>5, ShutdownOwned DEF FinalShutdown
  <2> QED BY <1>2, <2>1, <2>2, <2>3, <2>4, <2>5 DEF WriterStep
<1>3. CASE ReaderStep
  <2>1. CASE Spin \/ TestShutdown \/ ReadMore \/ Select \/ Caught \/ CopyAttributes \/ Submit \/ Drain
    BY <1>1, <2>1 DEF Spin, TestShutdown, ReadMore, Select, Caught, CopyAttributes, Submit, Drain
  <2>2. CASE ReadBuffered \/ ReadOut \/ ReadErr
    BY <1>1, <2>2, TransferOwned DEF ReadBuffered, ReadOut, ReadErr, ReadStream, Streams
  <2>3. CASE ReaderTerminate \/ ReaderFinish
    BY <2>3, TerminateOwned, ThreadsDiffer DEF ReaderTerminate, ReaderFinish, LastTerminate
  <2> QED BY <1>3, <2>1, <2>2, <2>3 DEF ReaderStep
<1>4. CASE PEStep \/ RequestShutdown
  <2>1. CASE RequestShutdown \/ Join
    BY <1>1, <2>1 DEF RequestShutdown, Join
  <2>2. CASE PrepareToShutdown
    BY <2>2, ShutdownOwned DEF PrepareToShutdown
  <2>3. CASE Destroy
    BY <2>3, TerminateOwned, ThreadsDiffer DEF Destroy, LastTerminate
  <2> QED BY <1>4, <2>1, <2>2, <2>3 DEF PEStep
<1>5. CASE Upstream
  BY <1>1, <1>5 DEF Upstream, Receive, WindowMarker, FinalMarker
<1>6. CASE CommandStep \/ CommandFault
  BY <1>6, ChildOwned DEF CommandStep, CommandFault
<1>7. CASE Ended \/ UNCHANGED vars
  BY <1>1, <1>7 DEF Ended, vars
<1> QED BY <1>2, <1>3, <1>4, <1>5, <1>6, <1>7 DEF Next

-----------------------------------------------------------------------------
(* The way of a line to the command                                        *)

(* Steps that are not a writer's and move no token.                        *)
LEMMA WriteSideFrame ==
  ASSUME TypeOK, WriteSide, \A w \in Writers : pc'[w] = pc[w],
         UNCHANGED <<portVars, tuple, inWrite>>,
         consumed' \o inPipe' = consumed \o inPipe
  PROVE  WriteSide'
<1>1. Pending' = Pending
  BY DEF Pending, portVars, TypeOK, InputTypeOK
<1>2. Accounted'
  BY <1>1 DEF WriteSide, Accounted, portVars
<1>3. WritingAt'
  BY DEF WriteSide, WritingAt, TypeOK, ThreadTypeOK
<1>4. NeverLate' /\ Exclusion'
  BY DEF WriteSide, NeverLate, Exclusion, portVars
<1> QED BY <1>2, <1>3, <1>4 DEF WriteSide

(* terminate() and shutdown() move no token.                               *)
LEMMA TerminateMovesNothing ==
  ASSUME NEW t, TerminateBegin(t) \/ TerminateReturns(t) \/ WaitFails(t) \/ ShutdownShell
  PROVE  UNCHANGED <<inPipe, consumed, inWrite>>
BY DEF TerminateBegin, TerminateReturns, TerminateAgain, Reap, Kill, WaitForeign, WaitFails,
       ShutdownShell, shellVars, childVars, pipeVars

(* A writer that does not have mutex_ holds back no line.                  *)
LEMMA WriterOutside ==
  ASSUME TypeOK, WriteSide, NEW w \in Writers, NEW label \in {"enter", "idle", "done"},
         pc[w] \notin Inside, Goto(w, label), portMutex' = portMutex,
         \A x \in Writers \ {w} : tuple'[x] = tuple[x] /\ rest'[x] = rest[x],
         UNCHANGED <<accepted, consumed, inPipe, inWrite>>
  PROVE  WriteSide'
<1>1. /\ pc'[w] = label /\ \A x \in Writers \ {w} : pc'[x] = pc[x]
  BY WriterGoes DEF TypeOK, WriterLabels
<1>2. portMutex # w /\ portMutex \in Writers \cup {NoThread}
  BY DEF WriteSide, Exclusion, TypeOK, InputTypeOK
<1>3. Exclusion' /\ NeverLate'
  BY <1>1, <1>2 DEF WriteSide, Exclusion, NeverLate, Inside
<1>4. Pending' = Pending
  BY <1>1, <1>2 DEF Pending
<1>5. WritingAt'
  BY <1>1 DEF WriteSide, WritingAt, TypeOK, ThreadTypeOK, Inside
<1> QED BY <1>3, <1>4, <1>5 DEF WriteSide, Accounted

(* A writer that has it and keeps it, with the same tokens to be written.  *)
LEMMA WriterInside ==
  ASSUME TypeOK, WriteSide, NEW w \in Writers, NEW label \in Inside,
         pc[w] \in Inside, Goto(w, label), portMutex' = portMutex, w \notin inWrite',
         UNCHANGED accepted, consumed' \o inPipe' = consumed \o inPipe,
         inWrite' \subseteq inWrite, Pending' = Pending
  PROVE  WriteSide'
<1>1. /\ pc'[w] = label /\ \A x \in Writers \ {w} : pc'[x] = pc[x]
  BY WriterGoes DEF TypeOK, WriterLabels, Inside
<1>2. Exclusion' /\ NeverLate'
  BY <1>1 DEF WriteSide, Exclusion, NeverLate, Inside
<1>3. WritingAt'
  BY <1>1 DEF WriteSide, WritingAt, TypeOK, ThreadTypeOK
<1> QED BY <1>2, <1>3 DEF WriteSide, Accounted

(* The tokens on their way are tokens.                                     *)
LEMMA OnTheirWay ==
  ASSUME TypeOK
  PROVE  /\ consumed \in Seq(Token) /\ inPipe \in Seq(Token) /\ accepted \in Seq(Token)
         /\ consumed \o inPipe \in Seq(Token)
BY ConcatProperties DEF TypeOK, ShellTypeOK, InputTypeOK

(* The steps that move the tokens of a line.                               *)
LEMMA EnterWriteSide ==
  ASSUME TypeOK, WriteSide, NEW w \in Writers, Enter(w)
  PROVE  WriteSide'
<1> USE DEF Enter
<1>1. /\ pc'[w] = "store" /\ \A x \in Writers \ {w} : pc'[x] = pc[x]
  BY WriterGoes DEF TypeOK, WriterLabels
<1>2. portMutex = NoThread /\ portMutex' = w /\ w # NoThread
  BY ThreadsDiffer DEF PortFree
<1>3. UNCHANGED <<tuple, consumed, inPipe, inWrite>>
  BY DEF upVars, shellVars, childVars, pipeVars
<1>4. Exclusion' /\ NeverLate'
  <2>1. \A x \in Writers : pc[x] \notin Inside
    BY <1>2, ThreadsDiffer DEF WriteSide, Exclusion
  <2>2. "store" \in Inside /\ "store" \notin {"check", "setup", "fork", "mark"}
    BY DEF Inside
  <2>3. \A x \in Writers : pc'[x] \in Inside <=> portMutex' = x
    BY <1>1, <1>2, <2>1, <2>2
  <2>4. \A x \in Writers : pc'[x] \notin {"check", "setup", "fork", "mark"}
    BY <1>1, <2>2 DEF WriteSide, NeverLate
  <2> QED BY <2>3, <2>4 DEF Exclusion, NeverLate
<1>5. WritingAt'
  <2>1. pc[w] # "write"
    BY DEF At
  <2> QED BY <1>1, <1>3, <2>1 DEF WriteSide, WritingAt, TypeOK, ThreadTypeOK
<1>6. Accounted'
  <2>1. accepted = (consumed \o inPipe) \o <<>>
    BY <1>2 DEF WriteSide, Accounted, Pending
  <2>2. accepted = consumed \o inPipe
    BY <2>1, OnTheirWay, ConcatEmptySeq
  <2>3. Pending' = Append(Payload(tuple[w]), NL)
    BY <1>1, <1>2, <1>3 DEF Pending
  <2>4. accepted' = (consumed' \o inPipe') \o Append(Payload(tuple[w]), NL)
    BY <1>3, <2>2
  <2> QED BY <2>3, <2>4 DEF Accounted
<1> QED BY <1>4, <1>5, <1>6 DEF WriteSide

(* A write() ends: a token moves from the writer into the pipe.            *)
LEMMA WriteEndWriteSide ==
  ASSUME TypeOK, WriteSide, NEW w \in Writers, WriteEnd(w)
  PROVE  WriteSide'
<1> USE DEF WriteEnd
<1>1. pc[w] = "write" /\ portMutex = w /\ w # NoThread
  BY ThreadsDiffer DEF At, WriteSide, Exclusion, Inside
<1>2. rest[w] \in Seq(Token) /\ rest[w] # <<>>
  BY <1>1 DEF TypeOK, InputTypeOK
<1>3. Head(rest[w]) \in Token /\ Tail(rest[w]) \in Seq(Token)
  BY <1>2, HeadTailProperties
<1>4. /\ rest'[w] = Tail(rest[w]) /\ accepted' = accepted
      /\ consumed' = consumed /\ inPipe' = Append(inPipe, Head(rest[w]))
      /\ inWrite' = inWrite \ {w}
  BY DEF EndWrite, childVars, TypeOK, InputTypeOK
<1>5. Accounted' <=> accepted = (consumed' \o inPipe') \o Pending'
  BY <1>4 DEF Accounted
<1>6. accepted = (consumed' \o inPipe') \o Tail(rest[w])
  <2>1. accepted = (consumed \o inPipe) \o rest[w]
    BY <1>1 DEF WriteSide, Accounted, Pending
  <2>2. consumed' \o inPipe' = Append(consumed \o inPipe, Head(rest[w]))
    BY <1>3, <1>4, OnTheirWay, AppendToConcat
  <2>3. Append(consumed \o inPipe, Head(rest[w])) \o Tail(rest[w]) = (consumed \o inPipe) \o rest[w]
    BY <1>2, OnTheirWay, MoveHead
  <2> QED BY <2>1, <2>2, <2>3
<1>7. CASE Tail(rest[w]) = <<>>
  <2>1. Goto(w, "idle") /\ portMutex' = NoThread
    BY <1>7 DEF LastWrite
  <2>2. /\ pc'[w] = "idle" /\ \A x \in Writers \ {w} : pc'[x] = pc[x]
    BY <2>1, WriterGoes DEF TypeOK, WriterLabels
  <2>3. Exclusion' /\ NeverLate'
    BY <1>1, <2>1, <2>2, ThreadsDiffer DEF WriteSide, Exclusion, NeverLate, Inside
  <2>4. WritingAt'
    BY <1>4, <2>2 DEF WriteSide, WritingAt, TypeOK, ThreadTypeOK
  <2>5. Accounted'
    BY <1>5, <1>6, <1>7, <2>1 DEF Pending
  <2> QED BY <2>3, <2>4, <2>5 DEF WriteSide
<1>8. CASE Tail(rest[w]) # <<>>
  <2>1. UNCHANGED <<pc, portMutex>>
    BY <1>8 DEF LastWrite
  <2>2. Exclusion' /\ NeverLate'
    BY <2>1 DEF WriteSide, Exclusion, NeverLate
  <2>3. WritingAt'
    BY <1>4, <2>1 DEF WriteSide, WritingAt
  <2>4. Pending' = Tail(rest[w])
    BY <1>1, <1>4, <2>1 DEF Pending
  <2> QED BY <1>5, <1>6, <2>2, <2>3, <2>4 DEF WriteSide
<1> QED BY <1>7, <1>8

(* A token moves from the pipe to the command.                             *)
LEMMA ChildReadWriteSide ==
  ASSUME TypeOK, WriteSide, ChildRead, Beside
  PROVE  WriteSide'
<1>1. consumed' \o inPipe' = consumed \o inPipe
  <2>1. /\ inPipe # <<>>
        /\ consumed' = Append(consumed, Head(inPipe)) /\ inPipe' = Tail(inPipe)
    BY DEF ChildRead
  <2> QED BY <2>1, OnTheirWay, MoveHead
<1>2. UNCHANGED <<pc, portVars, tuple, inWrite>>
  BY DEF ChildRead, Beside, opVars, upVars
<1> QED BY <1>1, <1>2, WriteSideFrame

(* Every step of a writer keeps the lines whole.                           *)
LEMMA WriterWriteSide ==
  ASSUME TypeOK, WriteSide, NEW w \in Writers, WriterStep(w)
  PROVE  WriteSide'
<1>1. ~StartShell(w)
  BY DEF StartShell, CheckFirst, At, WriteSide, NeverLate
<1>2. CASE Store(w)
  <2> USE DEF Store
  <2>1. pc[w] = "store" /\ "write" \in Inside /\ "store" \in Inside
    BY <1>2 DEF At, Inside
  <2>2. portMutex = w /\ w # NoThread /\ w \notin inWrite
    BY <2>1, ThreadsDiffer DEF WriteSide, Exclusion, WritingAt
  <2>3. UNCHANGED <<portMutex, accepted, consumed, inPipe, inWrite, tuple>>
    BY <1>2 DEF upVars, shellVars, childVars, pipeVars
  <2>4. pc'[w] = "write"
    BY <1>2, WriterGoes DEF TypeOK, WriterLabels
  <2>5. rest'[w] = Append(Payload(tuple[w]), NL)
    BY <1>2 DEF TypeOK, InputTypeOK
  <2>6. Pending' = Pending
    BY <2>1, <2>2, <2>3, <2>4, <2>5 DEF Pending
  <2> QED BY <1>2, <2>1, <2>2, <2>3, <2>6, WriterInside
<1>3. CASE WriteBegin(w)
  <2>1. /\ UNCHANGED <<pc, portVars, tuple, consumed, inPipe>>
        /\ inWrite' = inWrite \cup {w} /\ pc[w] = "write"
    BY <1>3 DEF WriteBegin, BeginWrite, At, opVars, upVars, childVars
  <2>2. Pending' = Pending
    BY <2>1 DEF Pending, portVars
  <2> QED BY <2>1, <2>2 DEF WriteSide, NeverLate, Exclusion, WritingAt, Accounted, portVars
<1>4. CASE WriteFail(w)
  <2> USE DEF WriteFail
  <2>1. pc[w] = "write" /\ "write" \in Inside /\ "writeFail" \in Inside
    BY <1>4 DEF At, Inside
  <2>2. portMutex = w /\ w # NoThread
    BY <2>1, ThreadsDiffer DEF WriteSide, Exclusion
  <2>3. /\ UNCHANGED <<portMutex, accepted, consumed, inPipe, rest>>
        /\ inWrite' = inWrite \ {w}
    BY <1>4 DEF FailWrite, opVars, portVars, childVars
  <2>4. pc'[w] = "writeFail"
    BY <1>4, WriterGoes DEF TypeOK, WriterLabels
  <2>5. Pending' = Pending
    BY <2>1, <2>2, <2>3, <2>4 DEF Pending
  <2> QED BY <1>4, <2>1, <2>2, <2>3, <2>5, WriterInside
<1>5. CASE WriterTerminate(w)
  <2>1. UNCHANGED <<inPipe, consumed, inWrite>>
    BY <1>5, TerminateMovesNothing DEF WriterTerminate
  <2>2. UNCHANGED <<pc, portVars, tuple>>
    BY <1>5 DEF WriterTerminate, upVars
  <2> QED BY <2>1, <2>2, WriteSideFrame
<1>6. CASE FinalShutdown(w)
  <2> USE DEF FinalShutdown
  <2>1. pc[w] = "shut" /\ "shut" \in Inside /\ "drain" \in Inside
    BY <1>6 DEF At, Inside
  <2>2. portMutex = w /\ w # NoThread /\ w \notin inWrite
    BY <2>1, ThreadsDiffer DEF WriteSide, Exclusion, WritingAt
  <2>3. UNCHANGED <<portMutex, accepted, consumed, inPipe, inWrite>>
    BY <1>6, TerminateMovesNothing DEF opVars, portVars
  <2>4. pc'[w] = "drain"
    BY <1>6, WriterGoes DEF TypeOK, WriterLabels
  <2>5. Pending' = Pending
    BY <2>1, <2>2, <2>3, <2>4 DEF Pending
  <2> QED BY <1>6, <2>1, <2>2, <2>3, <2>5, WriterInside
<1>7. CASE AwaitDrained(w)
  <2> USE DEF AwaitDrained
  <2>1. pc[w] = "drain" /\ {"drain", "waiting"} \subseteq Inside
    BY <1>7 DEF At, Inside
  <2>2. portMutex = w /\ w # NoThread /\ w \notin inWrite
    BY <2>1, ThreadsDiffer DEF WriteSide, Exclusion, WritingAt
  <2>3. UNCHANGED <<accepted, consumed, inPipe, inWrite>>
    BY <1>7 DEF shellVars, childVars, pipeVars
  <2>4. Pending = <<>>
    BY <2>1, <2>2 DEF Pending
  <2>5. CASE Goto(w, "waiting") /\ portMutex' = portMutex
    <3>1. pc'[w] = "waiting"
      BY <2>5, WriterGoes DEF TypeOK, WriterLabels
    <3>2. Pending' = <<>>
      BY <2>2, <2>5, <3>1 DEF Pending
    <3> QED BY <2>1, <2>2, <2>3, <2>4, <2>5, <3>2, WriterInside
  <2>6. CASE Goto(w, "done") /\ portMutex' = NoThread
    <3>1. /\ pc'[w] = "done" /\ \A x \in Writers \ {w} : pc'[x] = pc[x]
      BY <2>6, WriterGoes DEF TypeOK, WriterLabels
    <3>2. Exclusion' /\ NeverLate'
      BY <2>2, <2>6, <3>1, ThreadsDiffer DEF WriteSide, Exclusion, NeverLate, Inside
    <3>3. WritingAt'
      BY <2>2, <2>3, <3>1 DEF WriteSide, WritingAt, TypeOK, ThreadTypeOK
    <3>4. Pending' = <<>>
      BY <2>6 DEF Pending
    <3> QED BY <2>3, <2>4, <3>2, <3>3, <3>4 DEF WriteSide, Accounted
  <2> QED BY <1>7, <2>5, <2>6
<1> QED
  BY <1>1, <1>2, <1>3, <1>4, <1>5, <1>6, <1>7, EnterWriteSide, WriteEndWriteSide DEF WriterStep

(* So does every tuple and every punctuation that arrives,                 *)
LEMMA UpstreamWriteSide ==
  ASSUME TypeOK, WriteSide, ~InitOnFirstTuple, Upstream
  PROVE  WriteSide'
<1>1. ASSUME NEW w \in Writers, Receive(w) PROVE WriteSide'
  <2> USE DEF Receive
  <2>1. Goto(w, "enter") /\ pc[w] \notin Inside
    BY <1>1 DEF Callable, At, Inside
  <2>2. /\ UNCHANGED <<portMutex, rest, accepted, consumed, inPipe, inWrite>>
        /\ \A x \in Writers \ {w} : tuple'[x] = tuple[x]
    BY <1>1 DEF portVars, shellVars, childVars, pipeVars, TypeOK, InputTypeOK
  <2> QED BY <2>1, <2>2, WriterOutside
<1>2. ASSUME NEW w \in Writers, WindowMarker(w) PROVE WriteSide'
  BY <1>2, WriteSideFrame DEF WindowMarker, shellVars, childVars, pipeVars
<1>3. ASSUME NEW w \in Writers, FinalMarker(w) PROVE WriteSide'
  <2> USE DEF FinalMarker
  <2>1. pc[w] = "idle" /\ portMutex = NoThread /\ portMutex' = w /\ w # NoThread
    BY <1>3, ThreadsDiffer DEF Callable, At, PortFree
  <2>2. UNCHANGED <<accepted, consumed, inPipe, inWrite>>
    BY <1>3 DEF shellVars, childVars, pipeVars
  <2>3. /\ pc'[w] = "shut" /\ \A x \in Writers \ {w} : pc'[x] = pc[x]
    BY <1>3, WriterGoes DEF TypeOK, WriterLabels
  <2>4. Exclusion' /\ NeverLate'
    BY <2>1, <2>3, ThreadsDiffer DEF WriteSide, Exclusion, NeverLate, Inside
  <2>5. WritingAt'
    BY <2>1, <2>2, <2>3 DEF WriteSide, WritingAt, TypeOK, ThreadTypeOK
  <2>6. Pending = <<>> /\ Pending' = <<>>
    BY <2>1, <2>3 DEF Pending
  <2> QED BY <2>2, <2>4, <2>5, <2>6 DEF WriteSide, Accounted
<1> QED BY <1>1, <1>2, <1>3 DEF Upstream

(* and so does the wakeup of the thread that waits for the end.            *)
LEMMA DrainWriteSide ==
  ASSUME TypeOK, WriteSide, Drain
  PROVE  WriteSide'
<1>1. \A x \in Writers : pc'[x] = IF pc[x] = "waiting" THEN "drain" ELSE pc[x]
  BY ThreadsDiffer DEF Drain, Signal
<1>2. UNCHANGED <<portMutex, tuple, rest, accepted, consumed, inPipe, inWrite>>
  BY DEF Drain, upVars, portVars, shellVars, childVars, pipeVars
<1>3. Exclusion' /\ NeverLate'
  BY <1>1, <1>2 DEF WriteSide, Exclusion, NeverLate, Inside
<1>4. WritingAt'
  BY <1>1, <1>2 DEF WriteSide, WritingAt, TypeOK, ThreadTypeOK
<1>5. Pending' = Pending
  BY <1>1, <1>2 DEF Pending, TypeOK, InputTypeOK
<1> QED BY <1>2, <1>3, <1>4, <1>5 DEF WriteSide, Accounted

(* Every step keeps the lines whole.                                       *)
LEMMA WriteSideStep ==
  ASSUME IInv, ~InitOnFirstTuple, [Next]_vars
  PROVE  WriteSide'
<1> USE DEF IInv
<1>1. ASSUME NEW w \in Writers, WriterStep(w) PROVE WriteSide'
  BY <1>1, WriterWriteSide
<1>2. CASE ReaderStep
  <2>1. CASE Drain
    BY <2>1, DrainWriteSide
  <2>2. ASSUME ~Drain PROVE WriteSide'
    <3>1. \E label \in ReaderLabels : pc' = pc \/ Goto(Reader, label)
      BY <1>2, <2>2 DEF ReaderStep, Spin, TestShutdown, ReadBuffered, ReadMore, Select, ReadOut, ReadErr,
         ReadStream, ReaderTerminate, ReadVerdict, Caught, CopyAttributes, Submit, ReaderFinish,
         LastTerminate, ReaderLabels
    <3>2. \A w \in Writers : pc'[w] = pc[w]
      BY <3>1, ReaderGoes DEF TypeOK
    <3>3. UNCHANGED <<portVars, tuple>>
      BY <1>2, <2>2 DEF ReaderStep, Spin, TestShutdown, ReadBuffered, ReadMore, Select, ReadOut, ReadErr,
         ReadStream, ReaderTerminate, Caught, CopyAttributes, Submit, ReaderFinish, opVars, upVars
    <3>4. UNCHANGED <<inPipe, consumed, inWrite>>
      <4>1. CASE ReaderTerminate \/ ReaderFinish
        BY <4>1, TerminateMovesNothing DEF ReaderTerminate, ReaderFinish, LastTerminate
      <4>2. CASE ReadBuffered \/ ReadOut \/ ReadErr
        BY <4>2 DEF ReadBuffered, ReadOut, ReadErr, ReadStream, TakeLines, ReadFromPipe,
           shellVars, childVars, pipeVars
      <4>3. CASE UNCHANGED shellVars
        BY <4>3 DEF shellVars, childVars, pipeVars
      <4> QED BY <1>2, <2>2, <4>1, <4>2, <4>3 DEF ReaderStep, Spin, TestShutdown, ReadMore, Select,
              Caught, CopyAttributes, Submit
    <3> QED BY <3>2, <3>3, <3>4, WriteSideFrame
  <2> QED BY <2>1, <2>2
<1>3. CASE PEStep \/ RequestShutdown
  <2>1. pc' = pc \/ \E label \in PELabels : Goto(PE, label)
    BY <1>3 DEF RequestShutdown, PEStep, PrepareToShutdown, Join, Destroy, LastTerminate, PELabels
  <2>2. \A w \in Writers : pc'[w] = pc[w]
    BY <2>1, PEGoes DEF TypeOK
  <2>3. UNCHANGED <<portVars, tuple>>
    BY <1>3 DEF RequestShutdown, PEStep, PrepareToShutdown, Join, Destroy, opVars, upVars
  <2>4. UNCHANGED <<inPipe, consumed, inWrite>>
    BY <1>3, TerminateMovesNothing DEF RequestShutdown, PEStep, PrepareToShutdown, Join, Destroy,
       LastTerminate, shellVars, childVars, pipeVars
  <2> QED BY <2>2, <2>3, <2>4, WriteSideFrame
<1>4. CASE Upstream
  BY <1>4, UpstreamWriteSide
<1>5. CASE CommandStep \/ CommandFault
  <2>1. CASE ChildRead /\ Beside
    BY <2>1, ChildReadWriteSide
  <2>2. CASE /\ Beside
             /\ \/ ChildReadRest \/ ChildExit \/ ChildQuit
                \/ \E s \in Streams : ChildWrite(s) \/ ChildClose(s)
    <3>1. UNCHANGED <<inPipe, consumed, inWrite>>
      BY <2>2 DEF ChildReadRest, ChildExit, ChildQuit, Die, ChildWrite, ChildClose, pipeVars
    <3> QED BY <2>2, <3>1, WriteSideFrame DEF Beside, opVars, upVars
  <2> QED BY <1>5, <2>1, <2>2 DEF CommandStep, CommandFault
<1>6. CASE Ended \/ UNCHANGED vars
  <2>1. UNCHANGED <<pc, portVars, tuple, inPipe, consumed, inWrite>>
    BY <1>6 DEF Ended, vars, opVars, upVars, shellVars, childVars, pipeVars
  <2> QED BY <2>1, WriteSideFrame
<1> QED BY <1>1, <1>2, <1>3, <1>4, <1>5, <1>6 DEF Next

-----------------------------------------------------------------------------
(* The end                                                                 *)

(* Only the steps of the runtime move its thread.                          *)
LEMMA OthersLeavePE ==
  ASSUME TypeOK, [Next]_vars
  PROVE  PEStep \/ RequestShutdown \/ pc'[PE] = pc[PE]
<1>1. ASSUME NEW w \in Writers, \E label \in WriterLabels : pc' = pc \/ Goto(w, label)
      PROVE  pc'[PE] = pc[PE]
  BY <1>1, WriterGoes DEF TypeOK
<1>2. ASSUME NEW w \in Writers, WriterStep(w) \/ Receive(w) \/ WindowMarker(w) \/ FinalMarker(w)
      PROVE  pc'[PE] = pc[PE]
  BY <1>1, <1>2 DEF WriterStep, StartShell, CheckFirst, Enter, Store, WriteBegin, WriteEnd, WriteFail,
     WriterTerminate, FinalShutdown, AwaitDrained, Receive, WindowMarker, FinalMarker, WriterLabels
<1>3. CASE ReaderStep
  <2>1. CASE Drain
    BY <2>1, ThreadsDiffer DEF Drain, Signal, TypeOK, ThreadTypeOK, PELabels
  <2>2. CASE \E label \in ReaderLabels : pc' = pc \/ Goto(Reader, label)
    BY <2>2, ReaderGoes DEF TypeOK
  <2> QED BY <1>3, <2>1, <2>2 DEF ReaderStep, Spin, TestShutdown, ReadBuffered, ReadMore, Select,
          ReadOut, ReadErr, ReadStream, ReaderTerminate, ReadVerdict, Caught, CopyAttributes,
          Submit, ReaderFinish, LastTerminate, ReaderLabels
<1>4. CASE CommandStep \/ CommandFault \/ Ended \/ UNCHANGED vars
  BY <1>4 DEF CommandStep, CommandFault, Beside, Ended, vars
<1> QED BY <1>2, <1>3, <1>4 DEF Next, Upstream

(* Threads that have left the operator do not come back, and the last      *)
(* terminate() leaves nothing unfinished.                                  *)
LEMMA DesertedStep ==
  ASSUME IInv, ~InitOnFirstTuple, [Next]_vars
  PROVE  Deserted'
<1> USE DEF IInv, Deserted
<1>1. ASSUME pc'[PE] = pc[PE], \A w \in Writers : pc'[w] = pc[w],
             UNCHANGED <<terminated, mutex>>
      PROVE  Deserted'
  BY <1>1 DEF Unfinished
<1>2. CASE pc[PE] = "done"
  <2>1. ~Up
    BY <1>2 DEF Up
  <2>2. UNCHANGED vars
    BY <2>1 DEF Next, WriterStep, StartShell, CheckFirst, Enter, Store, WriteBegin, WriteEnd,
       WriteFail, WriterTerminate, FinalShutdown, AwaitDrained, ReaderStep, Spin, TestShutdown,
       ReadBuffered, ReadMore, Select, ReadOut, ReadErr, ReadStream, ReaderTerminate, Caught,
       CopyAttributes, Submit, Drain, ReaderFinish, PEStep, PrepareToShutdown, Join, Destroy,
       RequestShutdown, Upstream, Receive, WindowMarker, FinalMarker, Callable, CommandStep,
       CommandFault, Beside, Ended, At
  <2> QED BY <1>1, <2>2 DEF vars, shellVars, objVars
<1>3. CASE pc[PE] = "destroy"
  <2>1. \A w \in Writers : pc[w] \in {"idle", "done"}
    BY <1>3
  <2>2. \A w \in Writers : ~WriterStep(w)
    BY <2>1 DEF WriterStep, StartShell, CheckFirst, Enter, Store, WriteBegin, WriteEnd, WriteFail,
       WriterTerminate, FinalShutdown, AwaitDrained, At
  <2>3. ~Upstream
    BY <1>3 DEF Upstream, Receive, WindowMarker, FinalMarker, Callable
  <2>4. CASE Destroy
    <3>1. CASE TerminateReturns(PE) /\ Goto(PE, "done")
      <4>1. terminated' /\ mutex' = NoThread
        BY <3>1, ThreadsDiffer DEF ShellSide, Owned, TerminateReturns, TerminateAgain, Reap, Kill,
           WaitForeign, shellVars, objVars
      <4>2. \A w \in Writers : pc'[w] = pc[w]
        BY <3>1, PEGoes DEF TypeOK, PELabels
      <4> QED BY <2>1, <4>1, <4>2 DEF Unfinished
    <3>2. CASE UNCHANGED pc
      BY <1>3, <3>2
    <3> QED BY <2>4, <3>1, <3>2 DEF Destroy, LastTerminate
  <2>5. ASSUME ~Destroy PROVE pc'[PE] = pc[PE] /\ \A w \in Writers : pc[w] \in {"idle", "done"} => pc'[w] = pc[w]
    <3>1. CASE ReaderStep
      <4>1. CASE Drain
        BY <4>1, ThreadsDiffer DEF Drain, Signal, TypeOK, ThreadTypeOK, PELabels
      <4>2. CASE \E label \in ReaderLabels : pc' = pc \/ Goto(Reader, label)
        BY <4>2, ReaderGoes DEF TypeOK
      <4> QED BY <3>1, <4>1, <4>2 DEF ReaderStep, Spin, TestShutdown, ReadBuffered, ReadMore, Select,
              ReadOut, ReadErr, ReadStream, ReaderTerminate, ReadVerdict, Caught, CopyAttributes,
              Submit, ReaderFinish, LastTerminate, ReaderLabels
    <3>2. CASE UNCHANGED pc
      BY <3>2
    <3> QED BY <1>3, <2>2, <2>3, <2>5, <3>1, <3>2 DEF Next, PEStep, RequestShutdown,
            PrepareToShutdown, Join, CommandStep, CommandFault, Beside, Ended, At, vars
  <2> QED BY <1>3, <2>1, <2>4, <2>5
<1>4. CASE pc[PE] \notin {"destroy", "done"}
  <2>1. CASE RequestShutdown \/ PrepareToShutdown
    BY <2>1, PEGoes DEF RequestShutdown, PrepareToShutdown, TypeOK, PELabels
  <2>2. CASE Join
    <3>1. pc'[PE] = "destroy" /\ \A w \in Writers : pc'[w] = pc[w]
      BY <2>2, PEGoes DEF Join, TypeOK, PELabels
    <3> QED BY <2>2, <3>1 DEF Join
  <2>3. CASE pc'[PE] = pc[PE]
    BY <1>4, <2>3
  <2>4. ~Destroy
    BY <1>4 DEF Destroy, At
  <2> QED BY <2>1, <2>2, <2>3, <2>4, OthersLeavePE DEF PEStep
<1> QED BY <1>2, <1>3, <1>4

-----------------------------------------------------------------------------
(* Without initOnFirstTuple the constructor starts the shell, and the      *)
(* operator begins with everything in order.                               *)
LEMMA IInvInit == ~InitOnFirstTuple /\ Init => IInv
<1> SUFFICES ASSUME ~InitOnFirstTuple, Init PROVE IInv
  OBVIOUS
<1>1. TypeOK
  BY TypeInit
<1>2. /\ pc[PE] = "up" /\ \A w \in Writers : pc[w] = "idle"
      /\ portMutex = NoThread /\ accepted = <<>>
  BY ThreadsDiffer DEF Init
<1>3. /\ inWrite = {} /\ consumed = <<>> /\ inPipe = <<>> /\ stray = {}
      /\ proc = "running" /\ fd = [f \in Fds |-> "open"]
      /\ shutdown = FALSE /\ terminated = FALSE /\ mutex = NoThread
  BY DEF Init, ShellInit
<1>4. WriteSide
  <2>1. Accounted
    <3>1. (<<>> \o <<>>) \o <<>> = <<>>
      BY EmptySeq, ConcatEmptySeq
    <3> QED BY <1>2, <1>3, <3>1 DEF Accounted, Pending
  <2>2. NeverLate /\ Exclusion /\ WritingAt
    BY <1>2, <1>3, ThreadsDiffer DEF NeverLate, Exclusion, WritingAt, Inside
  <2> QED BY <2>1, <2>2 DEF WriteSide
<1>5. ShellSide
  BY <1>3 DEF ShellSide, Owned, Unfinished, OnlyOwn
<1>6. Deserted
  BY <1>2 DEF Deserted
<1> QED BY <1>1, <1>4, <1>5, <1>6 DEF IInv

(* The inductive invariant holds in every behaviour.                       *)
THEOREM Inductive ==
  ASSUME ~InitOnFirstTuple
  PROVE  Spec => []IInv
<1>1. Init => IInv
  BY IInvInit
<1>2. IInv /\ [Next]_vars => IInv'
  <2> SUFFICES ASSUME IInv, [Next]_vars PROVE IInv'
    OBVIOUS
  <2>1. TypeOK'
    BY TypeStep DEF IInv
  <2> QED BY <2>1, WriteSideStep, ShellSideStep, DesertedStep DEF IInv
<1> QED BY <1>1, <1>2, PTL DEF Spec

(* Without initOnFirstTuple the command reads what mutex_ admitted, in     *)
(* that order, and nothing else, whatever fails and whenever the PE goes.  *)
THEOREM LinesStayIntact ==
  ASSUME ~InitOnFirstTuple
  PROVE  Spec => []LinesIntact
<1>1. IInv => LinesIntact
  <2> SUFFICES ASSUME IInv PROVE LinesIntact
    OBVIOUS
  <2>1. accepted = (consumed \o inPipe) \o Pending
    BY DEF IInv, WriteSide, Accounted
  <2>2. Pending \in Seq(Token)
    <3>1. CASE portMutex = NoThread
      BY <3>1, NothingType DEF Pending
    <3>2. CASE portMutex \in Writers /\ pc[portMutex] = "store"
      <4>1. tuple[portMutex] \in 1..MaxTuples
        BY <3>2, BoundAssumption DEF IInv, TypeOK, InputTypeOK
      <4>2. Append(Payload(tuple[portMutex]), NL) \in Seq(Token)
        BY <4>1, PayloadAssumption, AppendProperties DEF Token
      <4> QED BY <3>2, <4>2, ThreadsDiffer DEF Pending
    <3>3. CASE portMutex \in Writers /\ pc[portMutex] # "store"
      BY <3>3, NothingType, ThreadsDiffer DEF Pending, IInv, TypeOK, InputTypeOK
    <3> QED BY <3>1, <3>2, <3>3 DEF IInv, TypeOK, InputTypeOK
  <2>3. consumed \o inPipe \in Seq(Token)
    BY OnTheirWay DEF IInv
  <2> QED BY <2>1, <2>2, <2>3, ConcatPrefix DEF LinesIntact, IsPrefixOf
<1> QED BY <1>1, Inductive, PTL

(* Without initOnFirstTuple no descriptor is closed twice, and no process  *)
(* but the command is waited for or killed.                                *)
THEOREM OnlyItsOwn ==
  ASSUME ~InitOnFirstTuple
  PROVE  Spec => []OwnDescriptors
<1>1. IInv => OwnDescriptors
  BY DEF IInv, ShellSide, OnlyOwn, OwnDescriptors
<1> QED BY <1>1, Inductive, PTL

(* Without initOnFirstTuple the destroyed operator leaves no command, no   *)
(* open descriptor and no lock behind.                                     *)
THEOREM LeavesNothing ==
  ASSUME ~InitOnFirstTuple
  PROVE  Spec => []NothingLeft
<1>1. IInv => NothingLeft
  <2> SUFFICES ASSUME IInv, pc[PE] = "done"
               PROVE  /\ proc = "reaped" /\ \A f \in Fds : fd[f] = "closed"
                      /\ mutex = NoThread /\ portMutex = NoThread
    BY DEF NothingLeft
  <2>1. ~Unfinished /\ \A w \in Writers : pc[w] \in {"idle", "done"}
    BY DEF IInv, Deserted
  <2>2. proc = "reaped" /\ \A f \in Fds : fd[f] = "closed"
    BY <2>1 DEF IInv, ShellSide, Owned
  <2>3. mutex = NoThread
    BY <2>1 DEF Unfinished
  <2>4. portMutex = NoThread
    BY <2>1 DEF IInv, WriteSide, Exclusion, Inside, TypeOK, InputTypeOK
  <2> QED BY <2>2, <2>3, <2>4
<1> QED BY <1>1, Inductive, PTL

-----------------------------------------------------------------------------
(* The end of the command                                                  *)

(* Once the FinalMarker has come no writer is in process(tuple), and only  *)
(* the FinalMarker and the runtime tell the shell to shut down.            *)
Late == {"idle", "shut", "drain", "waiting", "done"}

AfterFinal ==
  /\ finalSent => \A w \in Writers : pc[w] \in Late
  /\ \A w \in Writers : pc[w] = "shut" => finalSent
  /\ pc[PE] # "up" => shutdownRequested
  /\ shutdown => shutdownRequested \/ finalSent

(* What the object knows of the command's end is so.                       *)
Recorded ==
  /\ exitReason = "Shutdown" => shutdown
  /\ status = "none" <=> proc = "running"
  /\ \A s \in Streams : closed[s] => ~outEnd[s]

(* The reader learns of the end from the streams, or from its own          *)
(* terminate(): nobody else finishes the shell, unless the PE is going.    *)
AtReader ==
  ~shutdownRequested /\ ~aborted =>
    /\ ~Unfinished => pc[Reader] \in {"caught", "drain", "finish", "done"}
    /\ pc[Reader] = "fail" => AllClosed
    /\ pc[Reader] = "caught" => ~Unfinished /\ exitReason # "Shutdown"
    /\ pc[Reader] \in {"drain", "finish", "done"} => ~Unfinished /\ exitReason = "Shutdown"

(* A command that makes no trouble ends after shutdown() and with its      *)
(* input read, and nothing fails.                                          *)
Undisturbed ==
  ~shutdownRequested /\ ~faulty =>
    /\ ~aborted /\ pc[Reader] # "caught" /\ \A w \in Writers : pc[w] # "writeFail"
    /\ proc = "running" => \A s \in Streams : outEnd[s]
    /\ proc # "running" => shutdown /\ inPipe = <<>> /\ status = "zero"

(* The final punctuation waits for the reader.                             *)
Forwarding ==
  /\ FinalForwarded => drained
  /\ drained => pc[Reader] \in {"finish", "done"}

EndSide == AfterFinal /\ Recorded /\ AtReader /\ AbortHasCause /\ Undisturbed /\ Forwarding

EndVars == <<shutdown, terminated, mutex, exitReason, status, proc, outEnd, closed, faulty,
             shutdownRequested, aborted, drained, emitted, finalSent>>

(* Steps that leave the command, the reader and the runtime where they     *)
(* are, and lead no writer into trouble.                                   *)
LEMMA EndFrame ==
  ASSUME EndSide, UNCHANGED EndVars, pc'[Reader] = pc[Reader], pc'[PE] = pc[PE],
         inPipe' = inPipe \/ proc = "running",
         \A w \in Writers : \/ pc'[w] = pc[w]
                            \/ pc'[w] \notin {"shut", "writeFail"} /\ (finalSent => pc'[w] \in Late)
  PROVE  EndSide'
<1> USE DEF EndSide, EndVars
<1>1. AfterFinal' /\ Recorded'
  BY DEF AfterFinal, Recorded
<1>2. AtReader' /\ AbortHasCause'
  BY DEF AtReader, AllClosed, Unfinished, AbortHasCause
<1>3. Undisturbed'
  BY DEF Undisturbed
<1>4. Forwarding'
  BY DEF Forwarding, FinalForwarded
<1> QED BY <1>1, <1>2, <1>3, <1>4

(* A write fails only if the command or the PE has ended early: while a    *)
(* line is being written, nobody has told the shell to shut down.          *)
LEMMA WriteFailEnd ==
  ASSUME IInv, EndSide, NEW w \in Writers, WriteFail(w)
  PROVE  EndSide'
<1> USE DEF EndSide
<1>1. pc[w] = "write" /\ FailWrite(w) /\ UNCHANGED opVars
  BY DEF WriteFail, At
<1>2. ~finalSent
  BY <1>1 DEF AfterFinal, Late
<1>3. shutdownRequested \/ faulty
  <2> SUFFICES ASSUME ~shutdownRequested, ~faulty PROVE FALSE
    OBVIOUS
  <2>1. ~shutdown
    BY <1>2 DEF AfterFinal
  <2>2. proc = "running"
    BY <2>1 DEF Undisturbed
  <2>3. fd["in"] = "open"
    <3>1. Unfinished
      BY <2>2 DEF IInv, ShellSide, Owned
    <3>2. fd = [f \in Fds |-> IF f = "in" /\ shutdown THEN "closed" ELSE "open"]
      BY <3>1 DEF IInv, ShellSide, Owned
    <3> QED BY <2>1, <3>2 DEF Fds
  <2> QED BY <1>1, <2>2, <2>3 DEF FailWrite
<1>4. /\ pc'[w] = "writeFail" /\ \A x \in Writers \ {w} : pc'[x] = pc[x]
      /\ pc'[Reader] = pc[Reader] /\ pc'[PE] = pc[PE]
  BY WriterGoes DEF WriteFail, IInv, TypeOK, WriterLabels
<1>5. UNCHANGED EndVars
  BY <1>1 DEF EndVars, FailWrite, objVars, childVars, opVars, runVars, upVars, outVars
<1> HIDE DEF WriteFail
<1>6. AfterFinal' /\ Recorded'
  BY <1>2, <1>4, <1>5 DEF AfterFinal, Recorded, EndVars
<1>7. AtReader' /\ AbortHasCause'
  BY <1>4, <1>5 DEF AtReader, AbortHasCause, AllClosed, Unfinished, EndVars
<1>8. Undisturbed'
  BY <1>3, <1>5 DEF Undisturbed, EndVars
<1>9. Forwarding'
  BY <1>4, <1>5 DEF Forwarding, FinalForwarded, EndVars
<1> QED BY <1>6, <1>7, <1>8, <1>9

(* Every step of terminate() records the end of the command as it is, and  *)
(* what it returns from is finished.                                       *)
LEMMA TerminateRecords ==
  ASSUME IInv, Recorded, NEW t \in Threads,
         TerminateBegin(t) \/ TerminateReturns(t) \/ WaitFails(t)
  PROVE  /\ Recorded' /\ UNCHANGED <<shutdown, closed, inPipe, faulty>>
         /\ TerminateBegin(t) => /\ Unfinished /\ Unfinished'
                                 /\ UNCHANGED <<exitReason, status, proc, outEnd>>
         /\ TerminateReturns(t) => ~Unfinished' /\ proc' = "reaped" /\ status' # "none"
         /\ ~WaitFails(t)
<1> USE DEF IInv, ShellSide
<1>1. t # NoThread
  BY ThreadsDiffer
<1>2. ~WaitFails(t) /\ ~WaitForeign(t)
  BY <1>1 DEF WaitFails, WaitForeign, Owned, Unfinished
<1>3. CASE TerminateBegin(t)
  <2>1. ~TerminateReturns(t)
    BY <1>1, <1>3 DEF TerminateBegin, TerminateReturns, TerminateAgain, Reap, Kill, WaitForeign
  <2> QED BY <1>1, <1>2, <1>3, <2>1 DEF TerminateBegin, Recorded, Unfinished, childVars, pipeVars, histVars
<1>4. CASE TerminateAgain
  <2>1. ~Unfinished /\ proc = "reaped"
    BY <1>4 DEF TerminateAgain, Unfinished, Owned
  <2> QED BY <1>2, <1>4, <2>1
          DEF TerminateAgain, TerminateBegin, Recorded, Unfinished, shellVars, objVars, childVars, pipeVars, histVars
<1>5. CASE Reap(t)
  <2>1. terminated
    BY <1>1, <1>5 DEF Reap, Owned
  <2>2. exitReason' = "Shutdown" => shutdown
    BY <1>5 DEF Reap, ReasonOf
  <2>3. status # "none"
    BY <1>5 DEF Reap, Recorded
  <2> QED BY <1>2, <1>5, <2>1, <2>2, <2>3 DEF Reap, TerminateBegin, Recorded, Unfinished, pipeVars
<1>6. CASE Kill(t)
  <2>1. terminated
    BY <1>1, <1>6 DEF Kill, Owned
  <2>2. exitReason' = "Shutdown" => shutdown
    BY <1>6 DEF Kill
  <2> QED BY <1>2, <1>6, <2>1, <2>2 DEF Kill, TerminateBegin, Recorded, Unfinished, pipeVars
<1> QED BY <1>2, <1>3, <1>4, <1>5, <1>6 DEF TerminateReturns

(* terminate() after a failed write aborts the PE, for a reason.           *)
LEMMA WriterTerminateEnd ==
  ASSUME IInv, EndSide, NEW w \in Writers, WriterTerminate(w)
  PROVE  EndSide'
<1> USE DEF EndSide
<1>1. /\ pc[w] = "writeFail" /\ ~aborted
      /\ UNCHANGED <<pc, shutdownRequested, finalSent, drained, emitted>>
      /\ \/ TerminateBegin(w) /\ aborted' = aborted
         \/ (TerminateReturns(w) \/ WaitFails(w)) /\ aborted'
  BY DEF WriterTerminate, Abort, At, Up, upVars, outVars
<1>2. /\ Recorded' /\ UNCHANGED <<shutdown, closed, inPipe, faulty>>
      /\ TerminateBegin(w) => /\ Unfinished /\ Unfinished'
                              /\ UNCHANGED <<exitReason, status, proc, outEnd>>
      /\ TerminateReturns(w) => ~Unfinished' /\ proc' = "reaped" /\ status' # "none"
      /\ ~WaitFails(w)
  BY <1>1, TerminateRecords
<1>3. shutdownRequested \/ faulty
  BY <1>1 DEF Undisturbed
<1>4. AfterFinal'
  BY <1>1, <1>2 DEF AfterFinal
<1>5. AtReader'
  BY <1>1, <1>2 DEF AtReader, AllClosed
<1>6. AbortHasCause'
  <2>1. shutdownRequested \/ ~shutdown
    BY <1>1 DEF AfterFinal, Late
  <2>2. shutdownRequested \/ exitReason' # "Shutdown"
    BY <1>2, <2>1 DEF Recorded
  <2> QED BY <1>1, <1>2, <2>2 DEF AbortHasCause
<1>7. Undisturbed'
  BY <1>1, <1>2, <1>3 DEF Undisturbed
<1>8. Forwarding'
  BY <1>1 DEF Forwarding, FinalForwarded
<1> QED BY <1>2, <1>4, <1>5, <1>6, <1>7, <1>8

(* What the FinalMarker brings about.                                      *)
LEMMA PunctuationEnd ==
  ASSUME IInv, EndSide, NEW w \in Writers,
         FinalMarker(w) \/ FinalShutdown(w) \/ AwaitDrained(w)
  PROVE  EndSide'
<1> USE DEF EndSide
<1>1. CASE FinalMarker(w)
  <2>1. /\ pc'[w] = "shut" /\ (\A x \in Writers \ {w} : pc'[x] = pc[x])
        /\ pc'[Reader] = pc[Reader] /\ pc'[PE] = pc[PE]
    BY <1>1, WriterGoes DEF FinalMarker, IInv, TypeOK, WriterLabels
  <2>2. finalSent' /\ \A x \in Writers : pc[x] = "idle"
    BY <1>1 DEF FinalMarker, Callable, At
  <2>3. /\ UNCHANGED <<shutdown, terminated, mutex, exitReason, status, proc, outEnd, closed, faulty>>
        /\ UNCHANGED <<inPipe, shutdownRequested, aborted, drained, emitted>>
    BY <1>1 DEF FinalMarker, runVars, outVars, shellVars, objVars, childVars, pipeVars, histVars
  <2>4. AfterFinal' /\ Recorded'
    BY <2>1, <2>2, <2>3 DEF AfterFinal, Recorded, Late
  <2>5. AtReader' /\ AbortHasCause' /\ Undisturbed'
    BY <2>1, <2>3 DEF AtReader, AbortHasCause, Undisturbed, AllClosed, Unfinished
  <2>6. Forwarding'
    BY <2>1, <2>3 DEF Forwarding, FinalForwarded
  <2> QED BY <2>4, <2>5, <2>6
<1>2. CASE FinalShutdown(w)
  <2>1. /\ pc'[w] = "drain" /\ (\A x \in Writers \ {w} : pc'[x] = pc[x])
        /\ pc'[Reader] = pc[Reader] /\ pc'[PE] = pc[PE]
    BY <1>2, WriterGoes DEF FinalShutdown, IInv, TypeOK, WriterLabels
  <2>2. pc[w] = "shut" /\ finalSent
    BY <1>2 DEF FinalShutdown, At, AfterFinal
  <2>3. /\ UNCHANGED <<terminated, mutex, exitReason, status, proc, outEnd, closed, faulty>>
        /\ UNCHANGED <<inPipe, shutdownRequested, aborted, drained, emitted, finalSent>>
        /\ shutdown'
    BY <1>2 DEF FinalShutdown, ShutdownShell, opVars, runVars, upVars, outVars, childVars, pipeVars
  <2>4. AfterFinal' /\ Recorded'
    BY <2>1, <2>2, <2>3 DEF AfterFinal, Recorded, Late
  <2>5. AtReader' /\ AbortHasCause' /\ Undisturbed'
    BY <2>1, <2>3 DEF AtReader, AbortHasCause, Undisturbed, AllClosed, Unfinished
  <2>6. Forwarding'
    BY <2>1, <2>3 DEF Forwarding, FinalForwarded
  <2> QED BY <2>4, <2>5, <2>6
<1>3. CASE AwaitDrained(w)
  <2>1. PICK label \in {"done", "waiting"} : Goto(w, label)
    BY <1>3 DEF AwaitDrained
  <2>2. /\ pc'[w] = label /\ (\A x \in Writers \ {w} : pc'[x] = pc[x])
        /\ pc'[Reader] = pc[Reader] /\ pc'[PE] = pc[PE]
    BY <2>1, WriterGoes DEF IInv, TypeOK, WriterLabels
  <2>3. /\ UNCHANGED <<shutdown, terminated, mutex, exitReason, status, proc, outEnd, closed, faulty>>
        /\ UNCHANGED <<inPipe, shutdownRequested, aborted, drained, finalSent>>
        /\ emitted' = emitted \/ drained
    BY <1>3 DEF AwaitDrained, MayForward, runVars, upVars, shellVars, objVars, childVars, pipeVars, histVars
  <2>4. AfterFinal' /\ Recorded'
    BY <2>2, <2>3 DEF AfterFinal, Recorded, Late
  <2>5. AtReader' /\ AbortHasCause' /\ Undisturbed'
    BY <2>2, <2>3 DEF AtReader, AbortHasCause, Undisturbed, AllClosed, Unfinished
  <2>6. Forwarding'
    BY <2>2, <2>3 DEF Forwarding, FinalForwarded
  <2> QED BY <2>4, <2>5, <2>6
<1> QED BY <1>1, <1>2, <1>3

(* The reader goes on reading and submitting.                              *)
LEMMA ReadingEnd ==
  ASSUME IInv, EndSide,
         \/ Spin \/ TestShutdown \/ ReadBuffered \/ ReadMore \/ Select
         \/ CopyAttributes \/ Submit
  PROVE  EndSide'
<1> USE DEF EndSide
<1>1. PICK label \in {"test", "drain", "read", "copy", "fail", "select", "readOut", "submit"} :
        Goto(Reader, label)
  BY DEF Spin, TestShutdown, ReadBuffered, ReadMore, Select, CopyAttributes, Submit
<1>2. /\ pc'[Reader] = label /\ pc'[PE] = pc[PE] /\ \A w \in Writers : pc'[w] = pc[w]
  BY <1>1, ReaderGoes DEF IInv, TypeOK, ReaderLabels
<1>3. /\ label = "fail" => AllClosed
      /\ label = "drain" => shutdownRequested
  BY <1>2 DEF Spin, TestShutdown, ReadBuffered, ReadMore, Select, CopyAttributes, Submit, Goto,
     IInv, TypeOK, ThreadTypeOK
<1>4. pc[Reader] \in {"spin", "test", "read", "select", "copy", "submit"} /\ ~drained
  BY DEF Spin, TestShutdown, ReadBuffered, ReadMore, Select, CopyAttributes, Submit, At, Forwarding
<1>5. /\ UNCHANGED <<shutdown, terminated, mutex, exitReason, status, proc, outEnd, closed, faulty>>
      /\ UNCHANGED <<inPipe, shutdownRequested, aborted, drained, finalSent>>
  BY DEF Spin, TestShutdown, ReadBuffered, ReadMore, Select, CopyAttributes, Submit, TakeLines,
     opVars, runVars, upVars, outVars, shellVars, objVars, childVars, pipeVars, histVars
<1>6. AfterFinal' /\ Recorded'
  BY <1>2, <1>5 DEF AfterFinal, Recorded
<1>7. AtReader' /\ AbortHasCause' /\ Undisturbed'
  BY <1>2, <1>3, <1>4, <1>5 DEF AtReader, AbortHasCause, Undisturbed, AllClosed, Unfinished
<1>8. ~FinalForwarded'
  <2>1. ~FinalForwarded
    BY <1>4 DEF Forwarding
  <2>2. CASE emitted' = emitted
    BY <2>1, <2>2 DEF FinalForwarded
  <2>3. CASE Submit /\ emitted' # emitted
    <3> DEFINE tup == [port |-> Port, line |-> got[Port][1], from |-> <<copied, inputTuple[2]>>]
    <3>1. emitted' = Append(emitted, tup)
      BY <2>3 DEF Submit
    <3>2. tup.port # "final"
      BY DEF Port
    <3> HIDE DEF tup
    <3>3. PICK S : emitted \in Seq(S)
      BY DEF IInv, TypeOK, OutputTypeOK
    <3>4. emitted'[Len(emitted')] = tup
      <4>1. emitted \in Seq(S \cup {tup})
        BY <3>3
      <4>2. Len(emitted') = Len(emitted) + 1 /\ emitted'[Len(emitted) + 1] = tup
        BY <3>1, <4>1, AppendProperties
      <4> QED BY <4>2
    <3> QED BY <3>2, <3>4 DEF FinalForwarded
  <2> QED BY <2>2, <2>3 DEF Spin, TestShutdown, ReadBuffered, ReadMore, Select, CopyAttributes,
             opVars, outVars
<1>9. Forwarding'
  BY <1>4, <1>5, <1>8 DEF Forwarding
<1> QED BY <1>6, <1>7, <1>9

(* A read() finds the descriptor open as long as the PE is not going, and  *)
(* the end of a stream only when the command has let go of it.             *)
LEMMA ReadStreamEnd ==
  ASSUME IInv, EndSide, NEW s \in Streams, NEW here \in {"readOut", "readErr"},
         NEW next \in {"readErr", "read"}, ReadStream(here, s, next)
  PROVE  EndSide'
<1> USE DEF EndSide
<1>1. pc[Reader] = here /\ ~drained /\ ~aborted
  BY DEF ReadStream, At, Up, Forwarding
<1>2. /\ UNCHANGED <<shutdown, terminated, mutex, exitReason, status, proc, outEnd, faulty>>
      /\ UNCHANGED <<inPipe, shutdownRequested, aborted, drained, emitted, finalSent>>
      /\ closed' = closed \/ ReadFromPipe(s)
  BY DEF ReadStream, ReadFromPipe, opVars, runVars, upVars, outVars, shellVars, objVars,
         childVars, pipeVars, histVars
<1>3. \A r \in Streams : closed'[r] => ~outEnd'[r]
  <2>1. CASE closed' = closed
    BY <1>2, <2>1 DEF Recorded
  <2>2. CASE ReadFromPipe(s) /\ closed' # closed
    <3> DEFINE count == IF Len(outPipe[s]) < ChunkSize THEN Len(outPipe[s]) ELSE ChunkSize
    <3>1. closed' = [closed EXCEPT ![s] = count = 0 /\ ~outEnd[s]]
      BY <2>2 DEF ReadFromPipe
    <3> HIDE DEF count
    <3>2. closed \in [Streams -> BOOLEAN]
      BY DEF IInv, TypeOK, ShellTypeOK
    <3>3. \A r \in Streams \ {s} : closed'[r] = closed[r]
      BY <3>1, <3>2
    <3>4. closed'[s] => ~outEnd[s]
      BY <3>1, <3>2, Zenon
    <3>5. outEnd' = outEnd
      BY <1>2
    <3> QED BY <3>3, <3>4, <3>5 DEF Recorded
  <2> QED BY <1>2, <2>1, <2>2
<1>4. shutdownRequested \/ ~ReadFails(s)
  <2> SUFFICES ASSUME ~shutdownRequested PROVE fd[s] = "open"
    BY DEF ReadFails
  <2>1. Unfinished
    BY <1>1 DEF AtReader
  <2>2. fd = [f \in Fds |-> IF f = "in" /\ shutdown THEN "closed" ELSE "open"]
    BY <2>1 DEF IInv, ShellSide, Owned
  <2> QED BY <2>2 DEF Fds, Streams
<1>5. PICK label \in {next, "fail"} : Goto(Reader, label) /\ (label = "fail" => ReadFails(s))
  BY DEF ReadStream
<1>6. /\ pc'[Reader] = label /\ pc'[PE] = pc[PE] /\ \A w \in Writers : pc'[w] = pc[w]
  BY <1>5, ReaderGoes DEF IInv, TypeOK, ReaderLabels
<1>7. AfterFinal'
  BY <1>2, <1>6 DEF AfterFinal
<1>8. Recorded'
  BY <1>2, <1>3 DEF Recorded
<1>9. AtReader' /\ AbortHasCause' /\ Undisturbed'
  BY <1>1, <1>2, <1>4, <1>5, <1>6 DEF AtReader, AbortHasCause, Undisturbed, Unfinished
<1>10. Forwarding'
  BY <1>1, <1>2, <1>6 DEF Forwarding, FinalForwarded
<1> QED BY <1>7, <1>8, <1>9, <1>10

(* terminate() in readLine() tells a command that did as it was told from  *)
(* one that did not.                                                       *)
LEMMA ReaderTerminateEnd ==
  ASSUME IInv, EndSide, ReaderTerminate
  PROVE  EndSide'
<1> USE DEF EndSide
<1>1. /\ pc[Reader] = "fail" /\ ~drained /\ ~aborted /\ UNCHANGED opVars
      /\ \/ TerminateBegin(Reader) /\ pc' = pc
         \/ TerminateReturns(Reader) /\ ReadVerdict(exitReason')
         \/ WaitFails(Reader)
  BY DEF ReaderTerminate, At, Up, Forwarding
<1>2. /\ Recorded' /\ UNCHANGED <<shutdown, closed, inPipe, faulty>>
      /\ TerminateBegin(Reader) => /\ Unfinished /\ Unfinished'
                                   /\ UNCHANGED <<exitReason, status, proc, outEnd>>
      /\ TerminateReturns(Reader) => ~Unfinished' /\ proc' = "reaped" /\ status' # "none"
      /\ ~WaitFails(Reader)
  BY <1>1, TerminateRecords
<1>3. UNCHANGED <<shutdownRequested, aborted, drained, emitted, finalSent>>
  BY <1>1 DEF opVars, runVars, upVars, outVars
<1>4. CASE TerminateBegin(Reader) /\ pc' = pc
  <2>1. AfterFinal'
    BY <1>2, <1>3, <1>4 DEF AfterFinal
  <2>2. AtReader' /\ AbortHasCause' /\ Undisturbed'
    BY <1>1, <1>2, <1>3, <1>4 DEF AtReader, AbortHasCause, Undisturbed, AllClosed
  <2>3. Forwarding'
    BY <1>3, <1>4 DEF Forwarding, FinalForwarded
  <2> QED BY <1>2, <2>1, <2>2, <2>3
<1>5. CASE TerminateReturns(Reader) /\ ReadVerdict(exitReason')
  <2>1. PICK label \in {"drain", "caught"} :
          Goto(Reader, label) /\ (label = "drain" <=> AllClosed /\ exitReason' = "Shutdown")
    BY <1>5 DEF ReadVerdict
  <2>2. /\ pc'[Reader] = label /\ pc'[PE] = pc[PE] /\ \A w \in Writers : pc'[w] = pc[w]
    BY <2>1, ReaderGoes DEF IInv, TypeOK, ReaderLabels
  <2>3. AfterFinal'
    BY <1>2, <1>3, <2>2 DEF AfterFinal
  <2>4. shutdownRequested \/ AllClosed
    BY <1>1 DEF AtReader
  <2>5. AtReader'
    BY <1>2, <1>3, <1>5, <2>1, <2>2, <2>4 DEF AtReader
  <2>6. AbortHasCause'
    BY <1>1, <1>3 DEF AbortHasCause
  <2>7. ASSUME ~shutdownRequested, ~faulty
        PROVE  /\ label = "drain" /\ proc' # "running"
               /\ shutdown' /\ inPipe' = <<>> /\ status' = "zero"
    <3>1. proc # "running"
      BY <2>4, <2>7 DEF Undisturbed, Recorded, AllClosed, Streams
    <3>2. shutdown /\ inPipe = <<>> /\ status = "zero"
      BY <2>7, <3>1 DEF Undisturbed
    <3>3. Unfinished
      BY <1>1, <2>7 DEF AtReader
    <3>4. Reap(Reader)
      BY <1>2, <1>5, <3>1, <3>3 DEF TerminateReturns, TerminateAgain, Kill, WaitForeign, Unfinished,
         IInv, ShellSide, Owned
    <3>5. exitReason' = "Shutdown" /\ status' = status
      BY <3>2, <3>4 DEF Reap, ReasonOf
    <3> QED BY <1>2, <1>5, <2>1, <2>4, <2>7, <3>2, <3>5
  <2>8. Undisturbed'
    BY <1>2, <1>3, <2>2, <2>7, <1>1 DEF Undisturbed
  <2>9. Forwarding'
    BY <1>1, <1>3, <2>2 DEF Forwarding, FinalForwarded
  <2> QED BY <1>2, <2>3, <2>5, <2>6, <2>8, <2>9
<1> QED BY <1>1, <1>2, <1>4, <1>5

(* The exception aborts the PE only for a command that failed, ...         *)
LEMMA CaughtEnd ==
  ASSUME IInv, EndSide, Caught
  PROVE  EndSide'
<1> USE DEF EndSide
<1>1. /\ UNCHANGED <<shutdown, terminated, mutex, exitReason, status, proc, outEnd, closed, faulty>>
      /\ UNCHANGED <<inPipe, shutdownRequested, drained, emitted, finalSent>>
      /\ pc[Reader] = "caught" /\ ~aborted /\ ~drained
  BY DEF Caught, At, Up, Forwarding, upVars, outVars, shellVars, objVars, childVars, pipeVars, histVars
<1>2. CASE shutdownRequested
  <2>1. Goto(Reader, "drain") /\ aborted' = aborted
    BY <1>2 DEF Caught
  <2>2. /\ pc'[Reader] = "drain" /\ pc'[PE] = pc[PE] /\ \A w \in Writers : pc'[w] = pc[w]
    BY <2>1, ReaderGoes DEF IInv, TypeOK, ReaderLabels
  <2>3. AfterFinal' /\ Recorded'
    BY <1>1, <2>2 DEF AfterFinal, Recorded
  <2>4. AtReader' /\ AbortHasCause' /\ Undisturbed'
    BY <1>1, <1>2 DEF AtReader, AbortHasCause, Undisturbed
  <2>5. Forwarding'
    BY <1>1 DEF Forwarding, FinalForwarded
  <2> QED BY <2>3, <2>4, <2>5
<1>3. CASE ~shutdownRequested
  <2>1. pc' = pc /\ aborted'
    BY <1>3 DEF Caught, Abort
  <2>2. ~Unfinished /\ exitReason # "Shutdown"
    BY <1>1, <1>3 DEF AtReader
  <2>3. proc = "reaped" /\ status # "none"
    BY <2>2 DEF IInv, ShellSide, Owned, Recorded
  <2>4. faulty
    BY <1>1, <1>3 DEF Undisturbed
  <2>5. AfterFinal' /\ Recorded'
    BY <1>1, <2>1 DEF AfterFinal, Recorded
  <2>6. AtReader' /\ AbortHasCause' /\ Undisturbed'
    BY <1>1, <2>1, <2>2, <2>3, <2>4 DEF AtReader, AbortHasCause, Undisturbed
  <2>7. Forwarding'
    BY <1>1, <2>1 DEF Forwarding, FinalForwarded
  <2> QED BY <2>5, <2>6, <2>7
<1> QED BY <1>2, <1>3

(* ... and the reader finishes when the shell is finished already.         *)
LEMMA DrainEnd ==
  ASSUME IInv, EndSide, Drain
  PROVE  EndSide'
<1> USE DEF EndSide
<1>1. /\ UNCHANGED <<shutdown, terminated, mutex, exitReason, status, proc, outEnd, closed, faulty>>
      /\ UNCHANGED <<inPipe, shutdownRequested, aborted, emitted, finalSent>>
      /\ pc[Reader] = "drain" /\ drained'
  BY DEF Drain, At, runVars, upVars, shellVars, objVars, childVars, pipeVars, histVars
<1>2. /\ pc'[Reader] = "finish" /\ pc'[PE] = pc[PE]
      /\ \A w \in Writers : pc'[w] = IF pc[w] = "waiting" THEN "drain" ELSE pc[w]
  BY ThreadsDiffer DEF Drain, Signal, IInv, TypeOK, ThreadTypeOK, PELabels
<1>3. AfterFinal' /\ Recorded'
  BY <1>1, <1>2 DEF AfterFinal, Recorded, Late
<1>4. AtReader' /\ AbortHasCause' /\ Undisturbed'
  BY <1>1, <1>2 DEF AtReader, AbortHasCause, Undisturbed, Unfinished
<1>5. Forwarding'
  BY <1>1, <1>2 DEF Forwarding
<1> QED BY <1>3, <1>4, <1>5

(* The last terminate() of the reader.                                     *)
LEMMA ReaderFinishEnd ==
  ASSUME IInv, EndSide, ReaderFinish
  PROVE  EndSide'
<1> USE DEF EndSide
<1>1. /\ pc[Reader] = "finish" /\ ~aborted
      /\ UNCHANGED <<shutdownRequested, drained, emitted, finalSent>>
      /\ \/ TerminateBegin(Reader) /\ pc' = pc /\ aborted' = aborted
         \/ TerminateReturns(Reader) /\ Goto(Reader, "done") /\ aborted' = aborted
         \/ WaitFails(Reader)
  BY DEF ReaderFinish, LastTerminate, At, Up, upVars, outVars
<1>2. /\ Recorded' /\ UNCHANGED <<shutdown, closed, inPipe, faulty>>
      /\ TerminateBegin(Reader) => /\ Unfinished /\ Unfinished'
                                   /\ UNCHANGED <<exitReason, status, proc, outEnd>>
      /\ TerminateReturns(Reader) => ~Unfinished' /\ proc' = "reaped" /\ status' # "none"
      /\ ~WaitFails(Reader)
  BY <1>1, TerminateRecords
<1>3. /\ pc'[Reader] \in {"finish", "done"} /\ pc'[PE] = pc[PE]
      /\ \A w \in Writers : pc'[w] = pc[w]
  BY <1>1, <1>2, ReaderGoes DEF IInv, TypeOK, ReaderLabels
<1>4. ASSUME ~shutdownRequested
      PROVE  /\ ~Unfinished' /\ UNCHANGED <<exitReason, status, proc, outEnd>>
  <2>1. ~Unfinished /\ ~TerminateBegin(Reader)
    BY <1>1, <1>2, <1>4 DEF AtReader
  <2>2. TerminateAgain
    BY <1>1, <1>2, <2>1, ThreadsDiffer DEF TerminateReturns, Reap, Kill, WaitForeign, Unfinished
  <2> QED BY <2>1, <2>2 DEF TerminateAgain, Unfinished, shellVars, objVars, childVars
<1>5. AfterFinal'
  BY <1>1, <1>2, <1>3 DEF AfterFinal
<1>6. AtReader' /\ AbortHasCause' /\ Undisturbed'
  BY <1>1, <1>2, <1>3, <1>4 DEF AtReader, AbortHasCause, Undisturbed
<1>7. Forwarding'
  BY <1>1, <1>3 DEF Forwarding, FinalForwarded
<1> QED BY <1>2, <1>5, <1>6, <1>7

(* The runtime's steps: from its request on, the PE is going.              *)
LEMMA PEEnd ==
  ASSUME IInv, EndSide, RequestShutdown \/ PEStep
  PROVE  EndSide'
<1> USE DEF EndSide
<1>1. /\ UNCHANGED <<faulty, drained, emitted, finalSent, closed>>
      /\ pc[PE] = "up" => UNCHANGED <<shutdown, exitReason, proc, status, outEnd>>
      /\ shutdownRequested' /\ (shutdown => shutdown')
  <2>1. CASE RequestShutdown
    BY <2>1 DEF RequestShutdown, At, upVars, outVars, shellVars, objVars, childVars, histVars
  <2>2. CASE PEStep
    <3>1. pc[PE] # "up" /\ shutdownRequested
      BY <2>2 DEF PEStep, PrepareToShutdown, Join, Destroy, At, AfterFinal
    <3>2. CASE PrepareToShutdown
      BY <3>1, <3>2 DEF PrepareToShutdown, ShutdownShell, opVars, runVars, upVars, outVars
    <3>3. CASE Join
      BY <3>1, <3>3 DEF Join, opVars, runVars, upVars, outVars, shellVars, objVars, histVars
    <3>4. CASE Destroy
      <4>1. UNCHANGED <<shutdownRequested, finalSent, drained, emitted>>
        BY <3>4 DEF Destroy, upVars, outVars
      <4>2. UNCHANGED <<shutdown, faulty, closed>>
        BY <3>4, TerminateRecords DEF Destroy, LastTerminate
      <4> QED BY <3>1, <4>1, <4>2
    <3> QED BY <2>2, <3>2, <3>3, <3>4 DEF PEStep
  <2> QED BY <2>1, <2>2
<1>2. pc' = pc \/ \E label \in {"prepare", "join", "destroy", "done"} : Goto(PE, label)
  BY DEF RequestShutdown, PEStep, PrepareToShutdown, Join, Destroy, LastTerminate
<1>3. pc'[Reader] = pc[Reader] /\ \A w \in Writers : pc'[w] = pc[w]
  BY <1>2, PEGoes DEF IInv, TypeOK, PELabels
<1>4. AfterFinal'
  BY <1>1, <1>3 DEF AfterFinal
<1>5. Recorded'
  <2>1. CASE RequestShutdown \/ Join
    BY <2>1 DEF RequestShutdown, Join, Recorded, shellVars, objVars, childVars
  <2>2. CASE PrepareToShutdown
    BY <2>2 DEF PrepareToShutdown, ShutdownShell, Recorded, childVars
  <2>3. CASE Destroy
    BY <2>3, TerminateRecords DEF Destroy, LastTerminate
  <2> QED BY <2>1, <2>2, <2>3 DEF PEStep
<1>6. AtReader' /\ AbortHasCause' /\ Undisturbed'
  BY <1>1 DEF AtReader, AbortHasCause, Undisturbed
<1>7. Forwarding'
  BY <1>1, <1>3 DEF Forwarding, FinalForwarded
<1> QED BY <1>4, <1>5, <1>6, <1>7

(* The command's own steps: without a fault it ends after shutdown() and   *)
(* with its input read.                                                    *)
LEMMA CommandEnd ==
  ASSUME IInv, EndSide, CommandStep \/ CommandFault
  PROVE  EndSide'
<1> USE DEF EndSide
<1>1. ~aborted /\ UNCHANGED <<pc, opVars>>
  BY DEF CommandStep, CommandFault, Beside, Up
<1>2. UNCHANGED <<pc, shutdownRequested, aborted, drained, emitted, finalSent>>
  BY <1>1 DEF opVars, runVars, upVars, outVars
<1>3. CASE ChildRead \/ ChildReadRest \/ \E s \in Streams : ChildWrite(s)
  <2>1. /\ UNCHANGED <<shutdown, terminated, mutex, exitReason, status, proc, outEnd, closed, faulty>>
        /\ proc = "running"
    BY <1>3 DEF ChildRead, ChildReadRest, ChildWrite, objVars, histVars
  <2> QED BY <1>2, <2>1, EndFrame DEF EndVars
<1>4. CASE ChildExit \/ ChildQuit \/ \E s \in Streams : ChildClose(s)
  <2>1. /\ UNCHANGED <<shutdown, terminated, mutex, exitReason, closed, inPipe>> /\ proc = "running"
    BY <1>4 DEF ChildExit, ChildQuit, ChildClose, Die, objVars, pipeVars
  <2>2. \/ proc' = "running" /\ status' = status /\ faulty'
           /\ \A s \in Streams : outEnd'[s] => outEnd[s]
        \/ proc' = "zombie" /\ status' # "none" /\ (\A s \in Streams : ~outEnd'[s])
           /\ (faulty' \/ (ChildExit /\ status' = "zero" /\ faulty' = faulty))
    <3>1. CASE ChildExit
      BY <3>1 DEF ChildExit, Die
    <3>2. CASE ChildQuit
      <4>1. PICK st \in QuitStatus : Die(st) /\ faulty'
        BY <3>2 DEF ChildQuit
      <4>2. st # "none"
        BY FaultAssumption
      <4>3. proc' = "zombie" /\ status' = st /\ outEnd' = [s \in Streams |-> FALSE]
        BY <4>1 DEF Die
      <4>4. \A s \in Streams : ~outEnd'[s]
        BY <4>3
      <4>5. proc' = "zombie" /\ status' # "none" /\ faulty'
        BY <4>1, <4>2, <4>3
      <4> QED BY ONLY <4>4, <4>5, ZenonT(30)
    <3>3. ASSUME NEW s \in Streams, ChildClose(s)
          PROVE  /\ proc' = "running" /\ status' = status /\ faulty'
                 /\ \A r \in Streams : outEnd'[r] => outEnd[r]
      <4>1. outEnd' = [outEnd EXCEPT ![s] = FALSE] /\ outEnd \in [Streams -> BOOLEAN]
        BY <3>3 DEF ChildClose, IInv, TypeOK, ShellTypeOK
      <4>2. proc' = "running" /\ status' = status /\ faulty'
        BY <3>3 DEF ChildClose
      <4> QED BY <4>1, <4>2
    <3> QED BY <1>4, <3>1, <3>2, <3>3
  <2>3. ChildExit => shutdown /\ inPipe = <<>>
    <3> SUFFICES ASSUME ChildExit PROVE shutdown /\ inPipe = <<>>
      OBVIOUS
    <3>1. inPipe = <<>> /\ fd["in"] # "open"
      BY DEF ChildExit, StdinAtEOF
    <3>2. fd = [f \in Fds |-> IF f = "in" /\ shutdown THEN "closed" ELSE "open"]
      BY <2>1 DEF IInv, ShellSide, Owned
    <3> QED BY <3>1, <3>2 DEF Fds
  <2>4. AfterFinal' /\ Forwarding'
    BY <1>2, <2>1 DEF AfterFinal, Forwarding, FinalForwarded
  <2>5. Recorded'
    BY <2>1, <2>2 DEF Recorded
  <2>6. AtReader' /\ AbortHasCause'
    BY <1>1, <1>2, <2>1 DEF AtReader, AbortHasCause, AllClosed, Unfinished
  <2>7. Undisturbed'
    BY <1>2, <2>1, <2>2, <2>3 DEF Undisturbed
  <2> QED BY <2>4, <2>5, <2>6, <2>7
<1> QED BY <1>3, <1>4 DEF CommandStep, CommandFault

(* A writer on its way through process(tuple), and the upstream.           *)
LEMMA WriterEnd ==
  ASSUME IInv, EndSide, ~InitOnFirstTuple, NEW w \in Writers,
         \/ WriterStep(w) \/ Receive(w) \/ WindowMarker(w) \/ FinalMarker(w)
  PROVE  EndSide'
<1> USE DEF EndSide
<1>1. CASE WriteFail(w)
  BY <1>1, WriteFailEnd
<1>2. CASE WriterTerminate(w)
  BY <1>2, WriterTerminateEnd
<1>3. CASE FinalMarker(w) \/ FinalShutdown(w) \/ AwaitDrained(w)
  BY <1>3, PunctuationEnd
<1>4. CASE \/ Enter(w) \/ Store(w) \/ WriteBegin(w) \/ WriteEnd(w)
           \/ Receive(w) \/ WindowMarker(w)
  <2>1. finalSent => WindowMarker(w)
    BY <1>4 DEF Enter, Store, WriteBegin, WriteEnd, Receive, At, AfterFinal, Late
  <2>2. pc' = pc \/ \E label \in {"enter", "store", "write", "idle"} : Goto(w, label)
    BY <1>4 DEF Enter, Store, WriteBegin, WriteEnd, Receive, WindowMarker
  <2>3. /\ pc'[Reader] = pc[Reader] /\ pc'[PE] = pc[PE]
        /\ \A x \in Writers : pc'[x] = pc[x] \/ pc'[x] \notin {"shut", "writeFail"}
    BY <2>2, WriterGoes DEF IInv, TypeOK, WriterLabels
  <2>4. WindowMarker(w) => pc' = pc
    BY DEF WindowMarker
  <2>5. UNCHANGED EndVars /\ (inPipe' = inPipe \/ proc = "running")
    BY <1>4 DEF EndVars, Enter, Store, WriteBegin, WriteEnd, Receive, WindowMarker, BeginWrite, EndWrite,
       opVars, runVars, upVars, outVars, shellVars, objVars, childVars, pipeVars, histVars
  <2> QED BY <2>1, <2>3, <2>4, <2>5, EndFrame
<1>5. ~StartShell(w)
  BY DEF StartShell, CheckFirst, At, IInv, WriteSide, NeverLate
<1> QED BY <1>1, <1>2, <1>3, <1>4, <1>5 DEF WriterStep

(* Every step keeps the end in order.                                      *)
LEMMA EndStep ==
  ASSUME IInv, EndSide, ~InitOnFirstTuple, [Next]_vars
  PROVE  EndSide'
<1>1. ASSUME NEW w \in Writers, WriterStep(w) PROVE EndSide'
  BY <1>1, WriterEnd
<1>2. CASE ReaderStep
  <2>1. CASE ReadOut \/ ReadErr
    BY <2>1, ReadStreamEnd DEF ReadOut, ReadErr, Streams
  <2> QED BY <1>2, <2>1, ReadingEnd, ReaderTerminateEnd, CaughtEnd, DrainEnd, ReaderFinishEnd
          DEF ReaderStep
<1>3. CASE PEStep \/ RequestShutdown
  BY <1>3, PEEnd
<1>4. CASE Upstream
  BY <1>4, WriterEnd DEF Upstream
<1>5. CASE CommandStep \/ CommandFault
  BY <1>5, CommandEnd
<1>6. CASE Ended \/ UNCHANGED vars
  <2>1. UNCHANGED EndVars /\ UNCHANGED <<pc, inPipe>>
    BY <1>6 DEF Ended, EndVars, vars, opVars, runVars, upVars, outVars, shellVars, objVars,
       childVars, pipeVars, histVars
  <2> QED BY <2>1, EndFrame
<1> QED BY <1>1, <1>2, <1>3, <1>4, <1>5, <1>6 DEF Next

(* The operator begins with nothing ended.                                 *)
LEMMA EndInit == ~InitOnFirstTuple /\ Init => EndSide
<1> SUFFICES ASSUME ~InitOnFirstTuple, Init PROVE EndSide
  OBVIOUS
<1>1. /\ pc[PE] = "up" /\ pc[Reader] = "test" /\ \A w \in Writers : pc[w] = "idle"
      /\ ~aborted /\ ~finalSent /\ ~drained /\ emitted = <<>>
  BY ThreadsDiffer DEF Init
<1>2. /\ exitReason = "Unknown" /\ status = "none" /\ proc = "running" /\ ~shutdown /\ ~terminated
      /\ \A s \in Streams : outEnd[s] /\ ~closed[s]
  BY DEF Init, ShellInit
<1>3. AfterFinal /\ Recorded
  BY <1>1, <1>2 DEF AfterFinal, Recorded
<1>4. AtReader /\ AbortHasCause /\ Undisturbed
  BY <1>1, <1>2 DEF AtReader, AbortHasCause, Undisturbed, Unfinished
<1>5. Forwarding
  BY <1>1 DEF Forwarding, FinalForwarded
<1> QED BY <1>3, <1>4, <1>5 DEF EndSide

(* Both invariants hold together in every behaviour.                       *)
THEOREM EndInductive ==
  ASSUME ~InitOnFirstTuple
  PROVE  Spec => [](IInv /\ EndSide)
<1>1. Init => IInv /\ EndSide
  BY IInvInit, EndInit
<1>2. IInv /\ EndSide /\ [Next]_vars => EndSide'
  BY EndStep
<1> QED BY <1>1, <1>2, Inductive, PTL DEF Spec

(* Without initOnFirstTuple the PE is never aborted for nothing: when it   *)
(* is, and was not shutting down, the command has ended and been waited    *)
(* for, and not because it was told to.                                    *)
THEOREM AbortsForCause ==
  ASSUME ~InitOnFirstTuple
  PROVE  Spec => []AbortHasCause
<1>1. EndSide => AbortHasCause
  BY DEF EndSide
<1> QED BY <1>1, EndInductive, PTL

(* Without initOnFirstTuple a command that reads its input to the end and  *)
(* exits with 0 never brings the PE down, whichever thread notices first.  *)
THEOREM NeverAbortsUndisturbed ==
  ASSUME ~InitOnFirstTuple
  PROVE  Spec => []NoSpuriousAbort
<1>1. EndSide => NoSpuriousAbort
  BY DEF EndSide, Undisturbed, NoSpuriousAbort
<1> QED BY <1>1, EndInductive, PTL

(* Without initOnFirstTuple the final punctuation is forwarded only after  *)
(* the command has read every line that mutex_ admitted, unless it failed  *)
(* or the PE was shut down.                                                *)
THEOREM FinalAfterInput ==
  ASSUME ~InitOnFirstTuple
  PROVE  Spec => []InputConsumed
<1>1. IInv /\ EndSide => InputConsumed
  <2> SUFFICES ASSUME IInv, EndSide, FinalForwarded, ~shutdownRequested, ~faulty
               PROVE  consumed = accepted
    BY DEF InputConsumed
  <2>1. pc[Reader] \in {"finish", "done"} /\ ~aborted
    BY DEF EndSide, Forwarding, Undisturbed
  <2>2. ~Unfinished
    BY <2>1 DEF EndSide, AtReader
  <2>3. proc = "reaped"
    BY <2>2 DEF IInv, ShellSide, Owned
  <2>4. inPipe = <<>> /\ shutdown
    BY <2>3 DEF EndSide, Undisturbed
  <2>5. \A w \in Writers : pc[w] \in Late
    BY <2>4 DEF EndSide, AfterFinal
  <2>6. Pending = <<>>
    BY <2>5 DEF Pending, Late, IInv, TypeOK, InputTypeOK
  <2>7. accepted = (consumed \o <<>>) \o <<>>
    BY <2>4, <2>6 DEF IInv, WriteSide, Accounted
  <2>8. consumed \in Seq(Token)
    BY OnTheirWay DEF IInv
  <2> QED BY <2>7, <2>8, ConcatEmptySeq
<1> QED BY <1>1, EndInductive, PTL
-----------------------------------------------------------------------------
(* One shell, and what it prints                                           *)

(* What follows holds with initOnFirstTuple, too, where no two threads     *)
(* bring the first tuples at once.                                         *)
Starting == {"setup", "fork", "mark"}
Early    == {"check"} \cup Starting

OneAtATime ==
  ~firstTuple => \A v, w \in Writers : pc[v] \in Early /\ pc[w] \in Early => v = w

(* One thread brings the final punctuation, once, and after the reader is  *)
(* through with the output.                                                *)
AtFinal == {"shut", "drain", "waiting", "done"}

FinalOnce ==
  /\ FinalForwarded => drained /\ finalSent
  /\ drained => pc[Reader] \in {"finish", "done"}
  /\ finalSent => \A w \in Writers : pc[w] \in Late
  /\ \A w \in Writers : pc[w] \in AtFinal => finalSent /\ (pc[w] # "done" => ~FinalForwarded)
  /\ \A v, w \in Writers : pc[v] \in AtFinal /\ pc[w] \in AtFinal => v = w

(* A step of the reader but the one that signals the writers moves nobody  *)
(* else.                                                                   *)
LEMMA ReaderPlace ==
  ASSUME TypeOK, ReaderStep, ~Drain
  PROVE  /\ pc'[PE] = pc[PE] /\ \A w \in Writers : pc'[w] = pc[w]
         /\ \E label \in ReaderLabels : pc'[Reader] = label
<1>1. UNCHANGED pc \/ \E label \in ReaderLabels : Goto(Reader, label)
  BY DEF ReaderStep, Spin, TestShutdown, ReadBuffered, ReadMore, Select, ReadOut, ReadErr,
     ReadStream, ReaderTerminate, ReadVerdict, Caught, CopyAttributes, Submit, ReaderFinish,
     LastTerminate, ReaderLabels
<1> QED BY <1>1, ReaderGoes DEF TypeOK, ThreadTypeOK

(* A step of a writer before the FinalMarker moves nobody else, and leaves *)
(* the output alone.                                                       *)
LEMMA WriterPlace ==
  ASSUME TypeOK, NEW w \in Writers,
         \/ StartShell(w) \/ Enter(w) \/ Store(w) \/ WriteBegin(w) \/ WriteEnd(w)
         \/ WriteFail(w) \/ WriterTerminate(w) \/ Receive(w) \/ WindowMarker(w)
  PROVE  /\ pc'[Reader] = pc[Reader] /\ pc'[PE] = pc[PE]
         /\ \A x \in Writers \ {w} : pc'[x] = pc[x]
         /\ \/ pc'[w] = pc[w]
            \/ pc[w] \notin AtFinal /\ pc'[w] \notin AtFinal /\ (pc[w] \notin Late \/ ~finalSent)
         /\ UNCHANGED <<emitted, drained, finalSent, taken, got, shutdownRequested>>
<1>1. UNCHANGED <<emitted, drained, finalSent, taken, got, shutdownRequested>>
  BY DEF StartShell, Enter, Store, WriteBegin, WriteEnd, WriteFail, WriterTerminate, Receive,
     WindowMarker, opVars, runVars, upVars, outVars
<1>2. \/ UNCHANGED pc
      \/ /\ pc[w] \notin AtFinal /\ (pc[w] \notin Late \/ ~finalSent)
         /\ \E label \in WriterLabels \ AtFinal : Goto(w, label)
  BY DEF StartShell, CheckFirst, Enter, Store, WriteBegin, WriteEnd, WriteFail, WriterTerminate,
     Receive, WindowMarker, Callable, At, WriterLabels, AtFinal, Late
<1>3. CASE UNCHANGED pc
  BY <1>1, <1>3
<1>4. CASE /\ pc[w] \notin AtFinal /\ (pc[w] \notin Late \/ ~finalSent)
           /\ \E label \in WriterLabels \ AtFinal : Goto(w, label)
  BY <1>1, <1>4, WriterGoes DEF TypeOK
<1> QED BY <1>2, <1>3, <1>4

(* The steps of the runtime move nobody else.                              *)
LEMMA PEPlace ==
  ASSUME TypeOK, PEStep \/ RequestShutdown
  PROVE  /\ pc'[Reader] = pc[Reader] /\ \A x \in Writers : pc'[x] = pc[x]
         /\ UNCHANGED <<emitted, drained, finalSent, taken, got, upVars, portVars>>
         /\ shutdownRequested => shutdownRequested'
<1>1. /\ UNCHANGED <<emitted, drained, finalSent, taken, got, upVars, portVars>>
      /\ shutdownRequested => shutdownRequested'
  BY DEF PEStep, RequestShutdown, PrepareToShutdown, Join, Destroy, opVars, runVars, upVars, outVars
<1>2. UNCHANGED pc \/ \E label \in PELabels : Goto(PE, label)
  BY DEF PEStep, RequestShutdown, PrepareToShutdown, Join, Destroy, LastTerminate, PELabels
<1> QED BY <1>1, <1>2, PEGoes DEF TypeOK

(* Steps with no part in the final punctuation.                            *)
LEMMA FinalFrame ==
  ASSUME FinalOnce, UNCHANGED <<emitted, drained, finalSent>>,
         drained => pc'[Reader] \in {"finish", "done"},
         \A w \in Writers :
           \/ pc'[w] = pc[w]
           \/ pc[w] \notin AtFinal /\ pc'[w] \notin AtFinal /\ (finalSent => pc'[w] \in Late)
           \/ pc[w] \in {"shut", "drain", "waiting"} /\ pc'[w] \in {"drain", "waiting"}
  PROVE  FinalOnce'
<1>1. FinalForwarded' <=> FinalForwarded
  BY DEF FinalForwarded
<1>2. \A w \in Writers : /\ pc'[w] \in AtFinal <=> pc[w] \in AtFinal
                         /\ pc'[w] \in AtFinal /\ pc'[w] # "done" => pc[w] # "done"
  BY DEF AtFinal
<1>3. finalSent => \A w \in Writers : pc'[w] \in Late
  BY DEF FinalOnce, Late
<1> QED BY <1>1, <1>2, <1>3 DEF FinalOnce

(* No final punctuation has arrived at first,                              *)
LEMMA FinalOnceInit == Init => FinalOnce
<1> SUFFICES ASSUME Init PROVE FinalOnce
  OBVIOUS
<1>1. \A w \in Writers : pc[w] = "idle"
  BY ThreadsDiffer DEF Init
<1> QED BY <1>1 DEF Init, FinalOnce, FinalForwarded, AtFinal, Late

(* A line that is submitted is not the final punctuation, and before the   *)
(* end there is none.                                                      *)
LEMMA SubmitFinalOnce ==
  ASSUME TypeOK, FinalOnce, Submit
  PROVE  FinalOnce'
<1>1. /\ ~drained /\ UNCHANGED <<drained, finalSent>> /\ ~FinalForwarded
  BY DEF Submit, At, FinalOnce, upVars
<1>2. \A w \in Writers : pc'[w] = pc[w]
  BY ReaderPlace, ThreadsDiffer DEF ReaderStep, Submit, Drain, At
<1>3. ~FinalForwarded'
  <2>1. CASE emitted' = emitted
    BY <1>1, <2>1 DEF FinalForwarded
  <2>2. CASE emitted' # emitted
    <3> DEFINE e == [port |-> Port, line |-> got[Port][1], from |-> <<copied, inputTuple[2]>>]
    <3>1. emitted' = Append(emitted, e) /\ e.port # "final"
      BY <2>2 DEF Submit, Port
    <3> HIDE DEF e
    <3>2. emitted'[Len(emitted')] = e
      BY <3>1 DEF TypeOK, OutputTypeOK
    <3> QED BY <3>1, <3>2 DEF FinalForwarded
  <2> QED BY <2>1, <2>2
<1> QED BY <1>1, <1>2, <1>3 DEF FinalOnce

(* and no step brings a second one.                                        *)
LEMMA FinalOnceStep ==
  ASSUME TypeOK, FinalOnce, [Next]_vars
  PROVE  FinalOnce'
<1>1. ASSUME NEW w \in Writers, FinalMarker(w)
      PROVE  FinalOnce'
  <2>1. /\ finalSent' = TRUE /\ ~finalSent /\ UNCHANGED <<emitted, drained>>
        /\ Goto(w, "shut") /\ \A x \in Writers : pc[x] = "idle"
    BY <1>1 DEF FinalMarker, Callable, At, outVars
  <2>2. /\ pc'[w] = "shut" /\ (\A x \in Writers \ {w} : pc'[x] = "idle") /\ pc'[Reader] = pc[Reader]
    BY <2>1, WriterGoes DEF TypeOK, WriterLabels
  <2>3. ~FinalForwarded'
    BY <2>1 DEF FinalOnce, FinalForwarded
  <2> QED BY <2>1, <2>2, <2>3 DEF FinalOnce, AtFinal, Late
<1>2. ASSUME NEW w \in Writers, FinalShutdown(w)
      PROVE  FinalOnce'
  <2>1. pc[w] = "shut" /\ Goto(w, "drain") /\ UNCHANGED <<emitted, drained, finalSent>>
    BY <1>2 DEF FinalShutdown, At, opVars, upVars, outVars
  <2>2. pc'[w] = "drain" /\ (\A x \in Writers \ {w} : pc'[x] = pc[x]) /\ pc'[Reader] = pc[Reader]
    BY <2>1, WriterGoes DEF TypeOK, WriterLabels
  <2>3. drained => pc'[Reader] \in {"finish", "done"}
    BY <2>2 DEF FinalOnce
  <2> QED BY <2>1, <2>2, <2>3, FinalFrame
<1>3. ASSUME NEW w \in Writers, AwaitDrained(w)
      PROVE  FinalOnce'
  <2>1. pc[w] = "drain" /\ UNCHANGED <<drained, finalSent>>
    BY <1>3 DEF AwaitDrained, At, upVars
  <2>2. CASE ~drained
    <3>1. Goto(w, "waiting") /\ UNCHANGED emitted
      BY <1>3, <2>2 DEF AwaitDrained, MayForward
    <3>2. pc'[w] = "waiting" /\ (\A x \in Writers \ {w} : pc'[x] = pc[x]) /\ pc'[Reader] = pc[Reader]
      BY <3>1, WriterGoes DEF TypeOK, WriterLabels
    <3> QED BY <2>1, <2>2, <3>1, <3>2, FinalFrame
  <2>3. CASE drained
    <3>1. Goto(w, "done")
      BY <1>3, <2>3 DEF AwaitDrained, MayForward
    <3>2. pc'[w] = "done" /\ (\A x \in Writers \ {w} : pc'[x] = pc[x]) /\ pc'[Reader] = pc[Reader]
      BY <3>1, WriterGoes DEF TypeOK, WriterLabels
    <3>3. finalSent
      BY <2>1 DEF FinalOnce, AtFinal
    <3>4. \A x \in Writers : pc'[x] \in AtFinal <=> pc[x] \in AtFinal
      BY <2>1, <3>2 DEF AtFinal
    <3>5. \A x \in Writers : pc'[x] \in AtFinal => x = w
      BY <2>1, <3>4 DEF FinalOnce, AtFinal
    <3> QED BY <2>1, <2>3, <3>2, <3>3, <3>4, <3>5 DEF FinalOnce, Late
  <2> QED BY <2>2, <2>3 DEF TypeOK, FlagTypeOK
<1>4. ASSUME NEW w \in Writers, WriterStep(w) \/ Receive(w) \/ WindowMarker(w),
             ~FinalShutdown(w), ~AwaitDrained(w)
      PROVE  FinalOnce'
  <2>1. /\ pc'[Reader] = pc[Reader]
        /\ \A x \in Writers \ {w} : pc'[x] = pc[x]
        /\ \/ pc'[w] = pc[w]
           \/ pc[w] \notin AtFinal /\ pc'[w] \notin AtFinal /\ (pc[w] \notin Late \/ ~finalSent)
        /\ UNCHANGED <<emitted, drained, finalSent>>
    BY <1>4, WriterPlace DEF WriterStep
  <2>2. pc[w] \notin Late => ~finalSent
    BY DEF FinalOnce
  <2>3. drained => pc'[Reader] \in {"finish", "done"}
    BY <2>1 DEF FinalOnce
  <2> QED BY <2>1, <2>2, <2>3, FinalFrame
<1>5. CASE Drain
  <2>1. /\ pc[Reader] = "drain" /\ UNCHANGED <<emitted, finalSent>> /\ drained' = TRUE
        /\ pc'[Reader] = "finish"
        /\ \A x \in Writers : pc'[x] = IF pc[x] = "waiting" THEN "drain" ELSE pc[x]
    BY <1>5, ThreadsDiffer DEF Drain, At, Signal, upVars
  <2>2. ~FinalForwarded'
    BY <2>1 DEF FinalOnce, FinalForwarded
  <2>3. \A x \in Writers : /\ pc'[x] \in AtFinal <=> pc[x] \in AtFinal
                           /\ pc[x] \in Late => pc'[x] \in Late
    BY <2>1 DEF AtFinal, Late
  <2> QED BY <2>1, <2>2, <2>3 DEF FinalOnce
<1>6. CASE Submit
  BY <1>6, SubmitFinalOnce
<1>7. CASE ReaderStep /\ ~Drain /\ ~Submit
  <2>1. \A w \in Writers : pc'[w] = pc[w]
    BY <1>7, ReaderPlace
  <2>2. UNCHANGED <<emitted, drained, finalSent>>
    BY <1>7 DEF ReaderStep, Spin, TestShutdown, ReadBuffered, ReadMore, Select, ReadOut, ReadErr,
       ReadStream, ReaderTerminate, Caught, CopyAttributes, ReaderFinish, opVars, runVars, upVars,
       outVars
  <2>3. drained => pc'[Reader] \in {"finish", "done"}
    <3>1. CASE ReaderFinish
      <4>1. UNCHANGED pc \/ Goto(Reader, "done")
        BY <3>1 DEF ReaderFinish, LastTerminate
      <4> QED BY <4>1, ReaderGoes DEF TypeOK, ReaderLabels, FinalOnce
    <3>2. CASE ~ReaderFinish
      BY <1>7, <3>2 DEF FinalOnce, At, ReaderStep, Spin, TestShutdown, ReadBuffered, ReadMore, Select,
         ReadOut, ReadErr, ReadStream, ReaderTerminate, Caught, CopyAttributes
    <3> QED BY <3>1, <3>2
  <2> QED BY <2>1, <2>2, <2>3, FinalFrame
<1>8. CASE PEStep \/ RequestShutdown
  BY <1>8, PEPlace, FinalFrame DEF FinalOnce
<1>9. CASE CommandStep \/ CommandFault \/ UNCHANGED vars
  <2>1. UNCHANGED <<pc, opVars>>
    BY <1>9 DEF CommandStep, CommandFault, Beside, vars
  <2> QED BY <2>1, FinalFrame DEF opVars, upVars, outVars, FinalOnce
<1> QED BY <1>1, <1>2, <1>3, <1>4, <1>5, <1>6, <1>7, <1>8, <1>9 DEF Next, Upstream, Ended

(* Before the shell is started there is none of its text, and the reader   *)
(* does not go on to read; afterwards nobody starts a second one.          *)
NoShell ==
  /\ proc = "none" /\ written = Nothing /\ outPipe = Nothing /\ buffer = Nothing
  /\ taken = [s \in Streams |-> 0]
  /\ emitted # <<>> => finalSent

Startup ==
  /\ ~InitOnFirstTuple => shells = 1 /\ pc[Reader] # "spin" /\ \A w \in Writers : pc[w] \notin Early
  /\ InitOnFirstTuple /\ firstTuple => shells = 1 /\ \A w \in Writers : pc[w] \notin Starting
  /\ InitOnFirstTuple /\ ~firstTuple =>
       /\ shells = IF \E w \in Writers : pc[w] = "mark" THEN 1 ELSE 0
       /\ pc[Reader] \in {"spin", "test", "drain", "finish", "done"}
       /\ pc[Reader] # "spin" => shutdownRequested
  /\ shells = 0 => NoShell

(* Steps that start nothing.                                               *)
LEMMA StartupFrame ==
  ASSUME Startup, UNCHANGED <<firstTuple, shells>>, shutdownRequested => shutdownRequested',
         \A w \in Writers : \/ pc'[w] = pc[w]
                            \/ /\ pc[w] \notin Starting /\ pc'[w] \notin Starting
                               /\ pc'[w] = "check" => InitOnFirstTuple,
         \/ pc'[Reader] = pc[Reader]
         \/ /\ pc'[Reader] # "spin"
            /\ InitOnFirstTuple /\ ~firstTuple =>
                 pc'[Reader] \in {"test", "drain", "finish", "done"} /\ shutdownRequested,
         shells = 0 => NoShell'
  PROVE  Startup'
<1>1. \A w \in Writers : /\ pc'[w] \in Starting <=> pc[w] \in Starting
                         /\ pc'[w] = "mark" <=> pc[w] = "mark"
  BY DEF Starting
<1>2. ~InitOnFirstTuple => shells' = 1 /\ pc'[Reader] # "spin" /\ \A w \in Writers : pc'[w] \notin Early
  BY <1>1 DEF Startup, Early
<1> QED BY <1>1, <1>2 DEF Startup

(* The constructor starts the shell unless the first tuple is to do it.    *)
LEMMA StartupInit == Init => Startup
<1> SUFFICES ASSUME Init PROVE Startup
  OBVIOUS
<1>1. /\ \A w \in Writers : pc[w] = "idle"
      /\ pc[Reader] = IF InitOnFirstTuple THEN "spin" ELSE "test"
  BY ThreadsDiffer DEF Init
<1>2. shells = IF InitOnFirstTuple THEN 0 ELSE 1
  BY DEF Init, ShellInit
<1>3. InitOnFirstTuple => NoShell
  BY DEF Init, ShellInit, NoShell
<1> QED BY <1>1, <1>2, <1>3 DEF Init, Startup, Early, Starting

(* The steps of the thread that starts the shell.                          *)
LEMMA StartShellStartup ==
  ASSUME TypeOK, OneAtATime, Startup, NEW w \in Writers, StartShell(w)
  PROVE  Startup'
<1>1. /\ pc[w] \in Early /\ InitOnFirstTuple
      /\ UNCHANGED <<finalSent, taken, emitted, shutdownRequested>>
  BY DEF StartShell, CheckFirst, At, Early, Starting, Startup, runVars, upVars, outVars
<1>2. /\ pc'[Reader] = pc[Reader] /\ \A x \in Writers \ {w} : pc'[x] = pc[x]
  BY WriterPlace
<1>3. CASE CheckFirst(w)
  <2>1. /\ pc[w] = "check" /\ UNCHANGED <<firstTuple, shells, proc, written, outPipe, buffer>>
        /\ Goto(w, IF firstTuple THEN "enter" ELSE "setup")
    BY <1>3 DEF CheckFirst, At, shellVars, objVars, childVars, pipeVars, histVars
  <2>2. pc'[w] = IF firstTuple THEN "enter" ELSE "setup"
    BY <2>1, WriterGoes DEF TypeOK, WriterLabels
  <2>3. \A x \in Writers : /\ pc'[x] = "mark" <=> pc[x] = "mark"
                           /\ firstTuple => (pc'[x] \in Starting <=> pc[x] \in Starting)
    BY <1>2, <2>1, <2>2 DEF Starting
  <2> QED BY <1>1, <1>2, <2>1, <2>3 DEF Startup, NoShell
<1>4. CASE At(w, "setup") /\ SetupBegin /\ Goto(w, "fork") /\ UNCHANGED firstTuple
  <2>1. pc[w] = "setup" /\ UNCHANGED <<firstTuple, shells, written, outPipe, buffer>> /\ proc' = "none"
    BY <1>4 DEF At, SetupBegin, pipeVars, histVars
  <2>2. pc'[w] = "fork"
    BY <1>4, WriterGoes DEF TypeOK, WriterLabels
  <2>3. \A x \in Writers : /\ pc'[x] = "mark" <=> pc[x] = "mark"
                           /\ pc'[x] \in Starting <=> pc[x] \in Starting
    BY <1>2, <2>1, <2>2 DEF Starting
  <2> QED BY <1>1, <1>2, <2>1, <2>3 DEF Startup, NoShell
<1>5. CASE At(w, "fork") /\ SetupFork(Nothing) /\ Goto(w, "mark") /\ UNCHANGED firstTuple
  <2>1. pc[w] = "fork" /\ firstTuple' = firstTuple /\ shells' = shells + 1
    BY <1>5 DEF At, SetupFork
  <2>2. pc'[w] = "mark"
    BY <1>5, WriterGoes DEF TypeOK, WriterLabels
  <2>3. ~firstTuple
    BY <1>1, <2>1 DEF Startup, Starting
  <2>4. \A x \in Writers : pc[x] # "mark"
    BY <1>1, <2>1, <2>3 DEF OneAtATime, Early, Starting
  <2>5. shells = 0
    BY <1>1, <2>3, <2>4 DEF Startup
  <2> QED BY <1>1, <1>2, <2>1, <2>2, <2>3, <2>5 DEF Startup
<1>6. CASE At(w, "mark") /\ firstTuple' = TRUE /\ Goto(w, "enter") /\ UNCHANGED shellVars
  <2>1. pc[w] = "mark" /\ shells' = shells
    BY <1>6 DEF At, shellVars, histVars
  <2>2. pc'[w] = "enter"
    BY <1>6, WriterGoes DEF TypeOK, WriterLabels
  <2>3. ~firstTuple
    BY <1>1, <2>1 DEF Startup, Starting
  <2>4. \A x \in Writers : pc'[x] \notin Starting
    BY <1>1, <1>2, <2>1, <2>2, <2>3 DEF OneAtATime, Early, Starting
  <2>5. shells = 1
    BY <1>1, <2>1, <2>3 DEF Startup
  <2> QED BY <1>1, <1>6, <2>1, <2>4, <2>5 DEF Startup
<1> QED BY <1>3, <1>4, <1>5, <1>6 DEF StartShell

(* terminate() starts nothing, and does not find a command that is not     *)
(* there.                                                                  *)
LEMMA TerminateStarts ==
  ASSUME NEW t, TerminateBegin(t) \/ TerminateReturns(t) \/ WaitFails(t)
  PROVE  UNCHANGED <<shells, written, outPipe, buffer>> /\ (proc = "none" => proc' = "none")
BY DEF TerminateBegin, TerminateReturns, TerminateAgain, Reap, Kill, WaitForeign, WaitFails,
       shellVars, objVars, childVars, pipeVars, histVars

(* The other steps of the writers start nothing,                           *)
LEMMA WriterStartup ==
  ASSUME TypeOK, FinalOnce, Startup, NEW w \in Writers, ~StartShell(w),
         WriterStep(w) \/ Receive(w) \/ WindowMarker(w) \/ FinalMarker(w)
  PROVE  Startup'
<1>1. UNCHANGED <<firstTuple, shutdownRequested, taken>> /\ (finalSent => finalSent')
  BY DEF WriterStep, Enter, Store, WriteBegin, WriteEnd, WriteFail, WriterTerminate,
     FinalShutdown, AwaitDrained, Receive, WindowMarker, FinalMarker, opVars, runVars, upVars,
     portVars, outVars
<1>2. /\ UNCHANGED <<shells, written, outPipe, buffer>>
      /\ proc = "none" => proc' = "none"
  <2>1. CASE WriterTerminate(w)
    BY <2>1, TerminateStarts DEF WriterTerminate
  <2>2. CASE ~WriterTerminate(w)
    BY <2>2 DEF WriterStep, Enter, Store, WriteBegin, BeginWrite, WriteEnd, EndWrite, WriteFail,
       FailWrite, FinalShutdown, ShutdownShell, CloseFds, AwaitDrained, Receive, WindowMarker,
       FinalMarker, shellVars, objVars, childVars, pipeVars, histVars
  <2> QED BY <2>1, <2>2
<1>3. emitted' = emitted \/ finalSent'
  BY DEF WriterStep, Enter, Store, WriteBegin, WriteEnd, WriteFail, WriterTerminate,
     FinalShutdown, AwaitDrained, Receive, WindowMarker, FinalMarker, opVars, upVars, outVars,
     At, FinalOnce, AtFinal
<1>4. shells = 0 => NoShell'
  BY <1>1, <1>2, <1>3 DEF Startup, NoShell
<1>5. \/ UNCHANGED pc
      \/ /\ pc[w] \notin Starting
         /\ \E label \in WriterLabels \ Starting :
              Goto(w, label) /\ (label = "check" => InitOnFirstTuple)
  BY DEF WriterStep, Enter, Store, WriteBegin, WriteEnd, WriteFail, WriterTerminate,
     FinalShutdown, AwaitDrained, Receive, WindowMarker, FinalMarker, Callable, At, Starting,
     WriterLabels
<1>6. CASE UNCHANGED pc
  BY <1>1, <1>2, <1>4, <1>6, StartupFrame
<1>7. ASSUME NEW label \in WriterLabels \ Starting, Goto(w, label), pc[w] \notin Starting,
             label = "check" => InitOnFirstTuple
      PROVE  Startup'
  <2>1. pc'[w] = label /\ pc'[Reader] = pc[Reader] /\ \A x \in Writers \ {w} : pc'[x] = pc[x]
    BY <1>7, WriterGoes DEF TypeOK
  <2> QED BY <1>1, <1>2, <1>4, <1>7, <2>1, StartupFrame
<1> QED BY <1>5, <1>6, <1>7

(* nor do those of the reader,                                             *)
LEMMA ReaderStartup ==
  ASSUME TypeOK, Startup, ReaderStep
  PROVE  Startup'
<1>1. UNCHANGED <<firstTuple, shutdownRequested, finalSent>>
  BY DEF ReaderStep, Spin, TestShutdown, ReadBuffered, ReadMore, Select, ReadOut, ReadErr, ReadStream,
     ReaderTerminate, Caught, CopyAttributes, Submit, Drain, ReaderFinish, opVars, runVars, upVars,
     portVars
<1>2. \A w \in Writers : pc'[w] = pc[w] \/ (pc[w] = "waiting" /\ pc'[w] = "drain")
  BY ReaderPlace, ThreadsDiffer DEF Drain, Signal
<1>3. shells' = shells
  <2>1. CASE ReaderTerminate \/ ReaderFinish
    BY <2>1, TerminateStarts DEF ReaderTerminate, ReaderFinish, LastTerminate
  <2>2. CASE ~(ReaderTerminate \/ ReaderFinish)
    BY <2>2 DEF ReaderStep, Spin, TestShutdown, ReadBuffered, TakeLines, ReadMore, Select, ReadOut,
       ReadErr, ReadStream, ReadFromPipe, Caught, CopyAttributes, Submit, Drain, shellVars, histVars
  <2> QED BY <2>1, <2>2
<1>4. pc'[Reader] = pc[Reader] \/ pc'[Reader] # "spin"
  <2>1. CASE Drain
    BY <2>1 DEF Drain, Signal
  <2>2. CASE ~Drain
    <3>1. UNCHANGED pc \/ \E label \in ReaderLabels \ {"spin"} : Goto(Reader, label)
      BY <2>2 DEF ReaderStep, Spin, TestShutdown, ReadBuffered, ReadMore, Select, ReadOut, ReadErr,
         ReadStream, ReaderTerminate, ReadVerdict, Caught, CopyAttributes, Submit, ReaderFinish,
         LastTerminate, ReaderLabels
    <3> QED BY <3>1, ReaderGoes DEF TypeOK
  <2> QED BY <2>1, <2>2
<1>5. CASE ~InitOnFirstTuple \/ firstTuple
  <2>1. shells # 0
    BY <1>5 DEF Startup
  <2> QED BY <1>1, <1>2, <1>3, <1>4, <1>5, <2>1, StartupFrame DEF Starting
<1>6. CASE InitOnFirstTuple /\ ~firstTuple
  <2>1. Spin \/ TestShutdown \/ Drain \/ ReaderFinish
    BY <1>6 DEF Startup, ReaderStep, ReadBuffered, ReadMore, Select, ReadOut, ReadErr, ReadStream,
       ReaderTerminate, Caught, CopyAttributes, Submit, At
  <2>2. \/ pc'[Reader] = pc[Reader]
        \/ pc'[Reader] \in {"test", "drain", "finish", "done"} /\ shutdownRequested
    <3>1. UNCHANGED pc \/ (\E label \in {"test", "drain", "finish", "done"} : pc'[Reader] = label)
      <4>1. CASE Spin
        BY <4>1, ReaderGoes DEF Spin, TypeOK, ReaderLabels
      <4>2. CASE TestShutdown
        <5>1. shutdownRequested
          BY <1>6, <4>2 DEF Startup, TestShutdown, At
        <5> QED BY <4>2, <5>1, ReaderGoes DEF TestShutdown, TypeOK, ReaderLabels
      <4>3. CASE Drain
        BY <4>3 DEF Drain, Signal
      <4>4. CASE ReaderFinish
        BY <4>4, ReaderGoes DEF ReaderFinish, LastTerminate, TypeOK, ReaderLabels
      <4> QED BY <2>1, <4>1, <4>2, <4>3, <4>4
    <3>2. shutdownRequested
      BY <1>6, <2>1 DEF Startup, Spin, TestShutdown, Drain, ReaderFinish, At
    <3> QED BY <3>1, <3>2
  <2>3. shells = 0 => NoShell'
    <3>1. UNCHANGED <<written, outPipe, buffer, taken, emitted>> /\ (proc = "none" => proc' = "none")
      <4>1. CASE ReaderFinish
        BY <4>1, TerminateStarts DEF ReaderFinish, LastTerminate, outVars
      <4>2. CASE ~ReaderFinish
        BY <2>1, <4>2 DEF Spin, TestShutdown, Drain, opVars, outVars, shellVars, objVars, childVars,
           pipeVars
      <4> QED BY <4>1, <4>2
    <3> QED BY <1>1, <3>1 DEF Startup, NoShell
  <2> QED BY <1>1, <1>2, <1>3, <1>6, <2>2, <2>3, StartupFrame DEF Starting
<1> QED BY <1>5, <1>6 DEF TypeOK, FlagTypeOK

(* so one shell is started, if tuples arrive one at a time.                *)
LEMMA StartupStep ==
  ASSUME TypeOK, OneAtATime, FinalOnce, Startup, [Next]_vars
  PROVE  Startup'
<1>1. ASSUME NEW w \in Writers, WriterStep(w) \/ Receive(w) \/ WindowMarker(w) \/ FinalMarker(w)
      PROVE  Startup'
  BY <1>1, StartShellStartup, WriterStartup
<1>2. CASE ReaderStep
  BY <1>2, ReaderStartup
<1>3. CASE PEStep \/ RequestShutdown
  <2>1. /\ pc'[Reader] = pc[Reader] /\ (\A x \in Writers : pc'[x] = pc[x])
        /\ UNCHANGED <<emitted, finalSent, taken, firstTuple>>
        /\ shutdownRequested => shutdownRequested'
    BY <1>3, PEPlace DEF upVars, portVars
  <2>2. UNCHANGED <<shells, written, outPipe, buffer>> /\ (proc = "none" => proc' = "none")
    <3>1. CASE Destroy
      BY <3>1, TerminateStarts DEF Destroy, LastTerminate
    <3>2. CASE ~Destroy
      BY <1>3, <3>2 DEF PEStep, RequestShutdown, PrepareToShutdown, ShutdownShell, CloseFds, Join,
         shellVars, objVars, childVars, pipeVars, histVars
    <3> QED BY <3>1, <3>2
  <2> QED BY <2>1, <2>2, StartupFrame DEF Startup, NoShell
<1>4. CASE CommandStep \/ CommandFault \/ UNCHANGED vars
  <2>1. UNCHANGED <<pc, opVars>>
    BY <1>4 DEF CommandStep, CommandFault, Beside, vars
  <2>2. shells' = shells /\ (proc = "none" => UNCHANGED vars)
    BY <1>4 DEF CommandStep, CommandFault, ChildRead, ChildReadRest, ChildWrite, ChildExit, ChildQuit,
       Die, ChildClose, vars, shellVars, histVars
  <2>3. shells = 0 => NoShell'
    BY <2>2 DEF Startup, NoShell, vars, opVars, upVars, outVars, shellVars, objVars, childVars, pipeVars
  <2> QED BY <2>1, <2>2, <2>3, StartupFrame DEF opVars, runVars, portVars
<1> QED BY <1>1, <1>2, <1>3, <1>4 DEF Next, Upstream, Ended

(* What was printed is in the lines submitted, in those readLine() has     *)
(* returned, in the buffers and in the pipes, in this order.               *)
Looping == {"spin", "test", "read", "select", "readOut", "readErr", "copy", "submit"}

Flows ==
  \A s \in Streams : Flow(written[s], taken[s], got[s], buffer[s], outPipe[s], ~outEnd[s])
AllTaken == \A s \in Streams : taken[s] = Len(written[s]) /\ ~outEnd[s]

Delivering ==
  /\ proc # "running" => \A s \in Streams : ~outEnd[s]
  /\ pc[Reader] \notin {"copy", "submit"} => got = Nothing
  /\ pc[Reader] \in Looping => Flows
  /\ pc[Reader] = "fail" /\ AllClosed => AllTaken
  /\ pc[Reader] \in {"drain", "finish", "done"} => AllTaken \/ shutdownRequested

Relay == Streaming /\ Delivering

(* A step of another thread or of the command.                             *)
LEMMA BesideDelivers ==
  ASSUME Delivering, pc'[Reader] = pc[Reader], got' = got, AllClosed' => AllClosed,
         shutdownRequested => shutdownRequested',
         proc' # "running" => \A s \in Streams : ~outEnd'[s],
         Flows => Flows', AllTaken => AllTaken'
  PROVE  Delivering'
BY DEF Delivering

(* A step of the reader: what has to hold where it gets to.                *)
LEMMA MoveDelivers ==
  ASSUME TypeOK, NEW label \in ReaderLabels, Goto(Reader, label),
         proc' # "running" => \A s \in Streams : ~outEnd'[s],
         label \notin {"copy", "submit"} => got' = Nothing,
         label \in Looping => Flows',
         label = "fail" /\ AllClosed' => AllTaken',
         label \in {"drain", "finish", "done"} => AllTaken' \/ shutdownRequested'
  PROVE  Delivering'
BY ReaderGoes DEF TypeOK, Delivering

(* A step beside the reader that leaves the streams alone.                 *)
LEMMA QuietBeside ==
  ASSUME Relay, pc'[Reader] = pc[Reader], shutdownRequested => shutdownRequested',
         UNCHANGED <<written, taken, got, buffer, outPipe, outEnd, closed, work>>,
         proc' = proc \/ proc # "running"
  PROVE  Relay'
<1>1. Streaming'
  BY EndStreaming DEF Relay
<1>2. (Flows => Flows') /\ (AllTaken => AllTaken') /\ (AllClosed' => AllClosed)
  BY DEF Flows, AllTaken, AllClosed
<1> QED BY <1>1, <1>2, BesideDelivers DEF Relay, Delivering

(* Nothing has been printed or submitted at first.                         *)
LEMMA RelayInit == Init => Relay
<1> SUFFICES ASSUME Init PROVE Relay
  OBVIOUS
<1>1. pc[Reader] \in {"spin", "test"}
  BY ThreadsDiffer DEF Init
<1>2. Streaming
  BY DEF Init, ShellInit, Streaming, Nothing, Plain
<1>3. ASSUME NEW s \in Streams
      PROVE  Flow(written[s], taken[s], got[s], buffer[s], outPipe[s], ~outEnd[s])
  BY DEF Init, ShellInit, Nothing, Flow, Track
<1>4. Delivering
  BY <1>1, <1>3 DEF Init, ShellInit, Delivering, Flows
<1> QED BY <1>2, <1>4 DEF Relay

(* The shell that is started late has printed nothing yet, and nothing is  *)
(* left of one before it.                                                  *)
LEMMA StartShellRelay ==
  ASSUME TypeOK, OneAtATime, Startup, Relay, NEW w \in Writers, StartShell(w)
  PROVE  Relay'
<1>1. /\ pc'[Reader] = pc[Reader] /\ UNCHANGED <<taken, got, shutdownRequested>>
  BY WriterPlace
<1>2. CASE CheckFirst(w) \/ (At(w, "mark") /\ UNCHANGED shellVars)
  <2>1. UNCHANGED <<written, buffer, outPipe, outEnd, closed, work, proc>>
    BY <1>2 DEF CheckFirst, shellVars, objVars, childVars, pipeVars
  <2> QED BY <1>1, <2>1, QuietBeside
<1>3. pc[w] \in {"setup", "fork"} => shells = 0 /\ InitOnFirstTuple /\ ~firstTuple
  <2> SUFFICES ASSUME pc[w] \in {"setup", "fork"}
               PROVE  shells = 0 /\ InitOnFirstTuple /\ ~firstTuple
    OBVIOUS
  <2>1. InitOnFirstTuple /\ ~firstTuple
    BY DEF Startup, Early, Starting
  <2>2. \A x \in Writers : pc[x] # "mark"
    BY <2>1 DEF OneAtATime, Early, Starting
  <2> QED BY <2>1, <2>2 DEF Startup
<1>4. CASE At(w, "setup") /\ SetupBegin
  <2>1. /\ UNCHANGED <<written, buffer, outPipe, outEnd, closed, work>>
        /\ proc # "running"
    BY <1>3, <1>4 DEF SetupBegin, pipeVars, At, Startup, NoShell
  <2> QED BY <1>1, <2>1, QuietBeside
<1>5. CASE At(w, "fork") /\ SetupFork(Nothing)
  <2>1. /\ written' = Nothing /\ outPipe' = Nothing /\ buffer' = Nothing /\ proc' = "running"
        /\ taken' = [s \in Streams |-> 0] /\ closed' = [s \in Streams |-> FALSE]
    BY <1>1, <1>3, <1>5 DEF SetupFork, At, Startup, NoShell
  <2>2. /\ pc[Reader] \in {"spin", "test", "drain", "finish", "done"}
        /\ pc[Reader] # "spin" => shutdownRequested
    BY <1>3, <1>5 DEF At, Startup
  <2>3. got' = Nothing
    BY <1>1, <2>2 DEF Relay, Delivering
  <2>4. Streaming'
    <3>1. Nothing \in [Streams -> Seq(Token)] /\ \A s \in Streams : Plain(Nothing[s])
      BY NothingType DEF Nothing, Plain
    <3> QED BY <1>5, <3>1, SetupStreaming
  <2>5. ASSUME NEW s \in Streams
        PROVE  Flow(written'[s], taken'[s], got'[s], buffer'[s], outPipe'[s], ~outEnd'[s])
    BY <2>1, <2>3 DEF Nothing, Flow, Track
  <2>6. Delivering'
    BY <1>1, <2>1, <2>2, <2>3, <2>5 DEF Delivering, Flows
  <2> QED BY <2>4, <2>6 DEF Relay
<1> QED BY <1>2, <1>4, <1>5 DEF StartShell

(* terminate() beside the reader closes streams, at most.                  *)
LEMMA TerminateBeside ==
  ASSUME Relay, NEW t, TerminateBegin(t) \/ TerminateReturns(t) \/ WaitFails(t),
         pc'[Reader] = pc[Reader], UNCHANGED <<taken, got, shutdownRequested>>
  PROVE  Relay'
<1>1. /\ Streaming' /\ UNCHANGED <<written, buffer, outPipe, closed>>
      /\ proc' # "running" => \A s \in Streams : ~outEnd'[s]
      /\ \A s \in Streams : outEnd'[s] => outEnd[s]
  BY TerminateStreams DEF Relay, Delivering
<1>2. (AllTaken => AllTaken') /\ (AllClosed' => AllClosed)
  BY <1>1 DEF AllTaken, AllClosed
<1>3. Flows => Flows'
  BY <1>1 DEF Flows, Flow, IsLine
<1>4. Delivering'
  BY <1>1, <1>2, <1>3, BesideDelivers DEF Relay
<1> QED BY <1>1, <1>4 DEF Relay

(* The other steps of the writers leave the output where it is.            *)
LEMMA WriterRelay ==
  ASSUME TypeOK, Relay, NEW w \in Writers, ~StartShell(w),
         WriterStep(w) \/ Receive(w) \/ WindowMarker(w) \/ FinalMarker(w)
  PROVE  Relay'
<1>1. UNCHANGED <<taken, got, shutdownRequested>>
  BY DEF WriterStep, Enter, Store, WriteBegin, WriteEnd, WriteFail, WriterTerminate,
     FinalShutdown, AwaitDrained, Receive, WindowMarker, FinalMarker, opVars, runVars, outVars
<1>2. pc'[Reader] = pc[Reader]
  <2>1. UNCHANGED pc \/ \E label \in WriterLabels : Goto(w, label)
    BY DEF WriterStep, Enter, Store, WriteBegin, WriteEnd, WriteFail, WriterTerminate,
       FinalShutdown, AwaitDrained, Receive, WindowMarker, FinalMarker, WriterLabels
  <2> QED BY <2>1, WriterGoes DEF TypeOK
<1>3. CASE WriterTerminate(w)
  BY <1>1, <1>2, <1>3, TerminateBeside DEF WriterTerminate
<1>4. CASE ~WriterTerminate(w)
  <2>1. UNCHANGED <<written, buffer, outPipe, outEnd, closed, work, proc>>
    BY <1>4 DEF WriterStep, Enter, Store, WriteBegin, BeginWrite, WriteEnd, EndWrite, WriteFail,
       FailWrite, FinalShutdown, ShutdownShell, CloseFds, AwaitDrained, Receive, WindowMarker,
       FinalMarker, shellVars, objVars, childVars, pipeVars
  <2> QED BY <1>1, <1>2, <2>1, QuietBeside
<1> QED BY <1>3, <1>4

(* The reader's steps that leave the streams alone.                        *)
LEMMA ReaderQuietRelay ==
  ASSUME TypeOK, Relay,
         Spin \/ TestShutdown \/ ReadMore \/ Select \/ Caught \/ CopyAttributes \/ Drain
  PROVE  Relay'
<1>1. UNCHANGED <<written, taken, got, buffer, outPipe, outEnd, closed, work, proc,
                  shutdownRequested>>
  BY DEF Spin, TestShutdown, ReadMore, Select, Caught, CopyAttributes, Drain, opVars, runVars,
     outVars, shellVars, objVars, childVars, pipeVars
<1>2. Streaming'
  BY <1>1, EndStreaming DEF Relay
<1>3. /\ (Flows => Flows') /\ (AllTaken => AllTaken') /\ (AllClosed' <=> AllClosed)
      /\ proc' # "running" => \A s \in Streams : ~outEnd'[s]
  BY <1>1 DEF Flows, AllTaken, AllClosed, Relay, Delivering
<1> USE DEF ReaderLabels, Looping
<1>4. CASE Spin \/ Select \/ CopyAttributes
  <2>1. PICK label \in {"test", "readOut", "submit"} :
          /\ Goto(Reader, label)
          /\ label # "submit" => pc[Reader] \in {"spin", "select"}
          /\ label = "submit" => pc[Reader] = "copy"
    BY <1>4 DEF Spin, Select, CopyAttributes, At
  <2>2. Flows /\ (label # "submit" => got = Nothing)
    BY <2>1 DEF Relay, Delivering
  <2>3. Delivering'
    BY <1>1, <1>3, <2>1, <2>2, MoveDelivers
  <2> QED BY <1>2, <2>3 DEF Relay
<1>5. CASE TestShutdown
  <2>1. /\ pc[Reader] = "test" /\ Flows /\ got = Nothing
        /\ Goto(Reader, IF shutdownRequested THEN "drain" ELSE "read")
    BY <1>5 DEF TestShutdown, At, Relay, Delivering
  <2>2. CASE shutdownRequested
    <3>1. Delivering'
      BY <1>1, <1>3, <2>1, <2>2, MoveDelivers
    <3> QED BY <1>2, <3>1 DEF Relay
  <2>3. CASE ~shutdownRequested
    <3>1. Delivering'
      BY <1>1, <1>3, <2>1, <2>3, MoveDelivers
    <3> QED BY <1>2, <3>1 DEF Relay
  <2> QED BY <2>2, <2>3
<1>6. CASE ReadMore
  <2>1. /\ pc[Reader] = "read" /\ NoLine /\ Flows /\ got = Nothing
        /\ Goto(Reader, IF AllClosed THEN "fail" ELSE "select")
    BY <1>6 DEF ReadMore, At, Relay, Delivering
  <2>2. CASE ~AllClosed
    <3>1. Delivering'
      BY <1>1, <1>3, <2>1, <2>2, MoveDelivers
    <3> QED BY <1>2, <3>1 DEF Relay
  <2>3. CASE AllClosed
    <3>1. ASSUME NEW s \in Streams
          PROVE  taken[s] = Len(written[s]) /\ ~outEnd[s]
      <4>1. buffer[s] = <<>>
        BY <2>1, <2>3 DEF NoLine, HasLine, AllClosed
      <4>2. outPipe[s] = <<>> /\ ~outEnd[s]
        BY <2>3 DEF AllClosed, Relay, Streaming
      <4>3. Track(written[s], taken[s], buffer[s], outPipe[s])
        BY <2>1 DEF Flows, Flow, Nothing
      <4>4. taken[s] \in Nat /\ Len(<<>>) = 0
        BY DEF TypeOK, OutputTypeOK
      <4> QED BY <4>1, <4>2, <4>3, <4>4 DEF Track
    <3>2. AllTaken
      BY <3>1 DEF AllTaken
    <3>3. Delivering'
      BY <1>1, <1>3, <2>1, <2>3, <3>2, MoveDelivers
    <3> QED BY <1>2, <3>3 DEF Relay
  <2> QED BY <2>2, <2>3
<1>7. CASE Caught
  <2>1. pc[Reader] = "caught" /\ got = Nothing
    BY <1>7 DEF Caught, At, Relay, Delivering
  <2>2. CASE shutdownRequested
    <3>1. Goto(Reader, "drain")
      BY <1>7, <2>2 DEF Caught
    <3>2. Delivering'
      BY <1>1, <1>3, <2>1, <2>2, <3>1, MoveDelivers
    <3> QED BY <1>2, <3>2 DEF Relay
  <2>3. CASE ~shutdownRequested
    <3>1. UNCHANGED pc
      BY <1>7, <2>3 DEF Caught
    <3> QED BY <1>1, <3>1, QuietBeside
  <2> QED BY <2>2, <2>3
<1>8. CASE Drain
  <2>1. pc[Reader] = "drain" /\ pc'[Reader] = "finish"
    BY <1>8, ThreadsDiffer DEF Drain, At, Signal
  <2>2. got = Nothing /\ (AllTaken \/ shutdownRequested)
    BY <2>1 DEF Relay, Delivering
  <2>3. Delivering'
    BY <1>1, <1>3, <2>1, <2>2 DEF Delivering
  <2> QED BY <1>2, <2>3 DEF Relay
<1> QED BY <1>4, <1>5, <1>6, <1>7, <1>8

(* readLine() takes the next line of each stream that has one,             *)
LEMMA ReadBufferedRelay ==
  ASSUME TypeOK, Relay, ReadBuffered
  PROVE  Relay'
<1>1. /\ pc[Reader] = "read" /\ Goto(Reader, "copy") /\ TakeLines
      /\ UNCHANGED <<taken, shutdownRequested>>
      /\ got' = [s \in Streams |-> IF HasLine(s) THEN <<NextLine(s)>> ELSE <<>>]
  BY DEF ReadBuffered, At, runVars
<1>2. UNCHANGED <<written, outPipe, outEnd, closed, work, proc>>
  BY <1>1 DEF TakeLines, childVars, pipeVars
<1>3. Streaming'
  BY <1>2, EndStreaming DEF Relay
<1>4. got = Nothing /\ Flows
  BY <1>1 DEF Relay, Delivering, Looping
<1>5. Flows'
  <2>1. ASSUME NEW s \in Streams
        PROVE  Flow(written'[s], taken'[s], got'[s], buffer'[s], outPipe'[s], ~outEnd'[s])
    <3>1. taken[s] \in Nat /\ taken'[s] = taken[s]
      BY <1>1 DEF TypeOK, OutputTypeOK
    <3>2. got'[s] = IF HasLine(s) THEN <<NextLine(s)>> ELSE <<>>
      BY <1>1
    <3>3. Track(written[s], taken[s], buffer[s], outPipe[s])
      BY <1>4 DEF Flows, Flow, Nothing
    <3> QED BY <1>1, <3>1, <3>2, <3>3, FlowTaken DEF Relay, TypeOK
  <2> QED BY <2>1 DEF Flows
<1>6. proc' # "running" => \A s \in Streams : ~outEnd'[s]
  BY <1>2 DEF Relay, Delivering
<1>7. Delivering'
  BY <1>1, <1>5, <1>6, MoveDelivers DEF ReaderLabels, Looping
<1> QED BY <1>3, <1>7 DEF Relay

(* or reads more from the pipes; on a closed descriptor it fails.          *)
LEMMA ReadStreamRelay ==
  ASSUME TypeOK, Relay, ReadOut \/ ReadErr
  PROVE  Relay'
<1>1. /\ pc[Reader] \in {"readOut", "readErr"} /\ UNCHANGED <<taken, got, shutdownRequested>>
      /\ \E r \in Streams :
           \/ ReadFromPipe(r) /\ \E label \in {"readErr", "read"} : Goto(Reader, label)
           \/ ReadFails(r) /\ Goto(Reader, "fail") /\ UNCHANGED shellVars
  BY DEF ReadOut, ReadErr, ReadStream, At, Streams, opVars, runVars, outVars
<1>2. Flows /\ got = Nothing
  BY <1>1 DEF Relay, Delivering, Looping
<1>3. ASSUME NEW r \in Streams, NEW label \in {"readErr", "read"},
             ReadFromPipe(r), Goto(Reader, label)
      PROVE  Relay'
  <2>1. Streaming'
    BY <1>3, ReadStreaming DEF Relay, TypeOK
  <2>2. UNCHANGED <<written, outEnd, proc>>
    BY <1>3 DEF ReadFromPipe, childVars
  <2>3. ASSUME NEW s \in Streams
        PROVE  Flow(written'[s], taken'[s], got'[s], buffer'[s], outPipe'[s], ~outEnd'[s])
    <3>1. taken[s] \in Nat /\ taken'[s] = taken[s] /\ got'[s] = got[s] /\ got[s] = <<>>
      BY <1>1, <1>2 DEF TypeOK, OutputTypeOK, Nothing
    <3>2. Flow(written[s], taken[s], got[s], buffer[s], outPipe[s], ~outEnd[s])
      BY <1>2 DEF Flows
    <3> QED BY <1>3, <3>1, <3>2, FlowRead DEF Relay, TypeOK
  <2>4. proc' # "running" => \A s \in Streams : ~outEnd'[s]
    BY <2>2 DEF Relay, Delivering
  <2>5. Flows'
    BY <2>3 DEF Flows
  <2>6. Delivering'
    BY <1>1, <1>2, <1>3, <2>4, <2>5, MoveDelivers DEF ReaderLabels, Looping
  <2> QED BY <2>1, <2>6 DEF Relay
<1>4. ASSUME NEW r \in Streams, ReadFails(r), Goto(Reader, "fail"), UNCHANGED shellVars
      PROVE  Relay'
  <2>1. UNCHANGED <<written, buffer, outPipe, outEnd, closed, work, proc>>
    BY <1>4 DEF shellVars, objVars, childVars, pipeVars
  <2>2. Streaming'
    BY <2>1, EndStreaming DEF Relay
  <2>3. ~AllClosed' /\ (proc' # "running" => \A s \in Streams : ~outEnd'[s])
    BY <1>4, <2>1 DEF ReadFails, AllClosed, Relay, Delivering
  <2>4. Delivering'
    BY <1>1, <1>2, <1>4, <2>3, MoveDelivers DEF ReaderLabels, Looping
  <2> QED BY <2>2, <2>4 DEF Relay
<1> QED BY <1>1, <1>3, <1>4

(* What submit does for its stream: the line is the next one to deliver.   *)
LEMMA Submitted ==
  ASSUME TypeOK, Relay, Submit
  PROVE  /\ Port \in Streams /\ got[Port] # <<>>
         /\ taken'[Port] = After(written[Port], taken[Port], got[Port][1])
         /\ got'[Port] = <<>>
         /\ \A s \in Streams \ {Port} : taken'[s] = taken[s] /\ got'[s] = got[s]
         /\ IsLine(written[Port], taken[Port], got[Port][1], ~outEnd[Port])
         /\ Flows'
<1>1. /\ Port \in Streams /\ got[Port] # <<>> /\ pc[Reader] = "submit"
      /\ taken \in [Streams -> Nat] /\ got \in [Streams -> Seq(Seq(Token))]
  BY DEF Submit, At, TypeOK, OutputTypeOK, Port, Streams
<1>2. /\ taken'[Port] = After(written[Port], taken[Port], got[Port][1])
      /\ got'[Port] = <<>>
      /\ \A s \in Streams \ {Port} : taken'[s] = taken[s] /\ got'[s] = got[s]
  BY <1>1 DEF Submit, After
<1>3. Flows
  BY <1>1 DEF Relay, Delivering, Looping
<1>4. /\ IsLine(written[Port], taken[Port], got[Port][1], ~outEnd[Port])
      /\ Track(written[Port], After(written[Port], taken[Port], got[Port][1]),
               buffer[Port], outPipe[Port])
  BY <1>1, <1>3 DEF Flows, Flow
<1>5. UNCHANGED <<written, buffer, outPipe, outEnd>>
  BY DEF Submit, shellVars, objVars, childVars, pipeVars
<1>6. ASSUME NEW s \in Streams
      PROVE  Flow(written'[s], taken'[s], got'[s], buffer'[s], outPipe'[s], ~outEnd'[s])
  <2>1. CASE s = Port
    BY <1>2, <1>4, <1>5, <2>1 DEF Flow
  <2>2. CASE s # Port
    BY <1>2, <1>3, <1>5, <2>2 DEF Flows
  <2> QED BY <2>1, <2>2
<1>7. Flows'
  BY <1>6 DEF Flows
<1> QED BY <1>1, <1>2, <1>4, <1>7

(* A submitted line is one that has been read, and counts as taken.        *)
LEMMA SubmitRelay ==
  ASSUME TypeOK, Relay, Submit
  PROVE  Relay'
<1> DEFINE both == Port = "out" /\ got["err"] # <<>>
<1>1. /\ Goto(Reader, IF both THEN "copy" ELSE "test")
      /\ UNCHANGED <<shellVars, shutdownRequested>>
  BY DEF Submit, runVars
<1>2. UNCHANGED <<proc, closed, outPipe, outEnd, work>>
  BY <1>1 DEF shellVars, objVars, childVars, pipeVars
<1>3. Streaming'
  BY <1>2, EndStreaming DEF Relay
<1>4. ~both => got' = Nothing
  <2>1. \A s \in Streams : ~both => got'[s] = <<>>
    BY Submitted DEF Port, Streams
  <2>2. got' \in [Streams -> Seq(Seq(Token))]
    <3>1. got \in [Streams -> Seq(Seq(Token))] /\ <<>> \in Seq(Seq(Token))
      BY NothingType DEF TypeOK, OutputTypeOK
    <3> QED BY <3>1 DEF Submit
  <2> QED BY <2>1, <2>2 DEF Nothing
<1>5. Flows' /\ (proc' # "running" => \A s \in Streams : ~outEnd'[s])
  BY <1>2, Submitted DEF Relay, Delivering
<1> HIDE DEF both
<1>6. CASE both
  <2>1. Delivering'
    BY <1>1, <1>5, <1>6, MoveDelivers DEF ReaderLabels, Looping
  <2> QED BY <1>3, <2>1 DEF Relay
<1>7. CASE ~both
  <2>1. Delivering'
    BY <1>1, <1>4, <1>5, <1>7, MoveDelivers DEF ReaderLabels, Looping
  <2> QED BY <1>3, <2>1 DEF Relay
<1> QED BY <1>6, <1>7

(* The reader in terminate(): it leaves readLine() for the end of the      *)
(* output only with both streams closed.                                   *)
LEMMA ReaderTerminateRelay ==
  ASSUME TypeOK, Relay, ReaderTerminate \/ ReaderFinish
  PROVE  Relay'
<1>1. /\ \E t : TerminateBegin(t) \/ TerminateReturns(t) \/ WaitFails(t)
      /\ UNCHANGED <<taken, got, shutdownRequested>>
  BY DEF ReaderTerminate, ReaderFinish, LastTerminate, opVars, runVars, outVars
<1>2. /\ Streaming' /\ UNCHANGED <<written, buffer, outPipe, closed>>
      /\ proc' # "running" => \A s \in Streams : ~outEnd'[s]
      /\ \A s \in Streams : outEnd'[s] => outEnd[s]
  BY <1>1, TerminateStreams DEF Relay, Delivering
<1>3. (AllTaken => AllTaken') /\ (AllClosed' <=> AllClosed)
  BY <1>1, <1>2 DEF AllTaken, AllClosed
<1>4. CASE UNCHANGED pc
  BY <1>1, <1>4, TerminateBeside
<1>5. CASE ReaderTerminate /\ \E label \in {"caught", "drain"} :
             Goto(Reader, label) /\ (label = "drain" => AllClosed)
  <2>1. pc[Reader] = "fail" /\ got = Nothing /\ (AllClosed => AllTaken)
    BY <1>5 DEF ReaderTerminate, At, Relay, Delivering
  <2>2. PICK label \in {"caught", "drain"} : Goto(Reader, label) /\ (label = "drain" => AllClosed)
    BY <1>5
  <2>3. Delivering'
    BY <1>1, <1>2, <1>3, <2>1, <2>2, MoveDelivers DEF ReaderLabels, Looping
  <2> QED BY <1>2, <2>3 DEF Relay
<1>6. CASE ReaderFinish /\ Goto(Reader, "done")
  <2>1. got = Nothing /\ (AllTaken \/ shutdownRequested)
    BY <1>6 DEF ReaderFinish, At, Relay, Delivering
  <2>2. Delivering'
    BY <1>1, <1>2, <1>3, <1>6, <2>1, MoveDelivers DEF ReaderLabels, Looping
  <2> QED BY <1>2, <2>2 DEF Relay
<1>7. \/ UNCHANGED pc
      \/ ReaderTerminate /\ \E label \in {"caught", "drain"} :
           Goto(Reader, label) /\ (label = "drain" => AllClosed)
      \/ ReaderFinish /\ Goto(Reader, "done")
  BY DEF ReaderTerminate, ReadVerdict, ReaderFinish, LastTerminate
<1> QED BY <1>4, <1>5, <1>6, <1>7

(* The command adds to its streams what it prints, and ends them.          *)
LEMMA CommandRelay ==
  ASSUME PlainProgram, TypeOK, Relay, CommandStep \/ CommandFault
  PROVE  Relay'
<1>1. /\ UNCHANGED <<pc, got, taken, shutdownRequested, buffer, closed>>
      /\ \/ ChildRead \/ ChildReadRest \/ ChildQuit \/ ChildExit
         \/ \E s \in Streams : ChildWrite(s) \/ ChildClose(s)
  BY DEF CommandStep, CommandFault, Beside, ChildRead, ChildReadRest, ChildQuit, ChildExit, Die,
     ChildWrite, ChildClose, opVars, runVars, outVars, objVars
<1>2. ASSUME NEW r \in Streams, ChildWrite(r)
      PROVE  Relay'
  <2>1. UNCHANGED <<outEnd, proc>> /\ outEnd[r]
    BY <1>2 DEF ChildWrite, Relay, Streaming
  <2>2. Streaming'
    BY <1>2, PrintStreaming DEF Relay, TypeOK
  <2>3. Flows => Flows'
    <3>1. ASSUME Flows, NEW s \in Streams
          PROVE  Flow(written'[s], taken'[s], got'[s], buffer'[s], outPipe'[s], ~outEnd'[s])
      <4>1. taken[s] \in Nat /\ (got[s] # <<>> => got[s][1] \in Seq(Token))
        <5>1. taken[s] \in Nat /\ got[s] \in Seq(Seq(Token))
          BY DEF TypeOK, OutputTypeOK
        <5>2. got[s] # <<>> => 1 \in 1..Len(got[s])
          BY <5>1, EmptySeq
        <5> QED BY <5>1, <5>2, ElementOfSeq
      <4>2. Flow(written[s], taken[s], got[s], buffer[s], outPipe[s], ~outEnd[s])
        BY <3>1 DEF Flows
      <4>3. taken'[s] = taken[s] /\ got'[s] = got[s]
        BY <1>1
      <4> QED BY <1>2, <4>1, <4>2, <4>3, FlowPrinted DEF Relay, TypeOK
    <3> QED BY <3>1 DEF Flows
  <2>4. (AllTaken => AllTaken') /\ (AllClosed' => AllClosed)
    BY <1>1, <2>1 DEF AllTaken, AllClosed
  <2>5. Delivering'
    BY <1>1, <2>1, <2>3, <2>4, BesideDelivers DEF Relay, Delivering
  <2> QED BY <2>2, <2>5 DEF Relay
<1>3. CASE ChildRead \/ ChildReadRest
  <2>1. /\ UNCHANGED <<written, outPipe, outEnd, proc>>
        /\ UNCHANGED work \/ \E line : Reply(line)
    BY <1>3 DEF ChildRead, ChildReadRest, pipeVars
  <2>2. Streaming'
    BY <1>1, <2>1, ReplyStreaming, EndStreaming DEF Relay
  <2>3. (Flows => Flows') /\ (AllTaken => AllTaken') /\ (AllClosed' => AllClosed)
    BY <1>1, <2>1 DEF Flows, AllTaken, AllClosed
  <2>4. Delivering'
    BY <1>1, <2>1, <2>3, BesideDelivers DEF Relay, Delivering
  <2> QED BY <2>2, <2>4 DEF Relay
<1>4. CASE ChildQuit \/ ChildExit \/ \E s \in Streams : ChildClose(s)
  <2>1. /\ UNCHANGED <<written, outPipe>>
        /\ \A s \in Streams : \/ outEnd'[s] = FALSE /\ work'[s] = <<>>
                              \/ outEnd'[s] = outEnd[s] /\ work'[s] = work[s]
    BY <1>4 DEF ChildQuit, ChildExit, Die, ChildClose, Nothing, pipeVars, TypeOK, ShellTypeOK
  <2>2. Streaming'
    BY <1>1, <2>1, EndStreaming DEF Relay
  <2>3. proc' # "running" => \A s \in Streams : ~outEnd'[s]
    BY <1>4 DEF ChildQuit, ChildExit, Die, ChildClose
  <2>4. Flows => Flows'
    <3>1. ASSUME Flows, NEW s \in Streams
          PROVE  Flow(written'[s], taken'[s], got'[s], buffer'[s], outPipe'[s], ~outEnd'[s])
      <4>1. /\ taken[s] \in Nat /\ taken'[s] = taken[s] /\ got'[s] = got[s]
            /\ outEnd'[s] => outEnd[s]
        BY <1>1, <2>1 DEF TypeOK, OutputTypeOK
      <4>2. Flow(written[s], taken[s], got[s], buffer[s], outPipe[s], ~outEnd[s])
        BY <3>1 DEF Flows
      <4> QED BY <1>1, <2>1, <4>1, <4>2, FlowEnds
    <3> QED BY <3>1 DEF Flows
  <2>5. (AllTaken => AllTaken') /\ (AllClosed' => AllClosed)
    BY <1>1, <2>1 DEF AllTaken, AllClosed
  <2>6. Delivering'
    BY <1>1, <2>3, <2>4, <2>5, BesideDelivers DEF Relay
  <2> QED BY <2>2, <2>6 DEF Relay
<1> QED BY <1>1, <1>2, <1>3, <1>4

(* Every step of a command of whole lines keeps the output in order.       *)
LEMMA RelayStep ==
  ASSUME PlainProgram, TypeOK, OneAtATime, Startup, Relay, [Next]_vars
  PROVE  Relay'
<1>1. ASSUME NEW w \in Writers, WriterStep(w) \/ Receive(w) \/ WindowMarker(w) \/ FinalMarker(w)
      PROVE  Relay'
  BY <1>1, StartShellRelay, WriterRelay
<1>2. CASE ReaderStep
  BY <1>2, ReaderQuietRelay, ReadBufferedRelay, ReadStreamRelay, SubmitRelay,
     ReaderTerminateRelay DEF ReaderStep
<1>3. CASE PEStep \/ RequestShutdown
  <2>1. /\ pc'[Reader] = pc[Reader] /\ UNCHANGED <<taken, got>>
        /\ shutdownRequested => shutdownRequested'
    BY <1>3, PEPlace
  <2>2. CASE Destroy
    BY <2>1, <2>2, TerminateBeside DEF Destroy, LastTerminate
  <2>3. CASE ~Destroy
    <3>1. UNCHANGED <<written, buffer, outPipe, outEnd, closed, work, proc>>
      BY <1>3, <2>3 DEF PEStep, RequestShutdown, PrepareToShutdown, ShutdownShell, Join,
         shellVars, objVars, childVars, pipeVars
    <3> QED BY <2>1, <3>1, QuietBeside
  <2> QED BY <2>2, <2>3
<1>4. CASE CommandStep \/ CommandFault
  BY <1>4, CommandRelay
<1>5. CASE UNCHANGED vars
  BY <1>5, QuietBeside DEF vars, opVars, runVars, outVars, shellVars, objVars, childVars, pipeVars
<1> QED BY <1>1, <1>2, <1>3, <1>4, <1>5 DEF Next, Upstream, Ended

(* Downstream's view of what is submitted: a part after a part.            *)
Out   == [port : {"out", "err", "window", "final"}, line : Seq(Token),
          from : (0..MaxTuples) \X (0..MaxTuples)]
Brief == [port : {"out", "err", "window", "final"}, line : Seq(Token)]

View(q) == [i \in DOMAIN q |-> [port |-> q[i].port, line |-> q[i].line]]

(* What downstream sees of a sequence of tuples,                           *)
LEMMA ViewType ==
  ASSUME NEW q \in Seq(Out)
  PROVE  /\ View(q) \in Seq(Brief) /\ Len(View(q)) = Len(q)
         /\ \A i \in 1..Len(q) : View(q)[i] = [port |-> q[i].port, line |-> q[i].line]
<1>1. Len(q) \in Nat /\ DOMAIN q = 1..Len(q)
  BY LenProperties
<1>2. \A i \in 1..Len(q) : q[i] \in Out
  BY ElementOfSeq
<1>3. \A i \in 1..Len(q) : [port |-> q[i].port, line |-> q[i].line] \in Brief
  BY <1>2 DEF Out, Brief
<1>4. View(q) \in [1..Len(q) -> Brief]
  BY <1>1, <1>3 DEF View
<1>5. View(q) \in Seq(Brief)
  BY <1>1, <1>4
<1>6. DOMAIN View(q) = 1..Len(q)
  BY <1>1 DEF View
<1>7. Len(View(q)) = Len(q)
  BY <1>1, <1>5, <1>6
<1>8. \A i \in 1..Len(q) : View(q)[i] = [port |-> q[i].port, line |-> q[i].line]
  BY <1>1 DEF View
<1> QED BY <1>5, <1>7, <1>8

(* of two one after the other,                                             *)
LEMMA ViewConcat ==
  ASSUME NEW q \in Seq(Out), NEW r \in Seq(Out)
  PROVE  View(q \o r) = View(q) \o View(r)
<1>1. /\ q \o r \in Seq(Out) /\ Len(q \o r) = Len(q) + Len(r)
      /\ \A i \in 1..(Len(q) + Len(r)) : (q \o r)[i] = IF i <= Len(q) THEN q[i] ELSE r[i - Len(q)]
      /\ Len(q) \in Nat /\ Len(r) \in Nat
  BY ConcatProperties, LenProperties
<1>2. /\ View(q) \in Seq(Brief) /\ Len(View(q)) = Len(q)
      /\ View(r) \in Seq(Brief) /\ Len(View(r)) = Len(r)
      /\ View(q \o r) \in Seq(Brief) /\ Len(View(q \o r)) = Len(q) + Len(r)
  BY <1>1, ViewType
<1>3. /\ View(q) \o View(r) \in Seq(Brief) /\ Len(View(q) \o View(r)) = Len(q) + Len(r)
      /\ \A i \in 1..(Len(q) + Len(r)) :
           (View(q) \o View(r))[i] = IF i <= Len(q) THEN View(q)[i] ELSE View(r)[i - Len(q)]
  BY <1>2, ConcatProperties
<1>4. ASSUME NEW i \in 1..(Len(q) + Len(r))
      PROVE  View(q \o r)[i] = (View(q) \o View(r))[i]
  <2>1. View(q \o r)[i] = [port |-> (q \o r)[i].port, line |-> (q \o r)[i].line]
    BY <1>1, ViewType
  <2>2. CASE i <= Len(q)
    <3>1. i \in 1..Len(q)
      BY <1>1, <2>2
    <3>2. View(q)[i] = [port |-> q[i].port, line |-> q[i].line]
      BY <3>1, ViewType
    <3> QED BY <1>1, <1>3, <2>1, <2>2, <3>2
  <2>3. CASE ~(i <= Len(q))
    <3>1. i - Len(q) \in 1..Len(r)
      BY <1>1, <2>3
    <3>2. View(r)[i - Len(q)] = [port |-> r[i - Len(q)].port, line |-> r[i - Len(q)].line]
      BY <3>1, ViewType
    <3> QED BY <1>1, <1>3, <2>1, <2>3, <3>2
  <2> QED BY <2>2, <2>3
<1> QED BY <1>2, <1>3, <1>4, SeqEqual

(* and of one more tuple.                                                  *)
LEMMA ViewAppend ==
  ASSUME NEW q \in Seq(Out), NEW e \in Out
  PROVE  View(Append(q, e)) = Append(View(q), [port |-> e.port, line |-> e.line])
<1> DEFINE b == [port |-> e.port, line |-> e.line]
<1>1. b \in Brief /\ <<e>> \in Seq(Out) /\ View(q) \in Seq(Brief)
  <2>1. b \in Brief
    BY DEF Out, Brief
  <2> HIDE DEF b
  <2>2. <<e>> \in Seq(Out)
    OBVIOUS
  <2>3. View(q) \in Seq(Brief)
    BY ViewType
  <2> QED BY <2>1, <2>2, <2>3
<1>2. View(<<e>>) = <<b>>
  BY DEF View
<1> HIDE DEF b
<1>3. Append(q, e) = q \o <<e>> /\ Append(View(q), b) = View(q) \o <<b>>
  BY <1>1, AppendIsConcat
<1> QED BY <1>1, <1>2, <1>3, ViewConcat DEF b

(* What is finished for downstream is finished here.                       *)
LEMMA FinishedIsFinal == TypeOK /\ Promise!Finished => FinalForwarded
<1> SUFFICES ASSUME TypeOK, Promise!Finished PROVE FinalForwarded
  OBVIOUS
<1>1. emitted \in Seq(Out) /\ Delivered = View(emitted)
  BY DEF TypeOK, OutputTypeOK, Out, Delivered, View
<1>2. Delivered # <<>> /\ Delivered[Len(Delivered)].port = "final"
  BY DEF Promise!Finished, Promise!Marker
<1>3. Len(emitted) \in Nat \ {0} /\ Len(Delivered) = Len(emitted)
  <2>1. /\ Delivered \in Seq(Brief) /\ Len(Delivered) = Len(emitted)
    BY <1>1, ViewType
  <2>2. Len(Delivered) \in Nat \ {0}
    BY <1>2, <2>1, EmptySeq
  <2> QED BY <2>1, <2>2
<1>4. Delivered[Len(emitted)] = [port |-> emitted[Len(emitted)].port, line |-> emitted[Len(emitted)].line]
  BY <1>1, <1>3, ViewType
<1>5. emitted # <<>>
  BY <1>3, EmptySeq
<1> QED BY <1>2, <1>3, <1>4, <1>5 DEF FinalForwarded

-----------------------------------------------------------------------------
(* The refinement of LinePipe                                              *)

(* A command may end or be killed, which closes streams; other steps are   *)
(* not seen.                                                               *)
LEMMA QuietRefines ==
  ASSUME UNCHANGED <<written, taken, emitted, shutdownRequested>>,
         \A s \in Streams : outEnd'[s] => outEnd[s]
  PROVE  Promise!Next
<1> DEFINE S == {s \in Streams : ~outEnd'[s]}
<1>1. Promise!Close(S)
  BY DEF Promise!Close, Delivered
<1>2. S \in SUBSET Streams
  OBVIOUS
<1> HIDE DEF S
<1>3. \E R \in SUBSET Streams : Promise!Close(R)
  BY <1>1, <1>2 DEF Promise!Close
<1> QED BY <1>3 DEF Promise!Next

(* The late start.                                                         *)
LEMMA ForkRefines ==
  ASSUME TypeOK, OneAtATime, FinalOnce, Startup, Relay,
         NEW w \in Writers, StartShell(w), At(w, "fork"), SetupFork(Nothing)
  PROVE  Promise!Next
<1>1. /\ written' = [s \in Streams |-> <<>>] /\ outEnd' = [s \in Streams |-> TRUE]
      /\ UNCHANGED <<taken, emitted, shutdownRequested>>
  BY DEF StartShell, SetupFork, Nothing, runVars, outVars
<1>2. pc[w] = "fork"
  BY DEF At
<1>3. InitOnFirstTuple /\ ~firstTuple
  BY <1>2 DEF Startup, Early, Starting
<1>4. \A x \in Writers : pc[x] # "mark"
  BY <1>2, <1>3 DEF OneAtATime, Early, Starting
<1>5. NoShell
  BY <1>3, <1>4 DEF Startup
<1>6. ~finalSent
  BY <1>2 DEF FinalOnce, Late
<1>7. /\ taken = [s \in Streams |-> 0] /\ emitted = <<>> /\ \A s \in Streams : ~outEnd[s]
  BY <1>5, <1>6 DEF NoShell, Relay, Delivering
<1>8. Delivered = <<>> /\ Delivered' = <<>>
  BY <1>1, <1>7 DEF Delivered
<1>9. Promise!Start
  BY <1>1, <1>7, <1>8 DEF Promise!Start
<1> QED BY <1>9 DEF Promise!Next

(* A token is printed to a stream that is still held.                      *)
LEMMA WriteRefines ==
  ASSUME TypeOK, Relay, NEW s \in Streams, ChildWrite(s), UNCHANGED opVars
  PROVE  Promise!Next
<1>1. /\ outEnd[s] /\ Head(work[s]) \in Token
      /\ written' = [written EXCEPT ![s] = Append(@, Head(work[s]))]
      /\ UNCHANGED <<outEnd, taken, emitted, shutdownRequested>>
  BY HeadTailProperties
  DEF ChildWrite, TypeOK, ShellTypeOK, Relay, Streaming, opVars, runVars, outVars
<1>2. Promise!Emit(s)
  BY <1>1 DEF Promise!Emit, Delivered
<1> QED BY <1>2 DEF Promise!Next

(* A line is submitted, or dropped where its port is not configured.       *)
LEMMA SubmitRefines ==
  ASSUME TypeOK, FinalOnce, Relay, Submit
  PROVE  Promise!Next
<1> DEFINE s == Port
           w == written[s]
           k == taken[s]
           line == got[s][1]
           n == After(w, k, line)
           e == [port |-> s, line |-> line, from |-> <<copied, inputTuple[2]>>]
<1>1. /\ s \in Streams /\ taken'[s] = n /\ IsLine(w, k, line, ~outEnd[s])
      /\ got[s] # <<>> /\ \A r \in Streams \ {s} : taken'[r] = taken[r]
  BY Submitted
<1>2. w \in Seq(Token) /\ k \in Nat /\ line \in Seq(Token)
  <2>1. w \in Seq(Token) /\ k \in Nat /\ got[s] \in Seq(Seq(Token))
    BY <1>1 DEF TypeOK, ShellTypeOK, OutputTypeOK
  <2>2. 1 \in 1..Len(got[s])
    BY <1>1, <2>1, EmptySeq
  <2> QED BY <2>1, <2>2, ElementOfSeq
<1>3. Delivers(w, k, n, line, ~outEnd[s])
  BY <1>1, <1>2, LineDelivered
<1>4. ~Promise!Finished
  BY FinishedIsFinal DEF Submit, At, FinalOnce
<1>5. taken' = [taken EXCEPT ![s] = n]
  BY <1>1 DEF Submit, After
<1>6. /\ UNCHANGED <<written, outEnd, shutdownRequested>>
      /\ emitted' = IF s = "out" \/ HasErrPort THEN Append(emitted, e) ELSE emitted
  BY DEF Submit, runVars, shellVars, childVars
<1>7. s \in (IF HasErrPort THEN Streams ELSE {"out"}) <=> s = "out" \/ HasErrPort
  BY <1>1 DEF Streams
<1>8. e \in Out
  <2>1. s \in {"out", "err", "window", "final"}
    BY DEF Port
  <2>2. <<copied, inputTuple[2]>> \in (0..MaxTuples) \X (0..MaxTuples)
    BY DEF TypeOK, OutputTypeOK, InputTypeOK
  <2> HIDE DEF s, line
  <2> QED BY <1>2, <2>1, <2>2 DEF Out
<1>9. Delivered' = IF s = "out" \/ HasErrPort
                     THEN Append(Delivered, [port |-> s, line |-> line]) ELSE Delivered
  <2>1. /\ emitted \in Seq(Out) /\ Delivered = View(emitted) /\ Delivered' = View(emitted')
        /\ e.port = s /\ e.line = line
    BY DEF TypeOK, OutputTypeOK, Out, Delivered, View
  <2> HIDE DEF e, s, line
  <2>2. View(Append(emitted, e)) = Append(View(emitted), [port |-> e.port, line |-> e.line])
    BY <1>8, <2>1, ViewAppend
  <2> QED BY <1>6, <2>1, <2>2
<1> HIDE DEF s, line, n, e
<1>10. Promise!Deliver(s)
  BY <1>1, <1>3, <1>4, <1>5, <1>6, <1>7, <1>9 DEF Promise!Deliver, Delivers
<1> QED BY <1>1, <1>10 DEF Promise!Next

(* The punctuation is forwarded.                                           *)
LEMMA ForwardRefines ==
  ASSUME TypeOK, FinalOnce, Relay, NEW w \in Writers, AwaitDrained(w), drained
  PROVE  Promise!Next
<1> DEFINE ending == <<Punct("window"), Punct("final")>>
<1>1. /\ pc[w] = "drain" /\ emitted' = emitted \o ending
      /\ UNCHANGED <<written, outEnd, taken, shutdownRequested>>
  BY DEF AwaitDrained, MayForward, At, runVars, shellVars, childVars
<1>2. shutdownRequested \/ \A s \in Streams : ~outEnd[s] /\ taken[s] = Len(written[s])
  <2>1. pc[Reader] \in {"finish", "done"}
    BY DEF FinalOnce
  <2> QED BY <2>1 DEF Relay, Delivering, AllTaken
<1>3. ~Promise!Finished
  <2>1. ~FinalForwarded
    BY <1>1 DEF FinalOnce, AtFinal
  <2> QED BY <2>1, FinishedIsFinal
<1>4. Delivered' = Delivered \o [i \in DOMAIN <<"window", "final">> |->
                                   Promise!Marker(<<"window", "final">>[i])]
  <2>1. View(ending) = [i \in DOMAIN <<"window", "final">> |->
                          Promise!Marker(<<"window", "final">>[i])]
    BY DEF View, Promise!Marker, Punct
  <2>2. ending \in Seq(Out)
    <3>1. 0 \in 0..MaxTuples
      BY BoundAssumption
    <3>2. <<0, 0>> \in (0..MaxTuples) \X (0..MaxTuples) /\ <<>> \in Seq(Token)
      BY <3>1
    <3>3. Punct("window") \in Out /\ Punct("final") \in Out
      BY <3>2 DEF Punct, Out
    <3> QED BY <3>3
  <2>3. /\ emitted \in Seq(Out) /\ Delivered = View(emitted) /\ Delivered' = View(emitted')
    BY DEF TypeOK, OutputTypeOK, Out, Delivered, View
  <2> HIDE DEF ending
  <2> QED BY <1>1, <2>1, <2>2, <2>3, ViewConcat
<1>5. Promise!Finish
  BY <1>1, <1>2, <1>3, <1>4 DEF Promise!Finish
<1> QED BY <1>5 DEF Promise!Next

(* Every step of the operator, the runtime or the command is one of the    *)
(* promise or is not seen in it.                                           *)
LEMMA NextRefines ==
  ASSUME TypeOK, OneAtATime, FinalOnce, Startup, Relay, [Next]_vars
  PROVE  [Promise!Next]_(Promise!vars)
<1>1. ASSUME NEW t, TerminateBegin(t) \/ TerminateReturns(t) \/ WaitFails(t),
             UNCHANGED <<taken, emitted, shutdownRequested>>
      PROVE  Promise!Next
  <2>1. UNCHANGED written /\ \A s \in Streams : outEnd'[s] => outEnd[s]
    BY <1>1, TerminateStreams DEF Relay, Delivering
  <2> QED BY <1>1, <2>1, QuietRefines
<1>2. ASSUME NEW w \in Writers, WriterTerminate(w)
      PROVE  Promise!Next
  BY <1>1, <1>2 DEF WriterTerminate, outVars
<1>3. CASE ReaderTerminate \/ ReaderFinish \/ Destroy
  BY <1>1, <1>3 DEF ReaderTerminate, ReaderFinish, Destroy, LastTerminate, opVars, runVars, outVars
<1>4. ASSUME NEW w \in Writers, StartShell(w)
      PROVE  Promise!Next
  <2>1. CASE At(w, "fork") /\ SetupFork(Nothing)
    BY <1>4, <2>1, ForkRefines
  <2>2. CASE ~(At(w, "fork") /\ SetupFork(Nothing))
    <3>1. UNCHANGED <<written, taken, emitted, shutdownRequested, outEnd>>
      BY <1>4, <2>2 DEF StartShell, CheckFirst, SetupBegin, runVars, outVars, shellVars, childVars
    <3> QED BY <3>1, QuietRefines
  <2> QED BY <2>1, <2>2
<1>5. ASSUME NEW w \in Writers, AwaitDrained(w)
      PROVE  Promise!Next
  <2>1. CASE ~drained
    <3>1. UNCHANGED <<written, taken, emitted, shutdownRequested, outEnd>>
      BY <1>5, <2>1 DEF AwaitDrained, MayForward, runVars, shellVars, childVars
    <3> QED BY <3>1, QuietRefines
  <2> QED BY <1>5, <2>1, ForwardRefines DEF TypeOK, FlagTypeOK
<1>6. ASSUME NEW w \in Writers,
             \/ Enter(w) \/ Store(w) \/ WriteBegin(w) \/ WriteEnd(w) \/ WriteFail(w)
             \/ FinalShutdown(w) \/ Receive(w) \/ WindowMarker(w) \/ FinalMarker(w)
      PROVE  Promise!Next
  <2>1. UNCHANGED <<written, taken, emitted, shutdownRequested, outEnd>>
    BY <1>6 DEF Enter, Store, WriteBegin, BeginWrite, WriteEnd, EndWrite, WriteFail, FailWrite,
       FinalShutdown, ShutdownShell, Receive, WindowMarker, FinalMarker, opVars, runVars, outVars,
       shellVars, childVars
  <2> QED BY <2>1, QuietRefines
<1>7. CASE \/ Spin \/ TestShutdown \/ ReadBuffered \/ ReadMore \/ Select \/ ReadOut \/ ReadErr
           \/ Caught \/ CopyAttributes \/ Drain \/ PrepareToShutdown \/ Join
  <2>1. UNCHANGED <<written, taken, emitted, shutdownRequested, outEnd>>
    BY <1>7 DEF Spin, TestShutdown, ReadBuffered, TakeLines, ReadMore, Select, ReadOut, ReadErr,
       ReadStream, ReadFromPipe, Caught, CopyAttributes, Drain, PrepareToShutdown, ShutdownShell,
       Join, opVars, runVars, outVars, shellVars, childVars
  <2> QED BY <2>1, QuietRefines
<1>8. CASE RequestShutdown
  <2>1. /\ shutdownRequested' = TRUE /\ UNCHANGED <<written, outEnd, taken, emitted>>
    BY <1>8 DEF RequestShutdown, outVars, shellVars, childVars
  <2>2. Promise!Shutdown
    BY <2>1 DEF Promise!Shutdown, Delivered
  <2> QED BY <2>2 DEF Promise!Next
<1>9. CASE CommandStep \/ CommandFault
  <2>1. UNCHANGED opVars
    BY <1>9 DEF CommandStep, CommandFault, Beside
  <2>2. CASE \E s \in Streams : ChildWrite(s)
    BY <2>1, <2>2, WriteRefines
  <2>3. CASE ~ \E s \in Streams : ChildWrite(s)
    <3>1. UNCHANGED written /\ \A s \in Streams : outEnd'[s] => outEnd[s]
      BY <1>9, <2>3 DEF CommandStep, CommandFault, ChildRead, ChildReadRest, ChildExit, ChildQuit,
         Die, ChildClose, TypeOK, ShellTypeOK
    <3> QED BY <2>1, <3>1, QuietRefines DEF opVars, runVars, outVars
  <2> QED BY <2>2, <2>3
<1>10. CASE UNCHANGED vars
  <2>1. UNCHANGED <<written, taken, emitted, shutdownRequested, outEnd>>
    BY <1>10 DEF vars, opVars, runVars, outVars, shellVars, childVars
  <2> QED BY <2>1, QuietRefines
<1> QED BY <1>2, <1>3, <1>4, <1>5, <1>6, <1>7, <1>8, <1>9, <1>10, SubmitRefines
        DEF Next, WriterStep, ReaderStep, PEStep, Upstream, Ended

(* One shell is started, whatever the order of the steps, as long as no    *)
(* two threads bring the first tuples at once: process() looks at          *)
(* firstTuple_ before it takes any lock, so with initOnFirstTuple that is  *)
(* for the upstream operators to see to.                                   *)
THEOREM StartsOneShell == Spec /\ []OneAtATime => []OneShell
<1> DEFINE Starts == TypeOK /\ FinalOnce /\ Startup
<1>1. Init => Starts
  BY TypeInit, FinalOnceInit, StartupInit
<1>2. Starts /\ OneAtATime /\ [Next]_vars => Starts'
  BY TypeStep, FinalOnceStep, StartupStep
<1>3. Starts => OneShell
  BY DEF Startup, OneShell, TypeOK, FlagTypeOK
<1> HIDE DEF Starts
<1> QED BY <1>1, <1>2, <1>3, PTL DEF Spec

(* What the reader, the writers and the command keep together.             *)
Relaying == TypeOK /\ FinalOnce /\ Startup /\ Relay

(* It holds at first,                                                      *)
LEMMA RelayingInit == Init => Relaying
BY TypeInit, FinalOnceInit, StartupInit, RelayInit DEF Relaying

(* and is kept by every step while nobody starts a second shell.           *)
LEMMA RelayingStep ==
  ASSUME PlainProgram, Relaying, OneAtATime, [Next]_vars
  PROVE  Relaying'
BY TypeStep, FinalOnceStep, StartupStep, RelayStep DEF Relaying

(* The promise begins where the operator does.                             *)
LEMMA PromiseInit == Init => Promise!Init
<1> SUFFICES ASSUME Init PROVE Promise!Init
  OBVIOUS
<1>1. written = [s \in Streams |-> <<>>] /\ taken = [s \in Streams |-> 0] /\ ~shutdownRequested
  BY DEF Init, ShellInit, Nothing
<1>2. Delivered = <<>>
  BY DEF Init, Delivered
<1> QED BY <1>1, <1>2 DEF Promise!Init, Init

(* ShellPipe implements LinePipe: each line that a command of whole lines  *)
(* prints is submitted once, whole and in order, across the read buffer    *)
(* and the command's end, and the window and final punctuation follow the  *)
(* last of them unless the PE shuts down.                                  *)
THEOREM LinesDelivered ==
  ASSUME PlainProgram
  PROVE  Spec /\ []OneAtATime => KeepsPromise
<1>1. Init => Relaying
  BY RelayingInit
<1>2. Relaying /\ OneAtATime /\ [Next]_vars => Relaying'
  BY RelayingStep
<1>3. Init => Promise!Init
  BY PromiseInit
<1>4. Relaying /\ OneAtATime /\ [Next]_vars => [Promise!Next]_(Promise!vars)
  BY NextRefines DEF Relaying
<1> QED BY <1>1, <1>2, <1>3, <1>4, PTL DEF Spec, KeepsPromise, Promise!Spec

(* Where the shell is started by the constructor, or a single thread       *)
(* brings the tuples, no two can bring the first ones.                     *)
OneStarter == ~InitOnFirstTuple \/ \A v, w \in Writers : v = w

(* There the first tuples never meet.                                      *)
LEMMA StartersApart ==
  ASSUME OneStarter
  PROVE  Spec => []OneAtATime
<1> DEFINE Starts == TypeOK /\ FinalOnce /\ Startup
<1>1. Startup => OneAtATime
  BY DEF Startup, OneAtATime, OneStarter
<1>2. Init => Starts
  BY TypeInit, FinalOnceInit, StartupInit
<1>3. Starts /\ [Next]_vars => Starts'
  BY <1>1, TypeStep, FinalOnceStep, StartupStep
<1>4. Starts => OneAtATime
  BY <1>1
<1> HIDE DEF Starts
<1> QED BY <1>2, <1>3, <1>4, PTL DEF Spec

(* So one shell is started without initOnFirstTuple, by any number of      *)
(* threads, and with it by a single one.                                   *)
THEOREM OneStarterOneShell ==
  ASSUME OneStarter
  PROVE  Spec => []OneShell
BY StartersApart, StartsOneShell, PTL

(* And the promise is kept without initOnFirstTuple, by any number of      *)
(* threads, and with it by a single one.                                   *)
THEOREM OneStarterDelivers ==
  ASSUME OneStarter, PlainProgram
  PROVE  Spec => KeepsPromise
BY StartersApart, LinesDelivered, PTL

USE DEF Threads, Reader, PE

(* Every step of the graph is one of the ShellPipe in it.                  *)
LEMMA PipelineSteps == [PipelineNext]_graphVars => [Next]_vars
<1> SUFFICES ASSUME [PipelineNext]_graphVars PROVE [Next]_vars
  OBVIOUS
<1>1. CASE PipelineNext
  BY <1>1 DEF PipelineNext, Next
<1>2. CASE UNCHANGED graphVars
  BY <1>2 DEF graphVars
<1> QED BY <1>1, <1>2

-----------------------------------------------------------------------------
(* One shell                                                               *)

(* Until the shell is started, whoever brings the first document has the   *)
(* Gate shut behind it.                                                    *)
FirstAlone ==
  /\ unacked \in {0, 1}
  /\ ~firstTuple => \A v, w \in Writers : pc[v] \in Early /\ pc[w] \in Early => unacked = 1 /\ v = w

(* Only a first tuple puts a writer where a shell is started.              *)
LEMMA WritersEarly ==
  ASSUME TypeOK, NEW w \in Writers, WriterStep(w) \/ WindowMarker(w) \/ FinalMarker(w)
  PROVE  /\ firstTuple => firstTuple'
         /\ \A x \in Writers : pc'[x] \in Early => pc[x] \in Early
<1>1. firstTuple => firstTuple'
  BY DEF WriterStep, StartShell, CheckFirst, Enter, Store, WriteBegin, WriteEnd, WriteFail,
     WriterTerminate, FinalShutdown, AwaitDrained, WindowMarker, FinalMarker, opVars, portVars
<1>2. \/ UNCHANGED pc
      \/ \E label \in WriterLabels \ Early : Goto(w, label)
      \/ pc[w] \in Early /\ \E label \in Early : Goto(w, label)
  BY DEF WriterStep, StartShell, CheckFirst, Enter, Store, WriteBegin, WriteEnd, WriteFail,
     WriterTerminate, FinalShutdown, AwaitDrained, WindowMarker, FinalMarker, At, WriterLabels,
     Early, Starting
<1>3. CASE UNCHANGED pc
  BY <1>1, <1>3
<1>4. CASE \E label \in WriterLabels \ Early : Goto(w, label)
  BY <1>1, <1>4, WriterGoes DEF TypeOK
<1>5. CASE pc[w] \in Early /\ \E label \in Early : Goto(w, label)
  <2>1. Early \subseteq WriterLabels
    BY DEF Early, Starting, WriterLabels
  <2> QED BY <1>1, <1>5, <2>1, WriterGoes DEF TypeOK
<1> QED BY <1>2, <1>3, <1>4, <1>5

(* The next document is let through only when none is under way.           *)
LEMMA ReceiveAlone ==
  ASSUME MaxUnacked = 1, TypeOK, FirstAlone, NEW w \in Writers, Receive(w), Gate
  PROVE  FirstAlone' /\ unacked = 0 /\ unacked' = 1
<1>1. /\ sent' = sent + 1 /\ sent \in Nat /\ UNCHANGED firstTuple
      /\ \E label \in WriterLabels : Goto(w, label)
  BY DEF Receive, TypeOK, InputTypeOK, portVars, WriterLabels
<1>2. unacked = 0 /\ unacked' = 1
  BY <1>1 DEF Gate, MayPass, FirstAlone
<1>3. \A x \in Writers \ {w} : pc'[x] = pc[x]
  BY <1>1, WriterGoes DEF TypeOK
<1> QED BY <1>1, <1>2, <1>3 DEF FirstAlone

(* Nothing is acknowledged before the shell is there.                      *)
LEMMA ReaderAlone ==
  ASSUME TypeOK, Startup, FirstAlone, ReaderStep, Acknowledge
  PROVE  FirstAlone'
<1>1. unacked' \in {0, 1}
  BY DEF Acknowledge, FirstAlone
<1>2. UNCHANGED firstTuple /\ \A w \in Writers : pc'[w] \in Early => pc[w] \in Early
  <2>1. CASE Drain
    BY <2>1, ThreadsDiffer DEF Drain, Signal, portVars, TypeOK, ThreadTypeOK, Early, Starting
  <2>2. CASE ~Drain
    <3>1. UNCHANGED firstTuple
      BY <2>2 DEF ReaderStep, Spin, TestShutdown, ReadBuffered, ReadMore, Select, ReadOut, ReadErr,
         ReadStream, ReaderTerminate, Caught, CopyAttributes, Submit, ReaderFinish, opVars, portVars
    <3> QED BY <2>2, <3>1, ReaderPlace
  <2> QED BY <2>1, <2>2
<1>3. CASE firstTuple
  BY <1>1, <1>2, <1>3 DEF FirstAlone
<1>4. CASE ~InitOnFirstTuple
  BY <1>1, <1>2, <1>4 DEF FirstAlone, Startup
<1>5. CASE InitOnFirstTuple /\ ~firstTuple
  <2>1. pc[Reader] # "submit"
    BY <1>5 DEF Startup
  <2>2. emitted' = emitted
    BY <2>1 DEF ReaderStep, Spin, TestShutdown, ReadBuffered, ReadMore, Select, ReadOut, ReadErr,
       ReadStream, ReaderTerminate, Caught, CopyAttributes, Submit, Drain, ReaderFinish, At,
       opVars, outVars
  <2>3. unacked' = unacked
    BY <2>2 DEF Acknowledge
  <2> QED BY <1>2, <2>3 DEF FirstAlone
<1> QED BY <1>3, <1>4, <1>5 DEF TypeOK, FlagTypeOK, Startup

(* So it is whatever happens.                                              *)
LEMMA AloneStep ==
  ASSUME MaxUnacked = 1, TypeOK, Startup, FirstAlone, [PipelineNext]_graphVars
  PROVE  FirstAlone'
<1>1. CASE Upstream /\ Gate
  <2>1. PICK w \in Writers : Receive(w) \/ WindowMarker(w) \/ FinalMarker(w)
    BY <1>1 DEF Upstream
  <2>2. CASE Receive(w)
    BY <1>1, <2>2, ReceiveAlone
  <2>3. CASE WindowMarker(w) \/ FinalMarker(w)
    <3>1. sent' = sent /\ sent \in Nat
      BY <2>3 DEF WindowMarker, FinalMarker, TypeOK, InputTypeOK
    <3>2. unacked' = unacked
      BY <1>1, <3>1 DEF Gate, FirstAlone
    <3> QED BY <2>3, <3>2, WritersEarly DEF FirstAlone
  <2> QED BY <2>1, <2>2, <2>3
<1>2. CASE ReaderStep /\ Acknowledge
  BY <1>2, ReaderAlone
<1>3. ASSUME NEW w \in Writers, WriterStep(w), UNCHANGED unacked
      PROVE  FirstAlone'
  BY <1>3, WritersEarly DEF FirstAlone
<1>4. CASE (PEStep \/ RequestShutdown) /\ UNCHANGED unacked
  BY <1>4, PEPlace DEF FirstAlone, portVars
<1>5. CASE UNCHANGED <<pc, firstTuple, unacked>>
  BY <1>5 DEF FirstAlone
<1>6. CASE (CommandStep \/ CommandFault \/ Ended) /\ UNCHANGED unacked
  BY <1>5, <1>6 DEF CommandStep, CommandFault, Beside, Ended, vars, opVars, portVars
<1>7. CASE UNCHANGED graphVars
  BY <1>5, <1>7 DEF graphVars, vars, opVars, portVars
<1> QED BY <1>1, <1>2, <1>3, <1>4, <1>6, <1>7 DEF PipelineNext

(* The Gate sees to it that no two threads bring the first tuples at once. *)
LEMMA GateKeepsApart ==
  ASSUME MaxUnacked = 1
  PROVE  PipelineSpec => Spec /\ []OneAtATime
<1> DEFINE Inv == TypeOK /\ FinalOnce /\ Startup /\ FirstAlone
<1>1. PipelineInit => Init /\ Inv
  <2> SUFFICES ASSUME PipelineInit PROVE Init /\ Inv
    OBVIOUS
  <2>1. Init /\ unacked = 0
    BY DEF PipelineInit
  <2>2. \A w \in Writers : pc[w] = "idle"
    BY <2>1, ThreadsDiffer DEF Init
  <2>3. FirstAlone
    BY <2>1, <2>2 DEF FirstAlone, Early, Starting
  <2> QED BY <2>1, <2>3, TypeInit, FinalOnceInit, StartupInit
<1>2. FirstAlone => OneAtATime
  BY DEF FirstAlone, OneAtATime
<1>3. Inv /\ [PipelineNext]_graphVars => Inv'
  BY <1>2, PipelineSteps, TypeStep, FinalOnceStep, StartupStep, AloneStep
<1>4. Inv => OneAtATime
  BY <1>2
<1> HIDE DEF Inv
<1> QED BY <1>1, <1>3, <1>4, PipelineSteps, PTL DEF PipelineSpec, Spec

(* Behind the Gate one shell is started, with initOnFirstTuple too, and    *)
(* by any number of threads.                                               *)
THEOREM GateStartsOneShell ==
  ASSUME MaxUnacked = 1
  PROVE  PipelineSpec => []OneShell
BY GateKeepsApart, StartsOneShell, PTL

(* And every line of the script is submitted once, whole and in order.     *)
THEOREM GateDelivers ==
  ASSUME MaxUnacked = 1, PlainProgram
  PROVE  PipelineSpec => KeepsPromise
BY GateKeepsApart, LinesDelivered, PTL

-----------------------------------------------------------------------------
(* Each result belongs to its document                                     *)

(* A document is one line, and a script answers each with one line; there  *)
(* is one output port.                                                     *)
LineByLine ==
  /\ PlainProgram
  /\ \A k \in 1..MaxTuples : Payload(k) \in Seq(Text \cup {NUL})
  /\ \A p \in Program : \E line \in Seq(Text) : p.out = Append(line, NL)

(* A writer that has not passed on its document yet.                       *)
Before == Early \cup {"enter", "store"}
Busy   == Before \cup {"write", "writeFail"}
AllQuiet == \A w \in Writers : pc[w] \notin Busy

(* What the command has still to print of an answer, and has printed and   *)
(* readLine() not returned.                                                *)
Printed    == (buffer["out"] \o outPipe["out"]) \o work["out"]
Unanswered == got["out"] = <<>> /\ Printed = <<>>

(* The document's line, and what of it the command has not read through.   *)
Document == Append(Payload(sent), NL)
Unread   == heard \o inPipe

(* An answer is cut short only if the command has died or closed a stream. *)
AnswerTo(k, text, cut) ==
  \E p \in Program, left \in Seq(Token) :
    p.line = Payload(k) /\ p.out = text \o left /\ (~cut => left = <<>>)

(* One document is under way, or none.                                     *)
Counting ==
  /\ unacked \in {0, 1} /\ sent = Len(emitted) + unacked
  /\ \A k \in 1..Len(emitted) : emitted[k].port = "out"

(* It is with a writer,                                                    *)
OneBusy ==
  \A w \in Writers : pc[w] \in Busy =>
    /\ unacked = 1 /\ Unanswered /\ tuple[w] = sent
    /\ \A v \in Writers : pc[v] \in Busy => v = w

(* whose attributes stay where the writer has put them,                    *)
Stored ==
  /\ \A w \in Writers : pc[w] = "store" => inputTuple[1] = sent
  /\ unacked = 1 /\ (\A w \in Writers : pc[w] \notin Before) => inputTuple = <<sent, sent>>

(* or with the command, which reads no other line,                         *)
Fed ==
  proc = "running" =>
    /\ \A w \in Writers : /\ pc[w] \in Before => Unread = <<>>
                          /\ pc[w] = "write"  => Unread \o rest[w] = Document
                          /\ pc[w] # "writeFail"
    /\ AllQuiet /\ Unread # <<>> => unacked = 1 /\ Unanswered /\ Unread = Document
    /\ ~finalSent => fd["in"] = "open"

(* or is being answered.                                                   *)
Answering ==
  ~Unanswered =>
    /\ unacked = 1 /\ (proc = "running" => Unread = <<>>)
    /\ got["out"] = <<>> => AnswerTo(sent, Printed, faulty)
    /\ got["out"] # <<>> =>
         /\ Printed = <<>>
         /\ \/ AnswerTo(sent, Append(got["out"][1], NL), FALSE)
            \/ faulty /\ AnswerTo(sent, got["out"][1], TRUE)
         /\ pc[Reader] = "submit" => copied = sent

InFlight == Counting /\ OneBusy /\ Stored /\ Fed /\ Answering

(* Nobody kills a command that runs as it should.                          *)
Steady ==
  /\ ~faulty /\ proc = "running" =>
       /\ mutex = NoThread /\ pc[Reader] \in Looping
       /\ \A s \in Streams : ~closed[s] /\ outEnd[s] /\ fd[s] = "open"
  /\ mutex # NoThread => \/ mutex = Reader /\ pc[Reader] \in {"fail", "finish"}
                         \/ mutex \in Writers /\ pc[mutex] = "writeFail"
  /\ pc[PE] = "up"

-----------------------------------------------------------------------------
(* Sequences                                                               *)

(* What is empty in three parts is empty in each.                          *)
LEMMA ThreeParts ==
  ASSUME NEW a \in Seq(Token), NEW b \in Seq(Token), NEW c \in Seq(Token)
  PROVE  /\ (a \o b) \o c \in Seq(Token)
         /\ (a \o b) \o c = <<>> <=> a = <<>> /\ b = <<>> /\ c = <<>>
         /\ (a \o b) \o c = a \o (b \o c)
<1>1. a \o b \in Seq(Token) /\ (a \o b) \o c \in Seq(Token)
  BY ConcatProperties
<1>2. (a \o b) \o c = a \o (b \o c)
  BY ConcatAssociative
<1>3. ASSUME (a \o b) \o c = <<>> PROVE a = <<>> /\ b = <<>> /\ c = <<>>
  <2>1. /\ Len((a \o b) \o c) = (Len(a) + Len(b)) + Len(c) /\ Len((a \o b) \o c) = 0
        /\ Len(a) \in Nat /\ Len(b) \in Nat /\ Len(c) \in Nat
    BY <1>1, <1>3, ConcatProperties, LenProperties, EmptySeq
  <2>2. Len(a) = 0 /\ Len(b) = 0 /\ Len(c) = 0
    BY <2>1
  <2> QED BY <2>2, EmptySeq
<1>4. ASSUME a = <<>>, b = <<>>, c = <<>> PROVE (a \o b) \o c = <<>>
  BY <1>1, <1>4, ConcatEmptySeq
<1> QED BY <1>1, <1>2, <1>3, <1>4

(* And of four parts.                                                      *)
LEMMA Regrouped ==
  \A x, y, z : x \in Seq(Token) /\ y \in Seq(Token) /\ z \in Seq(Token)
                => (x \o y) \o z = x \o (y \o z)
BY ConcatAssociative

LEMMA FourParts ==
  \A a, b, c, d : a \in Seq(Token) /\ b \in Seq(Token) /\ c \in Seq(Token) /\ d \in Seq(Token)
                  => ((a \o b) \o c) \o d = a \o (b \o (c \o d))
<1> TAKE a, b, c, d
<1> HAVE a \in Seq(Token) /\ b \in Seq(Token) /\ c \in Seq(Token) /\ d \in Seq(Token)
<1>1. a \o b \in Seq(Token) /\ c \o d \in Seq(Token)
  BY ConcatProperties
<1> DEFINE ab == a \o b
           cd == c \o d
<1> HIDE DEF ab, cd
<1>2. (ab \o c) \o d = ab \o (c \o d)
  <2>1. ab \in Seq(Token) /\ c \in Seq(Token) /\ d \in Seq(Token)
    BY <1>1 DEF ab
  <2> QED BY ONLY <2>1, Regrouped
<1>3. (a \o b) \o cd = a \o (b \o cd)
  <2>1. a \in Seq(Token) /\ b \in Seq(Token) /\ cd \in Seq(Token)
    BY <1>1 DEF cd
  <2> QED BY ONLY <2>1, Regrouped
<1> QED BY ONLY <1>2, <1>3 DEF ab, cd

(* A token that moves from the front of one part to the end of the one     *)
(* before it.                                                              *)
LEMMA TokenMoves ==
  ASSUME NEW a \in Seq(Token), NEW b \in Seq(Token), b # <<>>
  PROVE  Append(a, Head(b)) \o Tail(b) = a \o b
<1>1. /\ Head(b) \in Token /\ Tail(b) \in Seq(Token) /\ Len(Tail(b)) = Len(b) - 1
      /\ \A i \in 1..Len(Tail(b)) : Tail(b)[i] = b[i + 1]
  BY HeadTailProperties
<1>2. /\ Append(a, Head(b)) \in Seq(Token) /\ Len(Append(a, Head(b))) = Len(a) + 1
      /\ \A i \in 1..Len(a) : Append(a, Head(b))[i] = a[i]
      /\ Append(a, Head(b))[Len(a) + 1] = Head(b)
  BY <1>1, AppendProperties
<1>3. Len(a) \in Nat /\ Len(b) \in Nat \ {0}
  BY LenProperties, EmptySeq
<1> DEFINE c == Append(a, Head(b))
           d == Tail(b)
<1>4. Head(b) = b[1]
  BY SMT
<1> HIDE DEF c, d
<1>5. /\ c \o d \in Seq(Token) /\ Len(c \o d) = Len(c) + Len(d)
      /\ \A i \in 1..(Len(c) + Len(d)) : (c \o d)[i] = IF i <= Len(c) THEN c[i] ELSE d[i - Len(c)]
  BY <1>1, <1>2, ConcatProperties DEF c, d
<1>6. /\ a \o b \in Seq(Token) /\ Len(a \o b) = Len(a) + Len(b)
      /\ \A i \in 1..(Len(a) + Len(b)) : (a \o b)[i] = IF i <= Len(a) THEN a[i] ELSE b[i - Len(a)]
  BY ConcatProperties
<1>7. Len(c) = Len(a) + 1 /\ Len(d) = Len(b) - 1
  BY <1>1, <1>2 DEF c, d
<1>8. ASSUME NEW i \in 1..(Len(a) + Len(b))
      PROVE  (c \o d)[i] = (a \o b)[i]
  <2>1. CASE i <= Len(a)
    BY <1>2, <1>3, <1>5, <1>6, <1>7, <2>1 DEF c
  <2>2. CASE i = Len(a) + 1
    <3>1. (c \o d)[i] = c[i] /\ c[i] = b[1]
      BY <1>2, <1>3, <1>4, <1>5, <1>7, <2>2 DEF c
    <3>2. (a \o b)[i] = b[i - Len(a)]
      BY <1>3, <1>6, <2>2
    <3> QED BY <1>3, <2>2, <3>1, <3>2
  <2>3. CASE i > Len(a) + 1
    <3>1. (c \o d)[i] = d[i - Len(c)] /\ i - Len(c) \in 1..Len(d)
      BY <1>3, <1>5, <1>7, <2>3
    <3>2. d[i - Len(c)] = b[(i - Len(c)) + 1]
      BY <1>1, <3>1 DEF d
    <3>3. (a \o b)[i] = b[i - Len(a)]
      BY <1>3, <1>6, <2>3
    <3> QED BY <1>3, <1>7, <3>1, <3>2, <3>3
  <2>4. i <= Len(a) \/ i = Len(a) + 1 \/ i > Len(a) + 1
    BY <1>3
  <2> QED BY <2>1, <2>2, <2>3, <2>4
<1>9. Len(c \o d) = Len(a \o b)
  BY <1>3, <1>5, <1>6, <1>7
<1> QED BY <1>5, <1>6, <1>8, <1>9, SeqEqual DEF c, d

(* A chunk that moves likewise.                                            *)
LEMMA ChunkMoves ==
  ASSUME NEW a \in Seq(Token), NEW b \in Seq(Token), NEW n \in 0..Len(b)
  PROVE  /\ SubSeq(b, 1, n) \in Seq(Token) /\ SubSeq(b, n + 1, Len(b)) \in Seq(Token)
         /\ (a \o SubSeq(b, 1, n)) \o SubSeq(b, n + 1, Len(b)) = a \o b
<1>1. Len(b) \in Nat
  BY LenProperties
<1>2. \A i \in 1..Len(b) : b[i] \in Token
  BY ElementOfSeq
<1>3. SubSeq(b, 1, n) \in Seq(Token)
  <2>1. \A i \in 1..n : b[i] \in Token
    BY <1>1, <1>2
  <2> QED BY <1>1, <2>1, SubSeqProperties
<1>4. SubSeq(b, n + 1, Len(b)) \in Seq(Token)
  <2>1. \A i \in (n + 1)..Len(b) : b[i] \in Token
    BY <1>1, <1>2
  <2> QED BY <1>1, <2>1, SubSeqProperties
<1>5. SubSeq(b, 1, n) \o SubSeq(b, n + 1, Len(b)) = SubSeq(b, 1, Len(b))
  <2>1. 1 \in 1..(Len(b) + 1) /\ n \in (1 - 1)..Len(b) /\ Len(b) \in n..Len(b)
    BY <1>1
  <2> QED BY <2>1, ConcatAdjacentSubSeq
<1>6. SubSeq(b, 1, Len(b)) = b
  BY SubSeqFull
<1> DEFINE x == SubSeq(b, 1, n)
           y == SubSeq(b, n + 1, Len(b))
<1> HIDE DEF x, y
<1>7. (a \o x) \o y = a \o (x \o y)
  <2>1. x \in Seq(Token) /\ y \in Seq(Token)
    BY <1>3, <1>4 DEF x, y
  <2> QED BY <2>1, ConcatAssociative
<1> QED BY <1>3, <1>4, <1>5, <1>6, <1>7 DEF x, y

(* The first part of a sequence is a prefix of it.                         *)
LEMMA FirstPart ==
  ASSUME NEW text \in Seq(Token), NEW left \in Seq(Token)
  PROVE  IsPrefixOf(text, text \o left)
<1> DEFINE q == text \o left
           n == Len(text)
<1>1. n \in Nat /\ Len(left) \in Nat
  BY LenProperties
<1>2. /\ q \in Seq(Token) /\ Len(q) = n + Len(left)
      /\ \A i \in 1..(n + Len(left)) : q[i] = IF i <= n THEN text[i] ELSE left[i - n]
  BY ConcatProperties
<1> HIDE DEF q
<1>3. \A i \in 1..n : q[i] \in Token /\ q[i] = text[i]
  BY <1>1, <1>2, ElementOfSeq
<1>4. /\ SubSeq(q, 1, n) \in Seq(Token) /\ Len(SubSeq(q, 1, n)) = n
      /\ \A i \in 1..n : SubSeq(q, 1, n)[i] = q[i]
  <2>1. /\ SubSeq(q, 1, n) \in Seq(Token)
        /\ Len(SubSeq(q, 1, n)) = IF 1 <= n THEN (n - 1) + 1 ELSE 0
        /\ \A i \in 1..((n - 1) + 1) : SubSeq(q, 1, n)[i] = q[(1 + i) - 1]
    BY <1>1, <1>3, SubSeqProperties
  <2> QED BY <1>1, <2>1
<1>5. SubSeq(q, 1, n) = text
  BY <1>3, <1>4, SeqEqual
<1> QED BY <1>1, <1>2, <1>5 DEF IsPrefixOf, q

(* A line ends at its newline.                                             *)
LEMMA EndsThere ==
  ASSUME NEW line \in Seq(Text \cup {NUL}), NEW text \in Seq(Token), NEW left \in Seq(Token),
         Append(line, NL) = text \o left, NEW i \in 1..Len(text), text[i] = NL
  PROVE  i = Len(text) /\ left = <<>> /\ text = Append(line, NL)
<1>1. /\ Len(line) \in Nat /\ Len(text) \in Nat /\ Len(left) \in Nat
      /\ \A j \in 1..Len(line) : line[j] # NL
  <2>1. \A j \in 1..Len(line) : line[j] \in Text \cup {NUL}
    BY ElementOfSeq
  <2> QED BY <2>1, LenProperties, TokenAssumption
<1>2. /\ Len(text \o left) = Len(text) + Len(left)
      /\ \A j \in 1..(Len(text) + Len(left)) :
           (text \o left)[j] = IF j <= Len(text) THEN text[j] ELSE left[j - Len(text)]
  BY ConcatProperties
<1>3. /\ Len(Append(line, NL)) = Len(line) + 1
      /\ \A j \in 1..Len(line) : Append(line, NL)[j] = line[j]
  <2>1. line \in Seq(Token) /\ NL \in Token
    BY SeqMonotonic DEF Token
  <2> QED BY <2>1, AppendProperties
<1>4. (text \o left)[i] = NL /\ i \in 1..(Len(line) + 1) /\ Len(line) + 1 = Len(text) + Len(left)
  BY <1>1, <1>2, <1>3
<1>5. i = Len(line) + 1
  BY <1>1, <1>3, <1>4
<1>6. i = Len(text) /\ Len(left) = 0
  BY <1>1, <1>4, <1>5
<1>7. left = <<>>
  BY <1>6, EmptySeq
<1> QED BY <1>6, <1>7, ConcatEmptySeq

(* What comes before it is the line.                                       *)
LEMMA BeforeNewline ==
  ASSUME NEW p \in Seq(Token), NEW q \in Seq(Token), Append(p, NL) = Append(q, NL)
  PROVE  p = q
<1>1. NL \in Token
  BY DEF Token
<1>2. /\ Len(Append(p, NL)) = Len(p) + 1 /\ \A i \in 1..Len(p) : Append(p, NL)[i] = p[i]
      /\ Len(Append(q, NL)) = Len(q) + 1 /\ \A i \in 1..Len(q) : Append(q, NL)[i] = q[i]
  BY <1>1, AppendProperties
<1>3. Len(p) \in Nat /\ Len(q) \in Nat
  BY LenProperties
<1>4. Len(p) = Len(q)
  BY <1>2, <1>3
<1> QED BY <1>2, <1>4, SeqEqual

(* The part before the last token of a sequence, and that token.           *)
LEMMA LastSplits ==
  ASSUME NEW b \in Seq(Token), Len(b) # 0
  PROVE  /\ SubSeq(b, 1, Len(b) - 1) \in Seq(Token)
         /\ b = Append(SubSeq(b, 1, Len(b) - 1), b[Len(b)])
         /\ SubSeq(b, Len(b) + 1, Len(b)) = <<>>
<1> DEFINE n == Len(b)
           c == SubSeq(b, 1, n - 1)
<1>1. n \in Nat /\ n - 1 \in 0..n
  BY LenProperties
<1>2. \A i \in 1..n : b[i] \in Token
  BY ElementOfSeq
<1>3. /\ c \in Seq(Token) /\ Len(c) = n - 1 /\ \A i \in 1..(n - 1) : c[i] = b[i]
  <2>1. \A i \in 1..(n - 1) : b[i] \in Token
    BY <1>1, <1>2
  <2>2. /\ c \in Seq(Token)
        /\ Len(c) = IF 1 <= n - 1 THEN ((n - 1) - 1) + 1 ELSE 0
        /\ \A i \in 1..(((n - 1) - 1) + 1) : c[i] = b[(1 + i) - 1]
    BY <1>1, <2>1, SubSeqProperties
  <2>3. ((n - 1) - 1) + 1 = n - 1 /\ n >= 1 /\ n \in Nat
    BY <1>1
  <2> HIDE DEF c, n
  <2>4. Len(c) = n - 1
    BY <2>2, <2>3
  <2>5. \A i \in 1..(n - 1) : c[i] = b[i]
    BY <2>2, <2>3
  <2> QED BY <2>2, <2>4, <2>5
<1>4. SubSeq(b, n + 1, n) = <<>>
  BY <1>1, SubSeqEmpty
<1> HIDE DEF n, c
<1>5. b[n] \in Token /\ n \in Nat \ {0} /\ n = Len(b)
  BY <1>1, <1>2 DEF n
<1>6. /\ Append(c, b[n]) \in Seq(Token) /\ Len(Append(c, b[n])) = Len(c) + 1
      /\ \A i \in 1..Len(c) : Append(c, b[n])[i] = c[i]
      /\ Append(c, b[n])[Len(c) + 1] = b[n]
  BY <1>3, <1>5, AppendProperties
<1>7. Len(Append(c, b[n])) = n /\ \A i \in 1..n : Append(c, b[n])[i] = b[i]
  <2>1. Len(c) + 1 = n
    BY <1>3, <1>5
  <2>2. ASSUME NEW i \in 1..n PROVE Append(c, b[n])[i] = b[i]
    <3>1. i = n \/ i \in 1..(n - 1)
      BY <1>5
    <3> QED BY <1>3, <1>6, <2>1, <3>1
  <2> QED BY <1>6, <2>1, <2>2
<1>8. Append(c, b[n]) = b
  BY <1>5, <1>6, <1>7, SeqEqual
<1> QED BY <1>3, <1>4, <1>8 DEF n, c

-----------------------------------------------------------------------------
(* Steps of the writers and of the upstream                                *)

(* The places a token of a document or an answer goes through.             *)
LEMMA PartsType ==
  ASSUME TypeOK
  PROVE  /\ buffer["out"] \in Seq(Token) /\ outPipe["out"] \in Seq(Token)
         /\ work["out"] \in Seq(Token) /\ Printed \in Seq(Token)
         /\ heard \in Seq(Token) /\ inPipe \in Seq(Token) /\ Unread \in Seq(Token)
<1>1. /\ buffer["out"] \in Seq(Token) /\ outPipe["out"] \in Seq(Token) /\ work["out"] \in Seq(Token)
      /\ heard \in Seq(Text \cup {NUL}) /\ inPipe \in Seq(Token)
  BY DEF TypeOK, ShellTypeOK, Streams
<1>2. heard \in Seq(Token)
  BY <1>1, SeqMonotonic DEF Token
<1> QED BY <1>1, <1>2, ConcatProperties DEF Printed, Unread

(* Where a document is under way, it is the latest.                        *)
LEMMA DocumentType ==
  ASSUME TypeOK, LineByLine, sent # 0
  PROVE  /\ Payload(sent) \in Seq(Text \cup {NUL}) /\ Payload(sent) \in Seq(Token)
         /\ NL \in Token /\ Document \in Seq(Token)
<1>1. sent \in 1..MaxTuples
  BY BoundAssumption DEF TypeOK, InputTypeOK
<1>2. Payload(sent) \in Seq(Text \cup {NUL}) /\ NL \in Token
  BY <1>1 DEF LineByLine, Token
<1>3. Payload(sent) \in Seq(Token)
  BY <1>2, SeqMonotonic DEF Token
<1> QED BY <1>2, <1>3, AppendProperties DEF Document

(* A step of the writer that has the document.                             *)
LEMMA BusyMoves ==
  ASSUME OneBusy, NEW w \in Writers, pc[w] \in Busy,
         \A x \in Writers \ {w} : pc'[x] = pc[x],
         UNCHANGED <<unacked, tuple, sent>>, Unanswered'
  PROVE  /\ OneBusy' /\ unacked = 1 /\ tuple[w] = sent /\ Unanswered
         /\ \A x \in Writers \ {w} : pc'[x] \notin Busy
BY DEF OneBusy

(* What happens to the input and the writers does not touch an answer.     *)
LEMMA AnswerStays ==
  ASSUME UNCHANGED <<got, buffer, outPipe, work>>
  PROVE  UNCHANGED <<Unanswered, Printed>>
BY DEF Unanswered, Printed

(* The next document comes when nothing of the last one is under way.      *)
LEMMA ReceiveInFlight ==
  ASSUME MaxUnacked = 1, TypeOK, FirstAlone, InFlight, NEW w \in Writers, Receive(w), Gate
  PROVE  InFlight'
<1>1. unacked = 0 /\ unacked' = 1
  BY ReceiveAlone
<1>2. AllQuiet /\ Unanswered /\ (proc = "running" => Unread = <<>>)
  BY <1>1 DEF InFlight, OneBusy, AllQuiet, Answering, Fed
<1>3. /\ sent' = sent + 1 /\ sent \in Nat /\ tuple' = [tuple EXCEPT ![w] = sent + 1]
      /\ UNCHANGED <<emitted, finalSent, inputTuple, rest, got, shellVars>>
      /\ \E label \in {"check", "enter"} : Goto(w, label)
  BY DEF Receive, TypeOK, InputTypeOK, portVars, outVars
<1>4. /\ pc'[w] \in Before \ {"store"} /\ \A x \in Writers \ {w} : pc'[x] = pc[x] /\ pc'[x] \notin Busy
  <2>1. "check" \in WriterLabels /\ "enter" \in WriterLabels
    BY DEF WriterLabels
  <2>2. pc'[w] \in {"check", "enter"} /\ \A x \in Writers \ {w} : pc'[x] = pc[x]
    BY <1>3, <2>1, WriterGoes DEF TypeOK
  <2> QED BY <1>2, <2>2 DEF AllQuiet, Before, Early, Starting
<1>5. UNCHANGED <<buffer, outPipe, work, heard, inPipe, proc, fd>>
  BY <1>3 DEF shellVars, objVars, childVars, pipeVars
<1>6. Unanswered' /\ (proc' = "running" => Unread' = <<>>)
  BY <1>2, <1>3, <1>5, AnswerStays DEF Unread
<1>7. Counting'
  BY <1>1, <1>3 DEF InFlight, Counting
<1>8. OneBusy'
  <2>1. tuple'[w] = sent'
    BY <1>3 DEF TypeOK, InputTypeOK
  <2> QED BY <1>1, <1>4, <1>6, <2>1 DEF OneBusy
<1>9. Stored'
  BY <1>4 DEF Stored, Before, Early, Starting, Busy
<1>10. Fed'
  <2>1. pc'[w] \notin {"write", "writeFail"} /\ ~AllQuiet'
    BY <1>4 DEF Before, Early, Starting, AllQuiet, Busy
  <2> QED BY <1>3, <1>4, <1>5, <1>6, <2>1 DEF InFlight, Fed, Busy
<1>11. Answering'
  BY <1>6 DEF Answering
<1> QED BY <1>7, <1>8, <1>9, <1>10, <1>11 DEF InFlight

(* The shell is started for the first document.                            *)
LEMMA StartInFlight ==
  ASSUME TypeOK, InFlight, NEW w \in Writers, StartShell(w), UNCHANGED unacked
  PROVE  InFlight'
<1>1. /\ pc[w] \in Early /\ \E label \in Early \cup {"enter"} : Goto(w, label)
      /\ UNCHANGED <<sent, finalSent, tuple, rest, inputTuple, got, emitted>>
  BY DEF StartShell, CheckFirst, At, Early, Starting, upVars, outVars
<1>2. pc[w] \in Before /\ pc'[w] \in Before \ {"store"} /\ \A x \in Writers \ {w} : pc'[x] = pc[x]
  <2>1. Early \cup {"enter"} \subseteq WriterLabels
    BY DEF Early, Starting, WriterLabels
  <2> QED BY <1>1, <2>1, WriterGoes DEF TypeOK, Before, Early, Starting
<1>3. unacked = 1 /\ Unanswered /\ (proc = "running" => Unread = <<>>)
  BY <1>2 DEF InFlight, OneBusy, Fed, Busy
<1>4. \/ UNCHANGED shellVars
      \/ SetupBegin \/ SetupFork(Nothing)
  BY DEF StartShell, CheckFirst
<1>5. /\ Unanswered' /\ (proc' = "running" => Unread' = <<>>)
      /\ proc' = "running" => (proc = "running" /\ fd' = fd) \/ fd'["in"] = "open"
  <2>1. CASE UNCHANGED shellVars
    BY <1>1, <1>3, <2>1, AnswerStays DEF Unread, shellVars, objVars, childVars, pipeVars
  <2>2. CASE SetupBegin
    BY <1>1, <1>3, <2>2, AnswerStays DEF SetupBegin, pipeVars
  <2>3. CASE SetupFork(Nothing)
    <3>1. /\ buffer'["out"] = buffer["out"] /\ outPipe'["out"] = <<>> /\ work'["out"] = <<>>
          /\ heard' = <<>> /\ inPipe' = <<>> /\ fd'["in"] = "open"
      BY <2>3 DEF SetupFork, Nothing, Streams, Fds
    <3>2. buffer["out"] = <<>> /\ got["out"] = <<>>
      BY <1>3, PartsType, ThreeParts DEF Unanswered, Printed
    <3>3. <<>> \in Seq(Token)
      BY EmptySeq
    <3>4. Unanswered' /\ Unread' = <<>>
      BY <1>1, <3>1, <3>2, <3>3, ConcatEmptySeq DEF Unanswered, Printed, Unread
    <3> QED BY <3>1, <3>4
  <2> QED BY <1>4, <2>1, <2>2, <2>3
<1>6. OneBusy' /\ \A x \in Writers \ {w} : pc'[x] \notin Busy
  BY <1>1, <1>2, <1>5, BusyMoves DEF InFlight, Busy
<1>7. Counting' /\ Stored' /\ Answering'
  <2>1. Counting' /\ Answering'
    BY <1>1, <1>5 DEF InFlight, Counting, Answering
  <2>2. Stored'
    BY <1>2, <1>6 DEF Stored, Busy, Before
  <2> QED BY <2>1, <2>2
<1>8. Fed'
  <2>1. pc'[w] \notin {"write", "writeFail"} /\ ~AllQuiet'
    BY <1>2 DEF Before, Early, Starting, AllQuiet, Busy
  <2> QED BY <1>1, <1>5, <1>6, <2>1 DEF InFlight, Fed, Busy
<1> QED BY <1>6, <1>7, <1>8 DEF InFlight

(* process(tuple) up to the write() calls.                                 *)
LEMMA StoreInFlight ==
  ASSUME TypeOK, LineByLine, InFlight, NEW w \in Writers, Enter(w) \/ Store(w), UNCHANGED unacked
  PROVE  InFlight'
<1>1. /\ pc[w] \in Before /\ UNCHANGED <<upVars, outVars, shellVars>>
      /\ UNCHANGED <<sent, finalSent, tuple, got, emitted, copied>>
      /\ \E label \in {"store", "write"} : Goto(w, label)
  BY DEF Enter, Store, At, Before, upVars, outVars
<1>2. pc'[w] \in {"store", "write"} /\ \A x \in Writers \ {w} : pc'[x] = pc[x]
  <2>1. {"store", "write"} \subseteq WriterLabels
    BY DEF WriterLabels
  <2> QED BY <1>1, <2>1, WriterGoes DEF TypeOK
<1>3. /\ unacked = 1 /\ Unanswered /\ tuple[w] = sent /\ (proc = "running" => Unread = <<>>)
      /\ \A x \in Writers : pc[x] \in Busy => x = w
  BY <1>1 DEF InFlight, OneBusy, Fed, Busy
<1>4. /\ UNCHANGED <<buffer, outPipe, work, heard, inPipe, proc, fd>> /\ Unanswered' /\ UNCHANGED Unread
  BY <1>1, <1>3, AnswerStays DEF Unread, shellVars, objVars, childVars, pipeVars
<1>5. OneBusy' /\ \A x \in Writers \ {w} : pc'[x] \notin Busy
  BY <1>1, <1>2, <1>4, BusyMoves DEF InFlight, Busy
<1>6. Counting' /\ Answering'
  BY <1>1, <1>4 DEF InFlight, Counting, Answering
<1>7. ~AllQuiet'
  BY <1>2 DEF AllQuiet, Busy, Before
<1>8. CASE Enter(w)
  <2>1. pc'[w] = "store" /\ inputTuple'[1] = sent
    BY <1>3, <1>8, WriterGoes DEF Enter, WriterLabels, TypeOK, InputTypeOK
  <2>2. Stored'
    BY <1>1, <1>5, <2>1 DEF Stored, Before, Busy
  <2>3. Fed'
    BY <1>1, <1>3, <1>4, <1>5, <1>7, <2>1 DEF InFlight, Fed, Busy, Before
  <2> QED BY <1>5, <1>6, <2>2, <2>3 DEF InFlight
<1>9. CASE Store(w)
  <2>1. /\ pc'[w] = "write" /\ pc[w] = "store" /\ rest'[w] = Document
        /\ inputTuple' = [inputTuple EXCEPT ![2] = sent]
    BY <1>3, <1>9, WriterGoes DEF Store, At, WriterLabels, Document, TypeOK, InputTypeOK
  <2>2. inputTuple[1] = sent /\ inputTuple' = <<sent, sent>>
    <3>1. inputTuple[1] = sent
      BY <2>1 DEF InFlight, Stored
    <3> QED BY <2>1, <3>1 DEF TypeOK, InputTypeOK
  <2>3. Stored'
    BY <1>1, <1>5, <2>1, <2>2 DEF Stored, Before, Early, Starting, Busy
  <2>4. proc = "running" => Unread' \o rest'[w] = Document'
    <3>1. sent # 0
      BY <1>3 DEF InFlight, Counting, TypeOK, OutputTypeOK
    <3>2. <<>> \o Document = Document
      BY <3>1, DocumentType, ConcatEmptySeq
    <3> QED BY <1>1, <1>3, <1>4, <2>1, <3>2 DEF Document
  <2>5. Fed'
    BY <1>1, <1>4, <1>5, <1>7, <2>1, <2>4 DEF InFlight, Fed, Busy, Before, Early, Starting
  <2> QED BY <1>5, <1>6, <2>3, <2>5 DEF InFlight
<1> QED BY <1>8, <1>9

(* A token that is written is one the command has still to read.           *)
LEMMA WriteInFlight ==
  ASSUME TypeOK, LineByLine, InFlight, NEW w \in Writers, WriteEnd(w), UNCHANGED unacked
  PROVE  InFlight'
<1> DEFINE r == rest[w]
<1>1. /\ pc[w] = "write" /\ proc = "running" /\ inPipe' = Append(inPipe, Head(r)) /\ rest'[w] = Tail(r)
      /\ IF Tail(r) = <<>> THEN Goto(w, "idle") ELSE UNCHANGED pc
      /\ UNCHANGED <<inputTuple, sent, finalSent, tuple, got, emitted, copied, faulty,
                     buffer, outPipe, work, heard, proc, fd>>
      /\ \A x \in Writers \ {w} : rest'[x] = rest[x]
  BY DEF WriteEnd, At, EndWrite, LastWrite, TypeOK, InputTypeOK, upVars, outVars, objVars, childVars,
     histVars
<1>2. r # <<>> /\ r \in Seq(Token) /\ Head(r) \in Token /\ Tail(r) \in Seq(Token)
  <2>1. r # <<>> /\ r \in Seq(Token)
    BY <1>1 DEF TypeOK, InputTypeOK
  <2> QED BY <2>1, HeadTailProperties
<1>3. /\ pc'[w] = IF Tail(r) = <<>> THEN "idle" ELSE "write"
      /\ \A x \in Writers \ {w} : pc'[x] = pc[x]
  BY <1>1, WriterGoes DEF TypeOK, WriterLabels
<1>4. /\ unacked = 1 /\ Unanswered /\ Unanswered' /\ Unread \o r = Document
      /\ \A x \in Writers \ {w} : pc[x] \notin Busy
  BY <1>1, AnswerStays DEF InFlight, OneBusy, Fed, Busy
<1> HIDE DEF r
<1>5. Unread' \in Seq(Token) /\ Unread' \o Tail(r) = Document
  <2>1. heard \o Append(inPipe, Head(r)) = Append(heard \o inPipe, Head(r))
    <3>1. /\ inPipe \in Seq(Token) /\ heard \in Seq(Token) /\ heard \o inPipe \in Seq(Token)
          /\ <<Head(r)>> \in Seq(Token)
      BY <1>2, PartsType, ConcatProperties
    <3>2. /\ Append(inPipe, Head(r)) = inPipe \o <<Head(r)>>
          /\ Append(heard \o inPipe, Head(r)) = (heard \o inPipe) \o <<Head(r)>>
      BY <1>2, <3>1, AppendIsConcat
    <3> QED BY <3>1, <3>2, ConcatAssociative
  <2>2. Unread' = Append(Unread, Head(r)) /\ Unread \in Seq(Token)
    BY <1>1, <2>1, PartsType DEF Unread
  <2>3. Append(Unread, Head(r)) \o Tail(r) = Unread \o r
    BY <1>2, <2>2, TokenMoves
  <2> QED BY <1>2, <1>4, <2>2, <2>3, AppendProperties
<1>6. OneBusy' /\ \A x \in Writers \ {w} : pc'[x] \notin Busy
  BY <1>1, <1>3, <1>4, BusyMoves DEF InFlight, Busy
<1>7. Counting' /\ Answering'
  BY <1>1, <1>4 DEF InFlight, Counting, Answering
<1>8. Stored'
  <2>1. inputTuple = <<sent, sent>>
    BY <1>1, <1>4 DEF InFlight, Stored, Before, Early, Starting, Busy
  <2> QED BY <1>1, <1>3, <1>6, <2>1 DEF Stored, Before, Early, Starting, Busy
<1>9. CASE Tail(r) = <<>>
  <2>1. Unread' = Document'
    BY <1>1, <1>5, <1>9, ConcatEmptySeq DEF Document
  <2> QED BY <1>1, <1>3, <1>4, <1>6, <1>7, <1>8, <1>9, <2>1 DEF InFlight, Fed, Busy, Before, Early, Starting
<1>10. CASE Tail(r) # <<>>
  <2>1. ~AllQuiet' /\ Unread' \o rest'[w] = Document'
    BY <1>1, <1>3, <1>5, <1>10 DEF AllQuiet, Busy, Document
  <2> QED BY <1>1, <1>3, <1>4, <1>6, <1>7, <1>8, <1>10, <2>1
          DEF InFlight, Fed, Busy, Before, Early, Starting
<1> QED BY <1>9, <1>10

-----------------------------------------------------------------------------
(* Steps beside the document                                               *)

(* An answer remains one when the command is disturbed later,              *)
LEMMA AnswerKept ==
  ASSUME NEW k, NEW text, NEW cut, NEW cutNow, AnswerTo(k, text, cut), cut => cutNow
  PROVE  AnswerTo(k, text, cutNow)
BY DEF AnswerTo

(* and when it does not print the rest.                                    *)
LEMMA AnswerCut ==
  ASSUME NEW k, NEW text \in Seq(Token), NEW more \in Seq(Token), NEW cut, AnswerTo(k, text \o more, cut)
  PROVE  AnswerTo(k, text, TRUE)
<1>1. PICK p \in Program, left \in Seq(Token) : p.line = Payload(k) /\ p.out = (text \o more) \o left
  BY DEF AnswerTo
<1>2. p.out = text \o (more \o left) /\ more \o left \in Seq(Token)
  BY <1>1, ConcatAssociative, ConcatProperties
<1> QED BY <1>1, <1>2 DEF AnswerTo

(* Where the command stops, what has been printed remains.                 *)
LEMMA PrintedCut ==
  ASSUME TypeOK, UNCHANGED <<sent, got, buffer, outPipe>>, faulty => faulty',
         work'["out"] = work["out"] \/ (work'["out"] = <<>> /\ faulty')
  PROVE  /\ Printed = <<>> => Printed' = <<>>
         /\ AnswerTo(sent, Printed, faulty) => AnswerTo(sent', Printed', faulty')
<1> DEFINE a == buffer["out"]
           b == outPipe["out"]
           c == work["out"]
<1>1. CASE work'["out"] = c
  <2>1. Printed' = Printed /\ sent' = sent
    BY <1>1 DEF Printed
  <2> HIDE DEF a, b, c
  <2> QED BY <2>1, AnswerKept
<1>2. CASE work'["out"] = <<>> /\ faulty'
  <2>1. a \in Seq(Token) /\ b \in Seq(Token) /\ c \in Seq(Token)
    BY PartsType
  <2>2. Printed = (a \o b) \o c /\ Printed' = (a \o b) \o <<>> /\ sent' = sent
    BY <1>2 DEF Printed
  <2> HIDE DEF a, b, c
  <2>3. a \o b \in Seq(Token) /\ (a \o b) \o <<>> = a \o b
    BY <2>1, ConcatProperties, ConcatEmptySeq
  <2>4. Printed = <<>> => Printed' = <<>>
    <3>1. (a \o b) \o c = <<>> => a = <<>> /\ b = <<>>
      BY <2>1, ThreeParts
    <3>2. a = <<>> /\ b = <<>> => a \o b = <<>>
      BY <2>1, ConcatEmptySeq
    <3> QED BY <2>2, <2>3, <3>1, <3>2
  <2>5. ASSUME AnswerTo(sent, Printed, faulty) PROVE AnswerTo(sent', Printed', faulty')
    <3>1. AnswerTo(sent, (a \o b) \o c, faulty)
      BY <2>2, <2>5
    <3>2. AnswerTo(sent, a \o b, TRUE)
      BY <2>1, <2>3, <3>1, AnswerCut
    <3> QED BY <1>2, <2>2, <2>3, <3>2 DEF AnswerTo
  <2> QED BY <2>4, <2>5
<1> QED BY <1>1, <1>2

(* A step that moves nothing but, perhaps, ends the command.               *)
LEMMA Aside ==
  ASSUME TypeOK, InFlight,
         UNCHANGED <<unacked, sent, emitted, tuple, rest, inputTuple, copied, got, buffer, outPipe,
                     heard, inPipe>>,
         faulty => faulty', finalSent => finalSent',
         work'["out"] = work["out"] \/ (work'["out"] = <<>> /\ faulty'),
         \A w \in Writers : pc'[w] = pc[w] \/ (pc[w] \notin Busy /\ pc'[w] \notin Busy),
         pc'[Reader] = "submit" => pc[Reader] = "submit",
         proc' = "running" => proc = "running" /\ (finalSent' \/ fd'["in"] = fd["in"])
  PROVE  InFlight'
<1>1. /\ Printed = <<>> => Printed' = <<>>
      /\ AnswerTo(sent, Printed, faulty) => AnswerTo(sent', Printed', faulty')
  BY PrintedCut
<1>2. (Unanswered => Unanswered') /\ UNCHANGED <<Unread, Document>>
  BY <1>1 DEF Unanswered, Unread, Document
<1>3. /\ \A w \in Writers : pc'[w] \in Busy <=> pc[w] \in Busy
      /\ \A w \in Writers : pc'[w] \in Busy => pc'[w] = pc[w]
      /\ AllQuiet' <=> AllQuiet
  BY DEF AllQuiet
<1>4. Counting'
  BY DEF InFlight, Counting
<1>5. OneBusy'
  BY <1>2, <1>3 DEF InFlight, OneBusy
<1>6. Stored'
  <2>1. \A w \in Writers : /\ pc'[w] \in Before <=> pc[w] \in Before
                           /\ pc'[w] = "store" <=> pc[w] = "store"
    BY <1>3 DEF Busy, Before
  <2> QED BY <2>1 DEF InFlight, Stored
<1>7. Fed'
  <2>1. \A w \in Writers : /\ pc'[w] \in Before => pc[w] \in Before
                           /\ pc'[w] = "write" => pc[w] = "write"
                           /\ pc'[w] = "writeFail" => pc[w] = "writeFail"
    BY <1>3 DEF Busy
  <2> QED BY <1>2, <1>3, <2>1 DEF InFlight, Fed
<1>8. Answering'
  <2> SUFFICES ASSUME ~Unanswered' PROVE Answering'
    BY DEF Answering
  <2>1. ~Unanswered
    BY <1>2
  <2>2. unacked' = 1 /\ (proc' = "running" => Unread' = <<>>)
    BY <1>2, <2>1 DEF InFlight, Answering
  <2>3. got'["out"] = <<>> => AnswerTo(sent', Printed', faulty')
    BY <1>1, <2>1 DEF InFlight, Answering
  <2>4. got'["out"] # <<>> =>
          /\ Printed' = <<>>
          /\ \/ AnswerTo(sent', Append(got'["out"][1], NL), FALSE)
             \/ faulty' /\ AnswerTo(sent', got'["out"][1], TRUE)
          /\ pc'[Reader] = "submit" => copied' = sent'
    BY <1>1, <2>1 DEF InFlight, Answering
  <2> QED BY <2>2, <2>3, <2>4 DEF Answering
<1> QED BY <1>4, <1>5, <1>6, <1>7, <1>8 DEF InFlight

(* terminate() leaves the text where it is, and only cuts an answer short  *)
(* by killing the command.                                                 *)
LEMMA TerminateAside ==
  ASSUME NEW t, TerminateBegin(t) \/ TerminateReturns(t) \/ WaitFails(t)
  PROVE  /\ UNCHANGED <<buffer, outPipe, heard, inPipe, faulty>>
         /\ UNCHANGED work \/ (work'["out"] = <<>> /\ Kill(t))
         /\ proc' = "running" => proc = "running" /\ fd' = fd
<1>1. CASE Kill(t)
  BY <1>1 DEF Kill, Nothing, Streams, pipeVars
<1>2. CASE TerminateBegin(t) \/ TerminateAgain \/ Reap(t) \/ WaitForeign(t) \/ WaitFails(t)
  BY <1>2 DEF TerminateBegin, TerminateAgain, Reap, WaitForeign, WaitFails, shellVars, objVars,
     childVars, pipeVars, histVars
<1> QED BY <1>1, <1>2 DEF TerminateReturns

(* The final punctuation ends the output.                                  *)
LEMMA EndsFinal ==
  ASSUME NEW q \in Seq(Out), NEW r, r = q \o <<Punct("window"), Punct("final")>>
  PROVE  /\ Len(q) \in Nat /\ Len(r) = Len(q) + 2 /\ r # <<>> /\ r[Len(r)].port = "final"
         /\ \A i \in 1..Len(r) : (i <= Len(q) /\ r[i] = q[i]) \/ r[i].port # "out"
<1> DEFINE ending == <<Punct("window"), Punct("final")>>
<1>1. Punct("window") \in Out /\ Punct("final") \in Out
  <2>1. <<>> \in Seq(Token) /\ 0 \in 0..MaxTuples
    BY EmptySeq, BoundAssumption
  <2> QED BY <2>1 DEF Punct, Out
<1>2. ending \in Seq(Out) /\ Len(ending) = 2 /\ ending[1] = Punct("window") /\ ending[2] = Punct("final")
  BY <1>1
<1> HIDE DEF ending
<1>3. /\ Len(q) \in Nat /\ r \in Seq(Out) /\ Len(r) = Len(q) + 2
      /\ \A i \in 1..(Len(q) + 2) : r[i] = IF i <= Len(q) THEN q[i] ELSE ending[i - Len(q)]
  BY <1>2, ConcatProperties, LenProperties DEF ending
<1>4. r[Len(r)] = Punct("final")
  BY <1>2, <1>3
<1>5. r # <<>>
  BY <1>3, EmptySeq
<1>6. ASSUME NEW i \in 1..Len(r), ~(i <= Len(q)) PROVE r[i].port # "out"
  <2>1. i - Len(q) \in {1, 2} /\ r[i] = ending[i - Len(q)]
    BY <1>3, <1>6
  <2> QED BY <1>2, <2>1 DEF Punct
<1>7. \A i \in 1..Len(r) : (i <= Len(q) /\ r[i] = q[i]) \/ r[i].port # "out"
  BY <1>3, <1>6
<1> QED BY <1>3, <1>4, <1>5, <1>7 DEF Punct

(* The other steps of a writer, while no final punctuation is forwarded.   *)
LEMMA WriterInFlight ==
  ASSUME TypeOK, FinalOnce, InFlight, ~FinalForwarded', NEW w \in Writers, UNCHANGED unacked,
         \/ WriteBegin(w) \/ WriteFail(w) \/ WriterTerminate(w) \/ FinalShutdown(w) \/ AwaitDrained(w)
  PROVE  InFlight'
<1>1. CASE WriteBegin(w)
  BY <1>1, Aside DEF WriteBegin, BeginWrite, opVars, upVars, portVars, outVars, objVars, childVars,
     histVars
<1>2. CASE WriteFail(w)
  <2>1. /\ pc[w] = "write" /\ Goto(w, "writeFail") /\ FailWrite(w)
        /\ UNCHANGED <<inputTuple, sent, finalSent, tuple, got, emitted, copied, faulty, rest,
                       buffer, outPipe, work, heard, inPipe, proc, fd>>
    BY <1>2 DEF WriteFail, At, FailWrite, opVars, upVars, portVars, outVars, objVars, childVars
  <2>2. pc'[w] = "writeFail" /\ \A x \in Writers \ {w} : pc'[x] = pc[x]
    BY <2>1, WriterGoes DEF WriterLabels, TypeOK
  <2>3. ~finalSent
    BY <2>1 DEF FinalOnce, Late
  <2>4. proc # "running"
    BY <2>1, <2>3 DEF FailWrite, InFlight, Fed
  <2>5. UNCHANGED <<Unanswered, Printed, Unread>>
    BY <2>1, AnswerStays DEF Unread
  <2>6. unacked = 1 /\ inputTuple = <<sent, sent>>
    BY <2>1 DEF InFlight, OneBusy, Stored, Busy, Before, Early, Starting
  <2>7. OneBusy' /\ \A x \in Writers \ {w} : pc'[x] \notin Busy
    <3>1. Unanswered
      BY <2>1 DEF InFlight, OneBusy, Busy
    <3> QED BY <2>1, <2>2, <2>5, <3>1, BusyMoves DEF InFlight, Busy
  <2>8. Counting' /\ Fed' /\ Answering'
    <3>1. pc'[Reader] = pc[Reader]
      BY <2>1, WriterGoes DEF WriterLabels, TypeOK
    <3> QED BY <2>1, <2>4, <2>5, <3>1 DEF InFlight, Counting, Fed, Answering
  <2>9. Stored'
    BY <2>1, <2>2, <2>6, <2>7 DEF Stored, Busy, Before, Early, Starting
  <2> QED BY <2>7, <2>8, <2>9 DEF InFlight
<1>3. CASE WriterTerminate(w)
  <2>1. /\ pc[w] = "writeFail" /\ UNCHANGED <<pc, upVars, portVars, outVars>>
        /\ TerminateBegin(w) \/ TerminateReturns(w) \/ WaitFails(w)
    BY <1>3 DEF WriterTerminate, At
  <2>2. ~Kill(w)
    BY <2>1 DEF Kill, InFlight, Fed
  <2> QED BY <2>1, <2>2, TerminateAside, Aside DEF upVars, portVars, outVars
<1>4. CASE FinalShutdown(w)
  <2>1. /\ pc[w] = "shut" /\ Goto(w, "drain") /\ UNCHANGED opVars
        /\ UNCHANGED <<buffer, outPipe, work, heard, inPipe, faulty, proc>>
    BY <1>4 DEF FinalShutdown, At, ShutdownShell, childVars, pipeVars
  <2>2. finalSent
    BY <2>1 DEF FinalOnce, AtFinal
  <2>3. pc'[w] = "drain" /\ pc'[Reader] = pc[Reader] /\ \A x \in Writers \ {w} : pc'[x] = pc[x]
    BY <2>1, WriterGoes DEF WriterLabels, TypeOK
  <2>4. \A x \in Writers : pc'[x] = pc[x] \/ (pc[x] \notin Busy /\ pc'[x] \notin Busy)
    BY <2>1, <2>3 DEF Busy, Before, Early, Starting
  <2> QED BY <2>1, <2>2, <2>3, <2>4, Aside DEF opVars, upVars, portVars, outVars
<1>5. CASE AwaitDrained(w)
  <2>1. ~drained
    <3>1. ASSUME drained PROVE FinalForwarded'
      <4>1. emitted' = emitted \o <<Punct("window"), Punct("final")>>
        BY <1>5, <3>1 DEF AwaitDrained, MayForward
      <4>2. emitted \in Seq(Out)
        BY DEF TypeOK, OutputTypeOK, Out
      <4> QED BY <4>1, <4>2, EndsFinal DEF FinalForwarded
    <3> QED BY <3>1
  <2>2. /\ pc[w] = "drain" /\ Goto(w, "waiting")
        /\ UNCHANGED <<unacked, sent, emitted, tuple, rest, inputTuple, copied, got, finalSent>>
        /\ UNCHANGED shellVars
    BY <1>5, <2>1 DEF AwaitDrained, MayForward, At, upVars
  <2>3. pc'[w] = "waiting" /\ pc'[Reader] = pc[Reader] /\ \A x \in Writers \ {w} : pc'[x] = pc[x]
    BY <2>2, WriterGoes DEF WriterLabels, TypeOK
  <2>4. \A x \in Writers : pc'[x] = pc[x] \/ (pc[x] \notin Busy /\ pc'[x] \notin Busy)
    BY <2>2, <2>3 DEF Busy, Before, Early, Starting
  <2> QED BY <2>2, <2>3, <2>4, Aside DEF shellVars, objVars, childVars, pipeVars, histVars
<1> QED BY <1>1, <1>2, <1>3, <1>4, <1>5

(* Punctuation passes the Gate at any time.                                *)
LEMMA MarkerInFlight ==
  ASSUME TypeOK, InFlight, NEW w \in Writers, WindowMarker(w) \/ FinalMarker(w), Gate
  PROVE  InFlight' /\ UNCHANGED unacked
<1>1. /\ UNCHANGED <<sent, emitted, tuple, rest, inputTuple, copied, got>> /\ UNCHANGED shellVars
      /\ finalSent => finalSent'
  BY DEF WindowMarker, FinalMarker, portVars, outVars
<1>2. UNCHANGED unacked
  BY <1>1 DEF Gate, TypeOK, InputTypeOK, InFlight, Counting
<1>3. /\ pc'[Reader] = pc[Reader]
      /\ \A x \in Writers : pc'[x] = pc[x] \/ (pc[x] \notin Busy /\ pc'[x] \notin Busy)
  <2>1. CASE UNCHANGED pc
    BY <2>1
  <2>2. CASE FinalMarker(w)
    <3>1. pc[w] = "idle" /\ Goto(w, "shut")
      BY <2>2 DEF FinalMarker, Callable, At
    <3>2. pc'[w] = "shut" /\ pc'[Reader] = pc[Reader] /\ \A x \in Writers \ {w} : pc'[x] = pc[x]
      BY <3>1, WriterGoes DEF WriterLabels, TypeOK
    <3> QED BY <3>1, <3>2 DEF Busy, Before, Early, Starting
  <2> QED BY <2>1, <2>2 DEF WindowMarker
<1> QED BY <1>1, <1>2, <1>3, Aside DEF shellVars, objVars, childVars, pipeVars, histVars

-----------------------------------------------------------------------------
(* Steps of the reader                                                     *)

(* It moves no writer that has a document.                                 *)
LEMMA ReaderBeside ==
  ASSUME TypeOK, ReaderStep
  PROVE  \A w \in Writers : pc'[w] = pc[w] \/ (pc[w] \notin Busy /\ pc'[w] \notin Busy)
<1>1. CASE Drain
  BY <1>1, ThreadsDiffer DEF Drain, Signal, TypeOK, ThreadTypeOK, Busy, Before, Early, Starting
<1>2. CASE ~Drain
  BY <1>2, ReaderPlace
<1> QED BY <1>1, <1>2

(* What it does between two lines, and at the end.                         *)
LEMMA LoopInFlight ==
  ASSUME TypeOK, InFlight, Steady, Acknowledge, ReaderStep,
         \/ Spin \/ TestShutdown \/ ReadMore \/ Select \/ ReaderTerminate \/ Caught \/ Drain
         \/ ReaderFinish
  PROVE  InFlight'
<1>1. /\ UNCHANGED <<upVars, portVars>> /\ UNCHANGED <<emitted, got, copied>>
      /\ pc'[Reader] = "submit" => pc[Reader] = "submit"
  <2>1. UNCHANGED <<upVars, portVars>> /\ UNCHANGED <<emitted, got, copied>>
    BY DEF Spin, TestShutdown, ReadMore, Select, ReaderTerminate, Caught, Drain, ReaderFinish,
       opVars, outVars
  <2>2. \/ UNCHANGED pc \/ Signal
        \/ \E label \in ReaderLabels \ {"submit"} : Goto(Reader, label)
    BY DEF Spin, TestShutdown, ReadMore, Select, ReaderTerminate, ReadVerdict, Caught, Drain,
       ReaderFinish, LastTerminate, ReaderLabels
  <2>3. Signal => pc'[Reader] = "finish"
    BY DEF Signal
  <2> QED BY <2>1, <2>2, <2>3, ReaderGoes DEF TypeOK
<1>2. UNCHANGED <<unacked, sent, tuple, rest, inputTuple, finalSent>>
  BY <1>1 DEF Acknowledge, upVars, portVars
<1>3. CASE UNCHANGED shellVars
  BY <1>1, <1>2, <1>3, ReaderBeside, Aside DEF shellVars, objVars, childVars, pipeVars, histVars
<1>4. CASE ReaderTerminate \/ ReaderFinish
  <2>1. /\ TerminateBegin(Reader) \/ TerminateReturns(Reader) \/ WaitFails(Reader)
        /\ pc[Reader] \in {"fail", "finish"}
    BY <1>4 DEF ReaderTerminate, ReaderFinish, LastTerminate, At
  <2>2. Kill(Reader) => faulty
    BY <2>1 DEF Kill, Steady, Looping
  <2>3. /\ UNCHANGED <<buffer, outPipe, heard, inPipe, faulty>>
        /\ UNCHANGED work \/ (work'["out"] = <<>> /\ Kill(Reader))
        /\ proc' = "running" => proc = "running" /\ fd' = fd
    BY <2>1, TerminateAside
  <2>4. work'["out"] = work["out"] \/ (work'["out"] = <<>> /\ faulty')
    BY <2>2, <2>3 DEF TypeOK, ShellTypeOK
  <2> QED BY <1>1, <1>2, <2>3, <2>4, ReaderBeside, Aside
<1> QED BY <1>3, <1>4 DEF Spin, TestShutdown, ReadMore, Select, Caught, Drain

(* A chunk that is read moves from the pipe to the buffer.                 *)
LEMMA ReadPrinted ==
  ASSUME TypeOK, Streaming, NEW s \in Streams, ReadFromPipe(s)
  PROVE  UNCHANGED Printed
<1> DEFINE a == buffer["out"]
           b == outPipe["out"]
           count == IF Len(b) < ChunkSize THEN Len(b) ELSE ChunkSize
           chunk == SubSeq(b, 1, count)
<1>1. UNCHANGED work
  BY DEF ReadFromPipe, childVars
<1>2. CASE s # "out" \/ closed[s]
  <2>1. buffer'["out"] = a /\ outPipe'["out"] = b
    BY <1>2 DEF ReadFromPipe, TypeOK, ShellTypeOK, Streams
  <2> QED BY <1>1, <2>1 DEF Printed
<1>3. CASE s = "out" /\ ~closed[s]
  <2>1. a \in Seq(Token) /\ b \in Seq(Token) /\ Len(b) \in Nat
    BY PartsType, LenProperties
  <2>2. count \in 0..Len(b)
    BY <2>1, SizeAssumption
  <2>3. Plain(b)
    BY <1>3 DEF Streaming
  <2>4. CString(chunk) = chunk
    <3>1. /\ chunk \in Seq(Token) /\ Len(chunk) = count /\ \A i \in 1..count : chunk[i] = b[i]
      <4>1. \A i \in 1..count : b[i] \in Token
        BY <2>1, <2>2, ElementOfSeq
      <4> HIDE DEF count
      <4>2. /\ chunk \in Seq(Token) /\ Len(chunk) = IF 1 <= count THEN (count - 1) + 1 ELSE 0
            /\ \A i \in 1..((count - 1) + 1) : chunk[i] = b[(1 + i) - 1]
        BY <2>2, <4>1, SubSeqProperties
      <4> HIDE DEF chunk
      <4> QED BY <2>1, <2>2, <4>2
    <3> HIDE DEF count, chunk
    <3>2. DOMAIN chunk = 1..count
      BY <3>1, LenProperties
    <3>3. \A i \in DOMAIN chunk : chunk[i] # NUL
      BY <2>1, <2>2, <2>3, <3>1, <3>2 DEF Plain
    <3>4. FirstOf(NUL, chunk) = 0
      BY <3>3 DEF FirstOf
    <3> QED BY <3>4 DEF CString
  <2>5. buffer'["out"] = a \o chunk /\ outPipe'["out"] = SubSeq(b, count + 1, Len(b))
    <3>1. buffer'["out"] = a \o CString(chunk) /\ outPipe'["out"] = SubSeq(b, count + 1, Len(b))
      BY <1>3 DEF ReadFromPipe, TypeOK, ShellTypeOK, Streams
    <3> QED BY <2>4, <3>1
  <2> HIDE DEF a, b, count
  <2>6. (a \o chunk) \o SubSeq(b, count + 1, Len(b)) = a \o b
    BY <2>1, <2>2, ChunkMoves
  <2> QED BY <1>1, <2>5, <2>6 DEF Printed, a, b, count
<1> QED BY <1>2, <1>3

(* So it does in readLine(), for either stream.                            *)
LEMMA ReadInFlight ==
  ASSUME TypeOK, Streaming, InFlight, Acknowledge, ReadOut \/ ReadErr
  PROVE  InFlight'
<1>1. /\ UNCHANGED opVars
      /\ \E s \in Streams, label \in {"readErr", "read", "fail"} :
           Goto(Reader, label) /\ (ReadFromPipe(s) \/ UNCHANGED shellVars)
  BY DEF ReadOut, ReadErr, ReadStream, Streams
<1>2. /\ UNCHANGED <<upVars, portVars, emitted, got, copied>>
      /\ UNCHANGED <<unacked, sent, tuple, rest, inputTuple, finalSent>>
  BY <1>1 DEF Acknowledge, opVars, upVars, portVars, outVars
<1>3. /\ pc'[Reader] # "submit" /\ \A w \in Writers : pc'[w] = pc[w]
  BY <1>1, ReaderGoes DEF TypeOK, ReaderLabels
<1>4. UNCHANGED <<heard, inPipe, proc, fd, faulty, work>> /\ UNCHANGED Printed
  <2>1. CASE UNCHANGED shellVars
    BY <2>1 DEF shellVars, objVars, childVars, pipeVars, histVars, Printed
  <2>2. ASSUME NEW s \in Streams, ReadFromPipe(s)
        PROVE  UNCHANGED <<heard, inPipe, proc, fd, faulty, work>> /\ UNCHANGED Printed
    BY <2>2, ReadPrinted DEF ReadFromPipe, childVars, histVars
  <2> QED BY <1>1, <2>1, <2>2
<1>5. UNCHANGED <<Unanswered, Unread, Document>> /\ UNCHANGED AllQuiet
  BY <1>2, <1>3, <1>4 DEF Unanswered, Unread, Document, AllQuiet
<1>6. Counting' /\ OneBusy' /\ Stored'
  BY <1>2, <1>3, <1>5 DEF InFlight, Counting, OneBusy, Stored
<1>7. Fed'
  BY <1>2, <1>3, <1>4, <1>5 DEF InFlight, Fed
<1>8. Answering'
  BY <1>2, <1>3, <1>4, <1>5 DEF InFlight, Answering
<1> QED BY <1>6, <1>7, <1>8 DEF InFlight

(* The line that readLine() finds is the whole answer, unless the command  *)
(* was cut short.                                                          *)
LEMMA LineAnswers ==
  ASSUME TypeOK, LineByLine, Streaming, HasLine("out"), AnswerTo(sent, Printed, faulty)
  PROVE  /\ AfterLine("out") = <<>> /\ outPipe["out"] = <<>> /\ work["out"] = <<>>
         /\ \/ AnswerTo(sent, Append(NextLine("out"), NL), FALSE)
            \/ faulty /\ AnswerTo(sent, NextLine("out"), TRUE)
<1> DEFINE b == buffer["out"]
           p == outPipe["out"]
           c == work["out"]
           f == FirstOf(NL, b)
<1>1. b \in Seq(Token) /\ p \in Seq(Token) /\ c \in Seq(Token) /\ Len(b) \in Nat
  BY PartsType, LenProperties
<1>2. PICK prog \in Program, left \in Seq(Token) :
        prog.line = Payload(sent) /\ prog.out = Printed \o left /\ (~faulty => left = <<>>)
  BY DEF AnswerTo
<1>3. PICK line \in Seq(Text) : prog.out = Append(line, NL)
  BY DEF LineByLine
<1>4. line \in Seq(Text \cup {NUL})
  BY <1>3, SeqMonotonic
<1>5. prog.out = ((b \o p) \o c) \o left
  BY <1>2 DEF Printed
<1>6. f # 0 => f \in 1..Len(b) /\ b[f] = NL
  <2>1. f # 0 => \E i \in 1..Len(b) : b[i] = NL
    BY <1>1, FirstOfNone
  <2> QED BY <1>1, <2>1, FirstOfFinds
<1>7. f = 0 => \A i \in 1..Len(b) : b[i] # NL
  <2>1. 0 \notin 1..Len(b)
    BY <1>1
  <2> QED BY <1>1, <2>1, FirstOfFinds
<1>8. /\ f # 0 => NextLine("out") = SubSeq(b, 1, f - 1) /\ AfterLine("out") = SubSeq(b, f + 1, Len(b))
      /\ f = 0 => NextLine("out") = b /\ AfterLine("out") = <<>> /\ closed["out"]
  BY DEF NextLine, AfterLine, HasLine
<1>9. closed["out"] => p = <<>> /\ c = <<>>
  BY DEF Streaming, Streams
<1>10. \A q \in Seq(Token) : q \o <<>> = q
  BY ConcatEmptySeq
<1> HIDE DEF b, p, c, f
<1>11. CASE f # 0
  <2> DEFINE more == p \o (c \o left)
  <2>1. c \o left \in Seq(Token) /\ more \in Seq(Token) /\ b \o p \in Seq(Token)
    BY <1>1, ConcatProperties
  <2>2. prog.out = b \o more
    <3>1. ((b \o p) \o c) \o left = b \o (p \o (c \o left))
      <4> DEFINE Left(w, x, y, z)  == ((w \o x) \o y) \o z
                 Right(w, x, y, z) == w \o (x \o (y \o z))
      <4>1. \A w, x, y, z : w \in Seq(Token) /\ x \in Seq(Token) /\ y \in Seq(Token) /\ z \in Seq(Token)
                           => Left(w, x, y, z) = Right(w, x, y, z)
        BY FourParts
      <4>2. b \in Seq(Token) /\ p \in Seq(Token) /\ c \in Seq(Token) /\ left \in Seq(Token)
        BY <1>1
      <4> HIDE DEF Left, Right
      <4>3. Left(b, p, c, left) = Right(b, p, c, left)
        BY <4>1, <4>2
      <4> QED BY <4>3 DEF Left, Right
    <3> QED BY <1>5, <3>1
  <2> HIDE DEF more
  <2>3. f = Len(b) /\ more = <<>> /\ b = Append(line, NL)
    BY <1>3, <1>4, <1>1, <1>6, <1>11, <2>1, <2>2, EndsThere
  <2>4. p = <<>> /\ c = <<>>
    <3>1. (p \o c) \o left = more
      BY <1>1, ConcatAssociative DEF more
    <3> QED BY <1>1, <2>3, <3>1, ThreeParts
  <2>5. Len(b) # 0 /\ b[Len(b)] = NL
    BY <1>1, <1>6, <1>11, <2>3
  <2>6. b = Append(NextLine("out"), NL) /\ AfterLine("out") = <<>>
    BY <1>1, <1>8, <1>11, <2>3, <2>5, LastSplits
  <2>7. <<>> \in Seq(Token) /\ prog.out = b \o <<>>
    BY <1>1, <1>3, <1>10, <2>3, EmptySeq
  <2>8. AnswerTo(sent, Append(NextLine("out"), NL), FALSE)
    BY <1>2, <2>6, <2>7 DEF AnswerTo
  <2> QED BY <2>4, <2>6, <2>8 DEF p, c
<1>12. CASE f = 0
  <2>1. p = <<>> /\ c = <<>> /\ b \o p = b /\ (b \o p) \o c = b
    BY <1>1, <1>8, <1>9, <1>10, <1>12
  <2>2. faulty
    <3> SUFFICES ASSUME ~faulty PROVE FALSE
      OBVIOUS
    <3>1. b = Append(line, NL)
      BY <1>1, <1>2, <1>3, <1>5, <1>10, <2>1
    <3>2. /\ Len(line) \in Nat /\ Len(Append(line, NL)) = Len(line) + 1
          /\ Append(line, NL)[Len(line) + 1] = NL
      <4>1. line \in Seq(Token) /\ NL \in Token
        BY <1>3, SeqMonotonic DEF Token
      <4> QED BY <4>1, AppendProperties, LenProperties
    <3>3. Len(b) \in 1..Len(b) /\ b[Len(b)] = NL
      BY <3>1, <3>2
    <3> QED BY <1>7, <1>12, <3>3
  <2>3. prog.out = b \o left
    BY <1>5, <2>1
  <2>4. AnswerTo(sent, NextLine("out"), TRUE)
    BY <1>2, <1>8, <1>12, <2>3 DEF AnswerTo
  <2> QED BY <1>8, <1>12, <2>1, <2>2, <2>4 DEF p, c
<1> QED BY <1>11, <1>12

(* What the reader does with a line leaves the documents alone.            *)
LEMMA ReaderKeeps ==
  ASSUME InFlight, UNCHANGED <<unacked, sent, emitted, tuple, rest, inputTuple, finalSent,
                               heard, inPipe, proc, fd>>,
         \A w \in Writers : pc'[w] = pc[w], Unanswered => Unanswered'
  PROVE  Counting' /\ OneBusy' /\ Stored' /\ Fed'
<1>1. UNCHANGED <<Unread, Document>> /\ (AllQuiet' <=> AllQuiet)
  BY DEF Unread, Document, AllQuiet
<1> QED BY <1>1 DEF InFlight, Counting, OneBusy, Stored, Fed

(* readLine() returns the answer.                                          *)
LEMMA ReadBufferedInFlight ==
  ASSUME TypeOK, LineByLine, Relay, InFlight, ReadBuffered, Acknowledge
  PROVE  InFlight'
<1>1. /\ pc[Reader] = "read" /\ Goto(Reader, "copy")
      /\ got' = [s \in Streams |-> IF HasLine(s) THEN <<NextLine(s)>> ELSE <<>>]
      /\ buffer' = [s \in Streams |-> IF HasLine(s) THEN AfterLine(s) ELSE buffer[s]]
      /\ UNCHANGED <<emitted, copied, sent, finalSent, tuple, rest, inputTuple,
                     faulty, heard, inPipe, proc, fd, outPipe, work>>
  BY DEF ReadBuffered, TakeLines, At, upVars, portVars, childVars, pipeVars, histVars
<1>2. UNCHANGED unacked
  BY <1>1 DEF Acknowledge
<1>3. /\ pc'[Reader] = "copy" /\ \A w \in Writers : pc'[w] = pc[w]
  BY <1>1, ReaderGoes DEF TypeOK, ReaderLabels
<1>4. got["out"] = <<>>
  BY <1>1 DEF Relay, Delivering, Nothing, Streams
<1>5. UNCHANGED Unread
  BY <1>1 DEF Unread
<1>6. CASE ~HasLine("out")
  <2>1. got'["out"] = <<>> /\ UNCHANGED Printed
    BY <1>1, <1>6 DEF Streams, Printed
  <2>2. Unanswered' <=> Unanswered
    BY <1>4, <2>1 DEF Unanswered
  <2>3. Answering'
    BY <1>1, <1>2, <1>4, <1>5, <2>1, <2>2 DEF InFlight, Answering
  <2> QED BY <1>1, <1>2, <1>3, <2>2, <2>3, ReaderKeeps DEF InFlight
<1>7. CASE HasLine("out")
  <2>1. ~Unanswered
    <3>1. buffer["out"] # <<>>
      <4>1. ASSUME buffer["out"] = <<>> PROVE FirstOf(NL, buffer["out"]) = 0
        BY <4>1 DEF FirstOf
      <4> QED BY <1>7, <4>1 DEF HasLine
    <3> QED BY <3>1, PartsType, ThreeParts DEF Unanswered, Printed
  <2>2. unacked = 1 /\ (proc = "running" => Unread = <<>>) /\ AnswerTo(sent, Printed, faulty)
    BY <1>4, <2>1 DEF InFlight, Answering
  <2>3. /\ AfterLine("out") = <<>> /\ outPipe["out"] = <<>> /\ work["out"] = <<>>
        /\ \/ AnswerTo(sent, Append(NextLine("out"), NL), FALSE)
           \/ faulty /\ AnswerTo(sent, NextLine("out"), TRUE)
    BY <1>7, <2>2, LineAnswers DEF Relay
  <2>4. Printed' = <<>>
    <3>1. buffer'["out"] = <<>> /\ outPipe'["out"] = <<>> /\ work'["out"] = <<>>
      BY <1>1, <1>7, <2>3 DEF Streams
    <3> QED BY <3>1, EmptySeq, ConcatEmptySeq DEF Printed
  <2>5. got'["out"] = <<NextLine("out")>>
    BY <1>1, <1>7 DEF Streams
  <2>6. got'["out"] # <<>> /\ got'["out"][1] = NextLine("out")
    BY <2>5
  <2>7. Answering'
    BY <1>1, <1>2, <1>3, <1>5, <2>2, <2>3, <2>4, <2>6 DEF Answering
  <2> QED BY <1>1, <1>2, <1>3, <2>1, <2>7, ReaderKeeps DEF InFlight
<1> QED BY <1>6, <1>7

(* The attributes that the reader copies are those of the document.        *)
LEMMA CopyInFlight ==
  ASSUME TypeOK, InFlight, CopyAttributes, Acknowledge
  PROVE  InFlight'
<1>1. /\ Goto(Reader, "submit") /\ copied' = inputTuple[1]
      /\ UNCHANGED <<emitted, got, sent, finalSent, tuple, rest, inputTuple>> /\ UNCHANGED shellVars
  BY DEF CopyAttributes, upVars, portVars
<1>2. UNCHANGED unacked
  BY <1>1 DEF Acknowledge
<1>3. \A w \in Writers : pc'[w] = pc[w]
  BY <1>1, ReaderGoes DEF TypeOK, ReaderLabels
<1>4. UNCHANGED <<faulty, heard, inPipe, proc, fd, buffer, outPipe, work>>
  BY <1>1 DEF shellVars, objVars, childVars, pipeVars, histVars
<1>5. UNCHANGED <<Unanswered, Printed, Unread>>
  BY <1>1, <1>4 DEF Unanswered, Printed, Unread
<1>6. ~Unanswered => copied' = sent
  <2>1. ~Unanswered => unacked = 1 /\ \A w \in Writers : pc[w] \notin Before
    BY DEF InFlight, Answering, OneBusy, Busy
  <2>2. ~Unanswered => inputTuple = <<sent, sent>>
    BY <2>1 DEF InFlight, Stored
  <2> QED BY <1>1, <2>2
<1>7. Answering'
  BY <1>1, <1>2, <1>4, <1>5, <1>6 DEF InFlight, Answering
<1> QED BY <1>1, <1>2, <1>3, <1>4, <1>5, <1>7, ReaderKeeps DEF InFlight

(* What ResultsBelong says of a tuple.                                     *)
Belongs(k, result) ==
  result.port = "out" => result.from = <<k, k>> /\ Answers(Payload(k), result.line)

(* A step that submits nothing takes nothing from what was submitted.      *)
LEMMA ResultsStay ==
  ASSUME ResultsBelong, UNCHANGED emitted, faulty => faulty', shutdownRequested => shutdownRequested'
  PROVE  ResultsBelong'
BY DEF ResultsBelong, Answers

(* An answer that readLine() has returned is what the command said.        *)
LEMMA AnswerAnswers ==
  ASSUME NEW k, NEW line \in Seq(Token),
         AnswerTo(k, Append(line, NL), FALSE) \/ (faulty /\ AnswerTo(k, line, TRUE))
  PROVE  Answers(Payload(k), line)
<1>1. CASE AnswerTo(k, Append(line, NL), FALSE)
  <2>1. PICK p \in Program, left \in Seq(Token) :
          p.line = Payload(k) /\ p.out = Append(line, NL) \o left /\ left = <<>>
    BY <1>1 DEF AnswerTo
  <2>2. NL \in Token /\ <<NL>> \in Seq(Token)
    BY DEF Token
  <2>3. Append(line, NL) \in Seq(Token) /\ Append(line, NL) = line \o <<NL>>
    BY <2>2, AppendProperties, AppendIsConcat
  <2>4. p.out = Append(line, NL)
    BY <2>1, <2>3, ConcatEmptySeq
  <2>5. IsPrefixOf(line, p.out)
    BY <2>2, <2>3, <2>4, FirstPart
  <2> QED BY <2>1, <2>4, <2>5 DEF Answers
<1>2. CASE faulty /\ AnswerTo(k, line, TRUE)
  <2>1. PICK p \in Program, left \in Seq(Token) : p.line = Payload(k) /\ p.out = line \o left
    BY <1>2 DEF AnswerTo
  <2>2. IsPrefixOf(line, p.out)
    BY <2>1, FirstPart
  <2> QED BY <1>2, <2>1, <2>2 DEF Answers
<1> QED BY <1>1, <1>2

(* The Custom operator acknowledges the result, and all is as it was       *)
(* before the document.                                                    *)
LEMMA ResultInFlight ==
  ASSUME TypeOK, InFlight, ResultsBelong, Submit, Acknowledge, Port = "out"
  PROVE  InFlight' /\ ResultsBelong'
<1> DEFINE line == got["out"][1]
           result == [port |-> "out", line |-> line, from |-> <<copied, inputTuple[2]>>]
<1>1. /\ pc[Reader] = "submit" /\ emitted' = Append(emitted, result)
      /\ \E label \in {"copy", "test"} : Goto(Reader, label)
      /\ got' = [got EXCEPT !["out"] = <<>>]
      /\ UNCHANGED <<sent, finalSent, tuple, rest, inputTuple, shutdownRequested>>
      /\ UNCHANGED shellVars
  BY DEF Submit, At, runVars, upVars, portVars
<1>2. got["out"] # <<>> /\ line \in Seq(Token) /\ got'["out"] = <<>>
  <2>1. got["out"] # <<>> /\ got["out"] \in Seq(Seq(Token))
    BY DEF Port, TypeOK, OutputTypeOK, Streams
  <2>2. 1 \in 1..Len(got["out"])
    BY <2>1, EmptySeq
  <2>3. got'["out"] = <<>>
    BY <1>1 DEF TypeOK, OutputTypeOK, Streams
  <2> QED BY <2>1, <2>2, <2>3, ElementOfSeq
<1>3. /\ unacked = 1 /\ (proc = "running" => Unread = <<>>) /\ Printed = <<>> /\ copied = sent
      /\ AnswerTo(sent, Append(line, NL), FALSE) \/ (faulty /\ AnswerTo(sent, line, TRUE))
  <2>1. ~Unanswered
    BY <1>2 DEF Unanswered
  <2> QED BY <1>1, <1>2, <2>1 DEF InFlight, Answering
<1>4. \A w \in Writers : pc[w] \notin Busy /\ pc'[w] = pc[w]
  <2>1. ~Unanswered
    BY <1>2 DEF Unanswered
  <2>2. \A w \in Writers : pc[w] \notin Busy
    BY <2>1 DEF InFlight, OneBusy
  <2> QED BY <1>1, <2>2, ReaderGoes DEF TypeOK, ReaderLabels
<1>5. inputTuple = <<sent, sent>>
  BY <1>3, <1>4 DEF InFlight, Stored, Busy
<1>6. result \in Out /\ emitted \in Seq(Out)
  <2>1. copied \in 0..MaxTuples /\ inputTuple[2] \in 0..MaxTuples
    BY DEF TypeOK, InputTypeOK, OutputTypeOK
  <2> HIDE DEF line
  <2> QED BY <1>2, <2>1 DEF TypeOK, OutputTypeOK, Out
<1>7. result.port = "out" /\ result.line = line /\ result.from = <<sent, sent>>
  <2> HIDE DEF line
  <2> QED BY <1>3, <1>5
<1> HIDE DEF result, line
<1>8. /\ Len(emitted) \in Nat /\ emitted' \in Seq(Out) /\ Len(emitted') = Len(emitted) + 1
      /\ \A k \in 1..Len(emitted) : emitted'[k] = emitted[k]
      /\ emitted'[Len(emitted) + 1] = result
  BY <1>1, <1>6, AppendProperties, LenProperties
<1>9. sent = Len(emitted') /\ emitted' # emitted /\ unacked' = 0
  BY <1>3, <1>8 DEF InFlight, Counting, Acknowledge
<1>10. Counting'
  <2>1. \A k \in 1..Len(emitted') : emitted'[k].port = "out"
    BY <1>7, <1>8 DEF InFlight, Counting
  <2> QED BY <1>1, <1>8, <1>9, <2>1 DEF Counting
<1>11. UNCHANGED <<buffer, outPipe, work, heard, inPipe, proc, fd, faulty>>
  BY <1>1 DEF shellVars, objVars, childVars, pipeVars, histVars
<1>12. Unanswered' /\ UNCHANGED Unread
  BY <1>2, <1>3, <1>11 DEF Unanswered, Printed, Unread
<1>13. OneBusy' /\ Stored' /\ Fed' /\ Answering'
  <2>1. OneBusy' /\ Stored' /\ Answering'
    BY <1>4, <1>9, <1>12 DEF OneBusy, Stored, Answering, Busy, Before
  <2>2. Fed'
    BY <1>1, <1>3, <1>4, <1>11, <1>12 DEF InFlight, Fed, Busy
  <2> QED BY <2>1, <2>2
<1>14. ResultsBelong'
  <2>1. DOMAIN emitted' = 1..Len(emitted') /\ DOMAIN emitted = 1..Len(emitted)
    BY <1>6, <1>8, LenProperties
  <2>2. ASSUME ~shutdownRequested, NEW k \in 1..Len(emitted) PROVE Belongs(k, emitted'[k])
    BY <1>8, <2>1, <2>2 DEF ResultsBelong, Belongs
  <2>3. Belongs(sent, result)
    <3>1. Answers(Payload(sent), line)
      BY <1>2, <1>3, AnswerAnswers
    <3> QED BY <1>7, <3>1 DEF Belongs
  <2>4. ASSUME ~shutdownRequested, NEW k \in DOMAIN emitted' PROVE Belongs(k, emitted'[k])
    <3>1. k = sent \/ k \in 1..Len(emitted)
      BY <1>8, <1>9, <2>1
    <3> QED BY <1>8, <1>9, <2>2, <2>3, <2>4, <3>1
  <2> SUFFICES ASSUME ~shutdownRequested', NEW k \in DOMAIN emitted', emitted'[k].port = "out"
               PROVE  /\ emitted'[k].from = <<k, k>>
                      /\ \E p \in Program :
                           /\ p.line = Payload(k) /\ IsPrefixOf(emitted'[k].line, p.out)
                           /\ ~faulty' => p.out = Append(emitted'[k].line, NL)
    BY DEF ResultsBelong, Answers
  <2>5. emitted'[k].from = <<k, k>> /\ Answers(Payload(k), emitted'[k].line)
    BY <1>1, <2>4 DEF Belongs
  <2>6. PICK p \in Program : /\ p.line = Payload(k) /\ IsPrefixOf(emitted'[k].line, p.out)
                             /\ ~faulty => p.out = Append(emitted'[k].line, NL)
    BY <2>5 DEF Answers
  <2>7. ~faulty' => ~faulty
    BY <1>11
  <2>8. ~faulty' => p.out = Append(emitted'[k].line, NL)
    BY <2>6, <2>7, Zenon
  <2> QED BY <2>5, <2>6, <2>8, Zenon
<1> QED BY <1>10, <1>13, <1>14 DEF InFlight

(* With one output port, a line of stderr is dropped.                      *)
LEMMA SubmitInFlight ==
  ASSUME ~HasErrPort, TypeOK, InFlight, ResultsBelong, Submit, Acknowledge
  PROVE  InFlight' /\ ResultsBelong'
<1>1. CASE Port = "out"
  BY <1>1, ResultInFlight
<1>2. CASE Port # "out"
  <2>1. /\ got["out"] = <<>> /\ Goto(Reader, "test") /\ UNCHANGED emitted
        /\ got' = [got EXCEPT !["err"] = <<>>]
        /\ UNCHANGED <<sent, finalSent, tuple, rest, inputTuple, shutdownRequested>>
        /\ UNCHANGED shellVars
    BY <1>2 DEF Submit, Port, runVars, upVars, portVars
  <2>2. unacked' = unacked /\ got'["out"] = got["out"]
    BY <2>1 DEF Acknowledge, TypeOK, OutputTypeOK, Streams
  <2>3. pc'[Reader] = "test" /\ \A w \in Writers : pc'[w] = pc[w]
    BY <2>1, ReaderGoes DEF TypeOK, ReaderLabels
  <2>4. UNCHANGED <<buffer, outPipe, work, heard, inPipe, proc, fd, faulty>>
    BY <2>1 DEF shellVars, objVars, childVars, pipeVars, histVars
  <2>5. UNCHANGED <<Unanswered, Printed, Unread>>
    BY <2>2, <2>4 DEF Unanswered, Printed, Unread
  <2>6. Answering'
    BY <2>1, <2>2, <2>4, <2>5 DEF InFlight, Answering
  <2>7. InFlight'
    BY <2>1, <2>2, <2>3, <2>4, <2>5, <2>6, ReaderKeeps DEF InFlight
  <2> QED BY <2>1, <2>4, <2>7, ResultsStay
<1> QED BY <1>1, <1>2

-----------------------------------------------------------------------------
(* Steps of the command                                                    *)

(* A token of the document or of the answer moves on.                      *)
LEMMA TokenAside ==
  ASSUME InFlight, UNCHANGED <<unacked, sent, emitted, tuple, rest, inputTuple, finalSent, copied, got,
                               pc, proc, fd, faulty>>,
         UNCHANGED <<Unread, Printed>>
  PROVE  InFlight'
<1>1. UNCHANGED <<Unanswered, Document, AllQuiet>>
  BY DEF Unanswered, Document, AllQuiet
<1>2. Counting' /\ OneBusy' /\ Stored' /\ Fed'
  BY <1>1 DEF InFlight, Counting, OneBusy, Stored, Fed
<1>3. Answering'
  BY <1>1 DEF InFlight, Answering
<1> QED BY <1>2, <1>3 DEF InFlight

(* What the command has read of the document up to its newline is all of   *)
(* it, and nothing follows.                                                *)
LEMMA DocumentRead ==
  ASSUME TypeOK, LineByLine, InFlight, proc = "running", inPipe # <<>>, Head(inPipe) = NL
  PROVE  /\ AllQuiet /\ unacked = 1 /\ Unanswered
         /\ heard = Payload(sent) /\ Tail(inPipe) = <<>>
<1> DEFINE t == Tail(inPipe)
           text == Append(heard, NL)
<1>1. /\ inPipe \in Seq(Token) /\ heard \in Seq(Token) /\ t \in Seq(Token)
      /\ NL \in Token /\ Len(heard) \in Nat
  BY PartsType, HeadTailProperties, LenProperties DEF Token
<1>2. text \in Seq(Token) /\ Len(text) = Len(heard) + 1 /\ text[Len(heard) + 1] = NL
  BY <1>1, AppendProperties
<1>3. Unread = text \o t
  <2>1. Append(heard, Head(inPipe)) \o Tail(inPipe) = heard \o inPipe
    BY <1>1, TokenMoves
  <2> QED BY <2>1 DEF Unread
<1>4. Unread # <<>>
  <2>1. heard \o inPipe = <<>> => inPipe = <<>>
    <3>1. (heard \o inPipe) \o <<>> = heard \o inPipe /\ <<>> \in Seq(Token)
      BY <1>1, ConcatProperties, ConcatEmptySeq, EmptySeq
    <3>2. heard \o inPipe = <<>> => (heard \o inPipe) \o <<>> = <<>>
      BY <3>1
    <3> QED BY <1>1, <3>1, <3>2, ThreeParts
  <2> QED BY <2>1 DEF Unread
<1> HIDE DEF t, text
<1>5. ASSUME NEW left \in Seq(Token), text \o left = Document, sent # 0
      PROVE  left = <<>> /\ heard = Payload(sent)
  <2>1. /\ Payload(sent) \in Seq(Text \cup {NUL}) /\ Payload(sent) \in Seq(Token)
        /\ Append(Payload(sent), NL) = text \o left
    BY <1>5, DocumentType DEF Document
  <2>2. Len(heard) + 1 \in 1..Len(text)
    BY <1>1, <1>2
  <2>3. left = <<>> /\ text = Append(Payload(sent), NL)
    BY <1>2, <1>5, <2>1, <2>2, EndsThere
  <2> QED BY <1>1, <2>1, <2>3, BeforeNewline DEF text
<1>6. unacked = 1 => sent # 0
  BY DEF InFlight, Counting, TypeOK, OutputTypeOK
<1>7. ASSUME NEW w \in Writers, pc[w] \in Busy PROVE FALSE
  <2>1. pc[w] = "write" /\ unacked = 1
    BY <1>4, <1>7 DEF InFlight, OneBusy, Fed, Busy
  <2>2. /\ Unread \o rest[w] = Document /\ rest[w] # <<>> /\ rest[w] \in Seq(Token)
    BY <2>1 DEF InFlight, Fed, TypeOK, InputTypeOK
  <2>3. t \o rest[w] \in Seq(Token) /\ text \o (t \o rest[w]) = Document
    <3> DEFINE r == rest[w]
    <3>1. r \in Seq(Token) /\ r = rest[w]
      BY <2>2
    <3> HIDE DEF r
    <3>2. t \o r \in Seq(Token)
      BY <1>1, <3>1, ConcatProperties
    <3>3. (text \o t) \o r = text \o (t \o r)
      <4>1. text \in Seq(Token) /\ t \in Seq(Token) /\ r \in Seq(Token)
        BY <1>1, <1>2, <3>1
      <4> QED BY <4>1, ThreeParts
    <3> QED BY <1>3, <2>2, <3>1, <3>2, <3>3
  <2>4. t \o rest[w] = <<>>
    BY <1>5, <1>6, <2>1, <2>3
  <2>5. rest[w] = <<>>
    <3>1. (t \o rest[w]) \o <<>> = t \o rest[w] /\ <<>> \in Seq(Token)
      BY <2>3, ConcatEmptySeq, EmptySeq
    <3>2. (t \o rest[w]) \o <<>> = <<>>
      BY <2>4, <3>1
    <3> QED BY <1>1, <2>2, <3>1, <3>2, ThreeParts
  <2> QED BY <2>2, <2>5
<1>8. AllQuiet /\ unacked = 1 /\ Unanswered /\ Unread = Document
  BY <1>4, <1>7 DEF InFlight, Fed, AllQuiet
<1> QED BY <1>1, <1>3, <1>5, <1>6, <1>8 DEF t

(* It answers a document that it has read to its end.                      *)
LEMMA ReplyInFlight ==
  ASSUME TypeOK, LineByLine, InFlight, ChildRead, Head(inPipe) = NL,
         UNCHANGED <<pc, opVars>>, UNCHANGED unacked
  PROVE  InFlight'
<1>1. /\ proc = "running" /\ inPipe # <<>> /\ heard' = <<>> /\ inPipe' = Tail(inPipe)
      /\ Reply(heard)
      /\ UNCHANGED <<sent, emitted, tuple, rest, inputTuple, finalSent, copied, got, pc, proc, fd,
                     faulty, buffer, outPipe>>
  BY DEF ChildRead, opVars, upVars, portVars, outVars, objVars, histVars
<1>2. AllQuiet /\ unacked = 1 /\ Unanswered /\ heard = Payload(sent) /\ Tail(inPipe) = <<>>
  BY <1>1, DocumentRead
<1>3. Unread' = <<>>
  BY <1>1, <1>2, EmptySeq, ConcatEmptySeq DEF Unread
<1>4. buffer["out"] = <<>> /\ outPipe["out"] = <<>> /\ work["out"] = <<>> /\ got["out"] = <<>>
  BY <1>2, PartsType, ThreeParts DEF Unanswered, Printed
<1>5. work'["out"] = <<>> \/ \E p \in Program : p.line = Payload(sent) /\ work'["out"] = p.out
  <2>1. CASE UNCHANGED work
    BY <1>4, <2>1
  <2>2. ASSUME NEW p \in Program, p.line = heard,
               work' = [s \in Streams |-> IF outEnd[s] THEN p[s] ELSE <<>>]
        PROVE  work'["out"] = <<>> \/ work'["out"] = p["out"]
    BY <2>2 DEF Streams
  <2>3. \A p \in Program : p["out"] = p.out
    OBVIOUS
  <2> QED BY <1>1, <1>2, <2>1, <2>2, <2>3 DEF Reply
<1>6. Printed' = work'["out"]
  <2>1. work'["out"] \in Seq(Token)
    <3>1. \A p \in Program : p.out \in Seq(Token)
      BY ProgramAssumption
    <3> QED BY <1>5, <3>1, EmptySeq
  <2>2. <<>> \in Seq(Token) /\ <<>> \o <<>> = <<>>
    BY EmptySeq, ConcatEmptySeq
  <2>3. <<>> \o work'["out"] = work'["out"]
    BY <2>1, ConcatEmptySeq
  <2> QED BY <1>1, <1>4, <2>2, <2>3 DEF Printed
<1>7. AllQuiet'
  BY <1>1, <1>2 DEF AllQuiet
<1>8. OneBusy' /\ Fed'
  BY <1>1, <1>3, <1>7 DEF InFlight, OneBusy, Fed, AllQuiet, Busy
<1>9. Counting' /\ Stored'
  BY <1>1 DEF InFlight, Counting, Stored
<1>10. Answering'
  <2> SUFFICES ASSUME ~Unanswered' PROVE Answering'
    BY DEF Answering
  <2>1. got'["out"] = <<>> /\ Printed' # <<>>
    BY <1>1, <1>4 DEF Unanswered
  <2>2. PICK p \in Program : p.line = Payload(sent) /\ Printed' = p.out
    BY <1>5, <1>6, <2>1
  <2>3. <<>> \in Seq(Token) /\ p.out = p.out \o <<>>
    BY ProgramAssumption, EmptySeq, ConcatEmptySeq
  <2>4. AnswerTo(sent', Printed', faulty')
    BY <1>1, <2>2, <2>3 DEF AnswerTo
  <2> QED BY <1>2, <1>3, <2>1, <2>4 DEF Answering
<1> QED BY <1>8, <1>9, <1>10 DEF InFlight

(* Otherwise it reads on, and answers no line that has no end.             *)
LEMMA ReadOnInFlight ==
  ASSUME TypeOK, FinalOnce, LineByLine, InFlight, UNCHANGED <<pc, opVars>>, UNCHANGED unacked,
         (ChildRead /\ Head(inPipe) # NL) \/ ChildReadRest
  PROVE  InFlight'
<1>1. CASE ChildRead /\ Head(inPipe) # NL
  <2>1. /\ inPipe # <<>> /\ heard' = Append(heard, Head(inPipe)) /\ inPipe' = Tail(inPipe)
        /\ UNCHANGED <<sent, emitted, tuple, rest, inputTuple, finalSent, copied, got, pc, proc, fd,
                       faulty, buffer, outPipe, work>>
    BY <1>1 DEF ChildRead, opVars, upVars, portVars, outVars, objVars, histVars
  <2>2. UNCHANGED Unread
    BY <2>1, PartsType, TokenMoves DEF Unread
  <2>3. UNCHANGED Printed
    BY <2>1 DEF Printed
  <2> QED BY <2>1, <2>2, <2>3, TokenAside
<1>2. CASE ChildReadRest
  <2>1. proc = "running" /\ inPipe = <<>> /\ fd["in"] # "open" /\ heard # <<>>
    BY <1>2 DEF ChildReadRest, StdinAtEOF
  <2>2. AllQuiet
    <3>1. finalSent
      BY <2>1 DEF InFlight, Fed
    <3> QED BY <3>1 DEF FinalOnce, Late, AllQuiet, Busy, Before, Early, Starting
  <2>3. Unread = heard
    BY <2>1, PartsType, ConcatEmptySeq DEF Unread
  <2>4. unacked = 1 /\ heard = Append(Payload(sent), NL)
    BY <2>1, <2>2, <2>3 DEF InFlight, Fed, Document
  <2>5. Payload(sent) \in Seq(Token) /\ NL \in Token
    <3>1. sent # 0
      BY <2>4 DEF InFlight, Counting, TypeOK, OutputTypeOK
    <3> QED BY <3>1, DocumentType
  <2>6. Len(heard) \in 1..Len(heard) /\ heard[Len(heard)] = NL
    BY <2>4, <2>5, AppendProperties, LenProperties
  <2>7. heard[Len(heard)] \in Text \cup {NUL}
    BY <2>6, ElementOfSeq DEF TypeOK, ShellTypeOK
  <2> QED BY <2>6, <2>7, TokenAssumption
<1> QED BY <1>1, <1>2

(* The answer goes to the pipe, as far as the command gets.                *)
LEMMA PrintInFlight ==
  ASSUME TypeOK, InFlight, UNCHANGED <<pc, opVars>>, UNCHANGED unacked,
         \/ ChildQuit \/ ChildExit \/ \E s \in Streams : ChildWrite(s) \/ ChildClose(s)
  PROVE  InFlight'
<1>1. ASSUME NEW s \in Streams, ChildWrite(s)
      PROVE  InFlight'
  <2>1. /\ work[s] # <<>> /\ work' = [work EXCEPT ![s] = Tail(@)]
        /\ outPipe' = [outPipe EXCEPT ![s] = Append(@, Head(work[s]))]
        /\ UNCHANGED <<sent, emitted, tuple, rest, inputTuple, finalSent, copied, got, pc, proc, fd,
                       faulty, buffer, heard, inPipe>>
    BY <1>1 DEF ChildWrite, opVars, upVars, portVars, outVars, objVars, histVars
  <2>2. UNCHANGED Unread
    BY <2>1 DEF Unread
  <2>3. CASE s = "out"
    <3> DEFINE b == buffer["out"]
               p == outPipe["out"]
               c == work["out"]
    <3>1. b \in Seq(Token) /\ p \in Seq(Token) /\ c \in Seq(Token) /\ c # <<>>
      BY <2>1, <2>3, PartsType
    <3>2. /\ work'["out"] = Tail(c) /\ outPipe'["out"] = Append(p, Head(c)) /\ buffer'["out"] = b
      BY <2>1, <2>3 DEF TypeOK, ShellTypeOK, Streams
    <3>3. Printed = (b \o p) \o c /\ Printed' = (b \o Append(p, Head(c))) \o Tail(c)
      BY <3>2 DEF Printed
    <3> HIDE DEF b, p, c
    <3>4. Head(c) \in Token /\ Tail(c) \in Seq(Token) /\ Append(p, Head(c)) \in Seq(Token)
      BY <3>1, HeadTailProperties, AppendProperties
    <3>5. (b \o Append(p, Head(c))) \o Tail(c) = b \o (Append(p, Head(c)) \o Tail(c))
      <4> DEFINE d == Append(p, Head(c))
                 e == Tail(c)
      <4>1. d \in Seq(Token) /\ e \in Seq(Token)
        BY <3>4
      <4> HIDE DEF d, e
      <4>2. (b \o d) \o e = b \o (d \o e)
        BY <3>1, <4>1, ThreeParts
      <4> QED BY <4>2 DEF d, e
    <3>6. Append(p, Head(c)) \o Tail(c) = p \o c
      BY <3>1, TokenMoves
    <3>7. (b \o p) \o c = b \o (p \o c)
      BY <3>1, ConcatAssociative
    <3>8. UNCHANGED Printed
      BY <3>3, <3>5, <3>6, <3>7
    <3> QED BY <2>1, <2>2, <3>8, TokenAside
  <2>4. CASE s # "out"
    <3>1. work'["out"] = work["out"] /\ outPipe'["out"] = outPipe["out"]
      BY <2>1, <2>4 DEF TypeOK, ShellTypeOK, Streams
    <3>2. UNCHANGED Printed
      BY <2>1, <3>1 DEF Printed
    <3> QED BY <2>1, <2>2, <3>2, TokenAside
  <2> QED BY <2>3, <2>4
<1>2. CASE ChildQuit \/ ChildExit \/ \E s \in Streams : ChildClose(s)
  <2>1. /\ UNCHANGED <<sent, emitted, tuple, rest, inputTuple, finalSent, copied, got, pc, fd,
                       buffer, outPipe, heard, inPipe>>
        /\ proc' = "running" => proc = "running"
    BY <1>2 DEF ChildQuit, ChildExit, Die, ChildClose, opVars, upVars, portVars, outVars, objVars,
       pipeVars
  <2>2. /\ faulty => faulty'
        /\ work'["out"] = work["out"] \/ (work'["out"] = <<>> /\ faulty')
    <3>1. CASE ChildQuit
      BY <3>1 DEF ChildQuit, Die, Nothing, Streams
    <3>2. CASE ChildExit
      BY <3>2 DEF ChildExit, Die, Idle
    <3>3. ASSUME NEW s \in Streams, ChildClose(s)
          PROVE  faulty' /\ (work'["out"] = work["out"] \/ work'["out"] = <<>>)
      BY <3>3 DEF ChildClose, TypeOK, ShellTypeOK, Streams
    <3> QED BY <1>2, <3>1, <3>2, <3>3
  <2> QED BY <2>1, <2>2, Aside
<1> QED BY <1>1, <1>2

(* Whatever the command does, one answer is under way at most.             *)
LEMMA CommandInFlight ==
  ASSUME TypeOK, FinalOnce, LineByLine, InFlight, CommandStep \/ CommandFault, UNCHANGED unacked
  PROVE  InFlight'
<1>1. /\ UNCHANGED <<pc, opVars>>
      /\ \/ ChildRead \/ ChildReadRest \/ ChildQuit \/ ChildExit
         \/ \E s \in Streams : ChildWrite(s) \/ ChildClose(s)
  BY DEF CommandStep, CommandFault, Beside
<1> QED BY <1>1, ReplyInFlight, ReadOnInFlight, PrintInFlight

-----------------------------------------------------------------------------
(* The command is left alone while it runs as it should                    *)

(* Steps that do not touch what Steady speaks of.                          *)
LEMMA SteadyFrame ==
  ASSUME Steady, pc'[PE] = pc[PE], mutex' = mutex, faulty => faulty',
         proc' = "running" => proc = "running",
         \A w \in Writers : pc[w] = "writeFail" => pc'[w] = "writeFail",
         pc[Reader] \in {"fail", "finish"} => pc'[Reader] = pc[Reader],
         ~faulty' /\ proc' = "running" =>
           /\ pc[Reader] \in Looping => pc'[Reader] \in Looping
           /\ \A s \in Streams : /\ fd'[s] = fd[s] /\ (outEnd[s] => outEnd'[s])
                                 /\ ~closed[s] /\ outEnd[s] => ~closed'[s]
  PROVE  Steady'
<1>1. ASSUME ~faulty', proc' = "running"
      PROVE  /\ mutex' = NoThread /\ pc'[Reader] \in Looping
             /\ \A s \in Streams : ~closed'[s] /\ outEnd'[s] /\ fd'[s] = "open"
  BY <1>1 DEF Steady
<1>2. mutex' # NoThread => \/ mutex' = Reader /\ pc'[Reader] \in {"fail", "finish"}
                           \/ mutex' \in Writers /\ pc'[mutex'] = "writeFail"
  BY DEF Steady
<1> QED BY <1>1, <1>2 DEF Steady

(* Only a thread that has met a failure, or the end, is in terminate().    *)
LEMMA TerminateSteady ==
  ASSUME Steady, NEW t, TerminateBegin(t) \/ TerminateReturns(t) \/ WaitFails(t),
         \/ t = Reader /\ pc[Reader] \in {"fail", "finish"}
         \/ t \in Writers /\ pc[t] = "writeFail",
         faulty \/ proc # "running", pc'[PE] = pc[PE], TerminateBegin(t) => UNCHANGED pc
  PROVE  Steady'
<1>1. faulty' = faulty /\ (proc' = "running" => proc = "running")
  BY TerminateAside
<1>2. ~(~faulty' /\ proc' = "running")
  BY <1>1
<1>3. mutex' = NoThread \/ (mutex' = t /\ UNCHANGED pc)
  BY DEF TerminateBegin, TerminateReturns, TerminateAgain, Reap, Kill, WaitForeign, WaitFails,
     shellVars, objVars
<1>4. mutex' # NoThread => \/ mutex' = Reader /\ pc'[Reader] \in {"fail", "finish"}
                           \/ mutex' \in Writers /\ pc'[mutex'] = "writeFail"
  BY <1>3
<1> QED BY <1>2, <1>4 DEF Steady

(* The reader stops reading only at the end of the streams.                *)
LEMMA ReaderSteady ==
  ASSUME TypeOK, Steady, ~shutdownRequested, ReaderStep
  PROVE  Steady'
<1>1. /\ pc'[PE] = pc[PE]
      /\ \A w \in Writers : pc'[w] = pc[w] \/ (pc[w] = "waiting" /\ pc'[w] = "drain")
  <2>1. CASE Drain
    BY <2>1, ThreadsDiffer DEF Drain, Signal, TypeOK, ThreadTypeOK, PELabels
  <2>2. CASE ~Drain
    BY <2>2, ReaderPlace
  <2> QED BY <2>1, <2>2
<1>2. CASE ReaderTerminate \/ ReaderFinish
  <2>1. /\ TerminateBegin(Reader) \/ TerminateReturns(Reader) \/ WaitFails(Reader)
        /\ pc[Reader] \in {"fail", "finish"}
    BY <1>2 DEF ReaderTerminate, ReaderFinish, LastTerminate, At
  <2>2. faulty \/ proc # "running"
    BY <2>1 DEF Steady, Looping
  <2>3. TerminateBegin(Reader) => UNCHANGED pc
    <3>1. TerminateBegin(Reader) => ~TerminateReturns(Reader) /\ ~WaitFails(Reader)
      BY ThreadsDiffer DEF TerminateBegin, TerminateReturns, TerminateAgain, Reap, Kill, WaitForeign, WaitFails
    <3> QED BY <1>2, <3>1 DEF ReaderTerminate, ReaderFinish, LastTerminate
  <2> QED BY <1>1, <2>1, <2>2, <2>3, TerminateSteady
<1>3. CASE ReadOut \/ ReadErr
  <2>1. PICK s \in Streams, label \in {"readErr", "read"} :
          \/ ReadFromPipe(s) /\ Goto(Reader, label)
          \/ ReadFails(s) /\ Goto(Reader, "fail") /\ UNCHANGED shellVars
    BY <1>3 DEF ReadOut, ReadErr, ReadStream, Streams
  <2>2. pc[Reader] \notin {"fail", "finish"}
    BY <1>3 DEF ReadOut, ReadErr, ReadStream, At
  <2>3. CASE ReadFromPipe(s) /\ Goto(Reader, label)
    <3>1. pc'[Reader] \in Looping
      BY <2>3, ReaderGoes DEF TypeOK, ReaderLabels, Looping
    <3>2. /\ UNCHANGED <<mutex, faulty, proc, fd, outEnd>>
          /\ \A r \in Streams : ~closed[r] /\ outEnd[r] => ~closed'[r]
      BY <2>3 DEF ReadFromPipe, TypeOK, ShellTypeOK, childVars, histVars
    <3> QED BY <1>1, <2>2, <3>1, <3>2, SteadyFrame
  <2>4. CASE ReadFails(s) /\ UNCHANGED shellVars
    <3>1. faulty \/ proc # "running"
      BY <2>4 DEF ReadFails, Steady
    <3> QED BY <1>1, <2>2, <2>4, <3>1, SteadyFrame DEF shellVars, objVars, childVars, histVars
  <2> QED BY <2>1, <2>3, <2>4
<1>4. CASE Spin \/ TestShutdown \/ ReadBuffered \/ ReadMore \/ Select \/ CopyAttributes \/ Submit
  <2>1. /\ UNCHANGED <<mutex, faulty, proc, fd, outEnd, closed>>
        /\ pc[Reader] \notin {"fail", "finish"}
    BY <1>4 DEF Spin, TestShutdown, ReadBuffered, TakeLines, ReadMore, Select, CopyAttributes, Submit,
       At, shellVars, objVars, childVars, histVars
  <2>2. \/ \E label \in Looping : Goto(Reader, label)
        \/ ReadMore /\ AllClosed
    BY <1>4 DEF Spin, TestShutdown, ReadBuffered, ReadMore, Select, CopyAttributes, Submit, Looping
  <2>3. (~faulty /\ proc = "running") => pc'[Reader] \in Looping
    <3>1. ReadMore /\ AllClosed => faulty \/ proc # "running"
      BY DEF AllClosed, Steady, Streams
    <3>2. Looping \subseteq ReaderLabels
      BY DEF Looping, ReaderLabels
    <3> QED BY <2>2, <3>1, <3>2, ReaderGoes DEF TypeOK
  <2> QED BY <1>1, <2>1, <2>3, SteadyFrame
<1>5. CASE Caught \/ Drain
  <2>1. /\ UNCHANGED <<mutex, faulty, proc, fd, outEnd, closed>>
        /\ pc[Reader] \notin {"fail", "finish"} /\ pc[Reader] \notin Looping
    BY <1>5 DEF Caught, Drain, At, Looping, shellVars, objVars, childVars, histVars
  <2> QED BY <1>1, <2>1, SteadyFrame
<1> QED BY <1>2, <1>3, <1>4, <1>5 DEF ReaderStep

(* The writers start the command and feed it.                              *)
LEMMA WriterSteady ==
  ASSUME TypeOK, Startup, InFlight, Steady, ~shutdownRequested, NEW w \in Writers,
         WriterStep(w) \/ Receive(w) \/ WindowMarker(w) \/ FinalMarker(w)
  PROVE  Steady'
<1>1. UNCHANGED pc \/ \E label \in WriterLabels : Goto(w, label)
  BY DEF WriterStep, StartShell, CheckFirst, Enter, Store, WriteBegin, WriteEnd, WriteFail,
     WriterTerminate, FinalShutdown, AwaitDrained, Receive, WindowMarker, FinalMarker, WriterLabels
<1>2. pc'[PE] = pc[PE] /\ pc'[Reader] = pc[Reader] /\ \A x \in Writers \ {w} : pc'[x] = pc[x]
  BY <1>1, WriterGoes DEF TypeOK
<1>3. CASE WriterTerminate(w)
  <2>1. /\ TerminateBegin(w) \/ TerminateReturns(w) \/ WaitFails(w)
        /\ pc[w] = "writeFail" /\ UNCHANGED pc
    BY <1>3 DEF WriterTerminate, At
  <2>2. proc # "running"
    BY <2>1 DEF InFlight, Fed
  <2> QED BY <2>1, <2>2, TerminateSteady
<1>4. CASE At(w, "fork") /\ SetupFork(Nothing)
  <2>1. pc[w] = "fork"
    BY <1>4 DEF At
  <2>2. pc[Reader] = "spin"
    <3>1. InitOnFirstTuple /\ ~firstTuple
      BY <2>1 DEF Startup, Early, Starting
    <3> QED BY <3>1 DEF Startup
  <2>3. mutex = NoThread
    <3> SUFFICES ASSUME mutex # NoThread PROVE FALSE
      OBVIOUS
    <3>1. mutex \in Writers /\ pc[mutex] = "writeFail"
      BY <2>2 DEF Steady
    <3>2. mutex = w
      BY <2>1, <3>1 DEF InFlight, OneBusy, Busy, Before, Early, Starting
    <3> QED BY <2>1, <3>1, <3>2
  <2>4. /\ mutex' = NoThread /\ pc'[Reader] \in Looping /\ pc'[PE] = "up"
        /\ \A s \in Streams : ~closed'[s] /\ outEnd'[s] /\ fd'[s] = "open"
    BY <1>2, <1>4, <2>2, <2>3 DEF SetupFork, Looping, Streams, Fds, Steady
  <2> QED BY <2>4 DEF Steady
<1>5. CASE ~WriterTerminate(w) /\ ~(At(w, "fork") /\ SetupFork(Nothing))
  <2>1. /\ UNCHANGED <<mutex, faulty, outEnd, closed>>
        /\ proc' = "running" => proc = "running"
        /\ \A s \in Streams : fd'[s] = fd[s]
    <3>1. \/ FinalShutdown(w)
          \/ UNCHANGED <<mutex, faulty, outEnd, closed, fd>> /\ (proc' = "running" => proc = "running")
      BY <1>5 DEF WriterStep, StartShell, CheckFirst, SetupBegin, Enter, Store, WriteBegin, BeginWrite,
         WriteEnd, EndWrite, WriteFail, FailWrite, AwaitDrained, Receive, WindowMarker, FinalMarker,
         shellVars, objVars, childVars, histVars
    <3>2. CASE FinalShutdown(w)
      BY <3>2 DEF FinalShutdown, ShutdownShell, CloseFds, childVars, Streams, Fds
    <3> QED BY <3>1, <3>2
  <2>2. pc[w] # "writeFail"
    BY <1>5 DEF WriterStep, StartShell, CheckFirst, Enter, Store, WriteBegin, WriteEnd, WriteFail,
       FinalShutdown, AwaitDrained, Receive, WindowMarker, FinalMarker, Callable, At
  <2> QED BY <1>2, <2>1, <2>2, SteadyFrame
<1> QED BY <1>3, <1>4, <1>5

(* So does the command, unless it fails.                                   *)
LEMMA CommandSteady ==
  ASSUME TypeOK, Steady, CommandStep \/ CommandFault
  PROVE  Steady'
<1>1. /\ UNCHANGED <<pc, opVars>>
      /\ \/ ChildRead \/ ChildReadRest \/ ChildQuit \/ ChildExit
         \/ \E s \in Streams : ChildWrite(s) \/ ChildClose(s)
  BY DEF CommandStep, CommandFault, Beside
<1>2. /\ UNCHANGED <<mutex, closed, fd>> /\ (faulty => faulty')
      /\ proc' = "running" => proc = "running"
      /\ ~faulty' /\ proc' = "running" => UNCHANGED outEnd
  BY <1>1 DEF ChildRead, ChildReadRest, ChildQuit, ChildExit, Die, ChildWrite, ChildClose, objVars, histVars
<1> QED BY <1>1, <1>2, SteadyFrame

-----------------------------------------------------------------------------
(* Every result belongs to its document                                    *)

(* A failure of the command and a shutdown are remembered.                 *)
LEMMA Remembered ==
  ASSUME TypeOK, [Next]_vars
  PROVE  (faulty => faulty') /\ (shutdownRequested => shutdownRequested')
<1>1. ASSUME NEW t, TerminateBegin(t) \/ TerminateReturns(t) \/ WaitFails(t)
      PROVE  UNCHANGED faulty
  BY <1>1, TerminateAside
<1>2. ASSUME NEW w \in Writers, WriterStep(w) \/ Receive(w) \/ WindowMarker(w) \/ FinalMarker(w)
      PROVE  UNCHANGED <<faulty, shutdownRequested>>
  BY <1>1, <1>2 DEF WriterStep, StartShell, CheckFirst, SetupBegin, SetupFork, Enter, Store, WriteBegin,
     BeginWrite, WriteEnd, EndWrite, WriteFail, FailWrite, WriterTerminate, FinalShutdown, ShutdownShell,
     AwaitDrained, Receive, WindowMarker, FinalMarker, opVars, runVars, shellVars, histVars
<1>3. CASE ReaderStep
  <2>1. CASE ReaderTerminate \/ ReaderFinish
    BY <1>1, <2>1 DEF ReaderTerminate, ReaderFinish, LastTerminate, opVars, runVars
  <2>2. CASE ReadBuffered \/ ReadOut \/ ReadErr
    <3>1. ASSUME NEW s, ReadFromPipe(s) PROVE UNCHANGED faulty
      BY <3>1 DEF ReadFromPipe, histVars
    <3> QED BY <2>2, <3>1 DEF ReadBuffered, TakeLines, ReadOut, ReadErr, ReadStream, opVars, runVars,
                shellVars, histVars
  <2>3. CASE \/ Spin \/ TestShutdown \/ ReadMore \/ Select \/ Caught \/ CopyAttributes \/ Submit \/ Drain
    BY <2>3 DEF Spin, TestShutdown, ReadMore, Select, Caught, CopyAttributes, Submit, Drain, opVars,
       runVars, shellVars, histVars
  <2> QED BY <1>3, <2>1, <2>2, <2>3 DEF ReaderStep
<1>4. CASE PEStep \/ RequestShutdown
  BY <1>1, <1>4 DEF PEStep, PrepareToShutdown, ShutdownShell, Join, Destroy, LastTerminate,
     RequestShutdown, opVars, runVars, shellVars, histVars
<1>5. CASE CommandStep \/ CommandFault
  BY <1>5 DEF CommandStep, CommandFault, Beside, ChildRead, ChildReadRest, ChildWrite, ChildExit,
     ChildQuit, Die, ChildClose, opVars, runVars, histVars
<1>6. CASE UNCHANGED vars
  BY <1>6 DEF vars, opVars, runVars, shellVars, histVars
<1> QED BY <1>2, <1>3, <1>4, <1>5, <1>6 DEF Next, Upstream, Ended

(* Only two statements submit anything.                                    *)
LEMMA Submissions ==
  ASSUME [PipelineNext]_graphVars
  PROVE  \/ UNCHANGED emitted
         \/ Submit /\ Acknowledge
         \/ \E w \in Writers : AwaitDrained(w) /\ drained
<1>1. ASSUME NEW w \in Writers, WriterStep(w) \/ Receive(w) \/ WindowMarker(w) \/ FinalMarker(w)
      PROVE  UNCHANGED emitted \/ (AwaitDrained(w) /\ drained)
  <2>1. CASE AwaitDrained(w)
    BY <2>1 DEF AwaitDrained, MayForward
  <2>2. CASE ~AwaitDrained(w)
    BY <1>1, <2>2 DEF WriterStep, StartShell, CheckFirst, Enter, Store, WriteBegin, WriteEnd, WriteFail,
       WriterTerminate, FinalShutdown, Receive, WindowMarker, FinalMarker, opVars, outVars
  <2> QED BY <2>1, <2>2
<1>2. CASE ReaderStep /\ Acknowledge
  BY <1>2 DEF ReaderStep, Spin, TestShutdown, ReadBuffered, ReadMore, Select, ReadOut, ReadErr,
     ReadStream, ReaderTerminate, Caught, CopyAttributes, Drain, ReaderFinish, opVars, outVars
<1>3. CASE PEStep \/ RequestShutdown \/ CommandStep \/ CommandFault \/ Ended \/ UNCHANGED graphVars
  BY <1>3 DEF PEStep, PrepareToShutdown, Join, Destroy, RequestShutdown, CommandStep, CommandFault,
     Beside, Ended, graphVars, vars, opVars, outVars
<1> QED BY <1>1, <1>2, <1>3 DEF PipelineNext, Upstream

(* The final punctuation comes after the results.                          *)
LEMMA FinalBelongs ==
  ASSUME TypeOK, ResultsBelong, NEW w \in Writers, AwaitDrained(w), drained
  PROVE  ResultsBelong'
<1>1. /\ emitted' = emitted \o <<Punct("window"), Punct("final")>>
      /\ UNCHANGED <<shutdownRequested, faulty>>
  BY DEF AwaitDrained, MayForward, runVars, shellVars, histVars
<1>2. emitted \in Seq(Out) /\ emitted' \in Seq(Out)
  <2>1. emitted \in Seq(Out)
    BY DEF TypeOK, OutputTypeOK, Out
  <2>2. Punct("window") \in Out /\ Punct("final") \in Out
    <3>1. <<>> \in Seq(Token) /\ 0 \in 0..MaxTuples
      BY EmptySeq, BoundAssumption
    <3> QED BY <3>1 DEF Punct, Out
  <2>3. <<Punct("window"), Punct("final")>> \in Seq(Out)
    BY <2>2
  <2> QED BY <1>1, <2>1, <2>3, ConcatProperties
<1>3. \A k \in 1..Len(emitted') : \/ k \in 1..Len(emitted) /\ emitted'[k] = emitted[k]
                                  \/ emitted'[k].port # "out"
  <2> DEFINE q == emitted
             r == emitted'
  <2>1. q \in Seq(Out) /\ r = q \o <<Punct("window"), Punct("final")>>
    BY <1>1, <1>2
  <2> HIDE DEF q, r
  <2>2. \A i \in 1..Len(r) : (i <= Len(q) /\ r[i] = q[i]) \/ r[i].port # "out"
    BY <2>1, EndsFinal
  <2>3. Len(q) \in Nat /\ Len(r) \in Nat
    BY <1>2, LenProperties DEF q, r
  <2>4. \A k \in 1..Len(r) : (k \in 1..Len(q) /\ r[k] = q[k]) \/ r[k].port # "out"
    BY <2>2, <2>3
  <2> QED BY <2>4 DEF q, r
<1>4. DOMAIN emitted = 1..Len(emitted) /\ DOMAIN emitted' = 1..Len(emitted')
  BY <1>2, LenProperties
<1>5. ASSUME ~shutdownRequested', NEW k \in DOMAIN emitted', emitted'[k].port = "out"
      PROVE  /\ emitted'[k].from = <<k, k>>
             /\ \E p \in Program :
                  /\ p.line = Payload(k) /\ IsPrefixOf(emitted'[k].line, p.out)
                  /\ ~faulty' => p.out = Append(emitted'[k].line, NL)
  <2>1. k \in DOMAIN emitted /\ emitted'[k] = emitted[k]
    BY <1>3, <1>4, <1>5
  <2> QED BY <1>1, <1>5, <2>1 DEF ResultsBelong, Answers
<1> QED BY <1>5 DEF ResultsBelong, Answers

(* Whatever is submitted belongs where it should.                          *)
LEMMA ResultsStep ==
  ASSUME ~HasErrPort, Relaying, ResultsBelong, shutdownRequested \/ FinalForwarded \/ InFlight,
         [PipelineNext]_graphVars
  PROVE  ResultsBelong'
<1>1. TypeOK /\ FinalOnce /\ (faulty => faulty') /\ (shutdownRequested => shutdownRequested')
  BY PipelineSteps, Remembered DEF Relaying
<1>2. CASE shutdownRequested
  BY <1>1, <1>2 DEF ResultsBelong
<1>3. CASE Submit /\ Acknowledge /\ ~shutdownRequested
  <2>1. ~FinalForwarded
    BY <1>1, <1>3 DEF Submit, At, FinalOnce
  <2> QED BY <1>1, <1>3, <2>1, SubmitInFlight
<1>4. ASSUME NEW w \in Writers, AwaitDrained(w), drained
      PROVE  ResultsBelong'
  BY <1>1, <1>4, FinalBelongs
<1> QED BY <1>1, <1>2, <1>3, <1>4, Submissions, ResultsStay

(* The final punctuation stays the last that is submitted.                 *)
LEMMA FinalStays ==
  ASSUME FinalOnce, FinalForwarded, [PipelineNext]_graphVars
  PROVE  FinalForwarded'
<1>1. ~Submit
  BY DEF Submit, At, FinalOnce
<1>2. \A w \in Writers : ~AwaitDrained(w)
  BY DEF AwaitDrained, At, FinalOnce, AtFinal
<1> QED BY <1>1, <1>2, Submissions DEF FinalForwarded

(* While documents come, ...                                               *)
LEMMA FlowStep ==
  ASSUME MaxUnacked = 1, ~HasErrPort, LineByLine, Relaying, FirstAlone, ResultsBelong, InFlight, Steady,
         ~shutdownRequested', ~FinalForwarded', [PipelineNext]_graphVars
  PROVE  InFlight' /\ Steady'
<1>1. [Next]_vars /\ ~shutdownRequested /\ (faulty => faulty') /\ (shutdownRequested => shutdownRequested')
  BY PipelineSteps, Remembered DEF Relaying
<1>2. TypeOK /\ FinalOnce /\ Startup /\ Relay
  BY DEF Relaying
<1>4. CASE Upstream /\ Gate
  <2>1. PICK w \in Writers : Receive(w) \/ WindowMarker(w) \/ FinalMarker(w)
    BY <1>4 DEF Upstream
  <2> QED BY <1>1, <1>2, <1>4, <2>1, ReceiveInFlight, MarkerInFlight, WriterSteady
<1>5. CASE ReaderStep /\ Acknowledge
  <2>1. InFlight'
    BY <1>2, <1>5, LoopInFlight, ReadBufferedInFlight, ReadInFlight, CopyInFlight, SubmitInFlight
       DEF ReaderStep, Relay
  <2> QED BY <1>1, <1>2, <1>5, <2>1, ReaderSteady
<1>6. ASSUME NEW w \in Writers, WriterStep(w), UNCHANGED unacked
      PROVE  InFlight' /\ Steady'
  <2>1. InFlight'
    BY <1>2, <1>6, StartInFlight, StoreInFlight, WriteInFlight, WriterInFlight DEF WriterStep
  <2> QED BY <1>1, <1>2, <1>6, <2>1, WriterSteady
<1>7. CASE (CommandStep \/ CommandFault) /\ UNCHANGED unacked
  <2>1. InFlight'
    BY <1>2, <1>7, CommandInFlight
  <2> QED BY <1>2, <1>7, <2>1, CommandSteady
<1>8. CASE PEStep \/ RequestShutdown
  BY <1>1, <1>8 DEF PEStep, PrepareToShutdown, Join, Destroy, RequestShutdown, At, Steady
<1>9. CASE UNCHANGED graphVars
  <2>1. /\ UNCHANGED vars /\ UNCHANGED <<pc, unacked, sent, emitted, tuple, rest, inputTuple, finalSent,
                                         copied, got>>
    BY <1>9 DEF graphVars, vars, opVars, upVars, portVars, outVars
  <2>2. UNCHANGED <<proc, fd, faulty, mutex, closed, outEnd, heard, inPipe, buffer, outPipe, work>>
    BY <2>1 DEF vars, shellVars, objVars, childVars, pipeVars, histVars
  <2>3. UNCHANGED <<Unread, Printed>>
    BY <2>2 DEF Unread, Printed
  <2>4. InFlight'
    BY <2>1, <2>2, <2>3, TokenAside
  <2> QED BY <2>1, <2>2, <2>4, SteadyFrame
<1> QED BY <1>4, <1>5, <1>6, <1>7, <1>8, <1>9 DEF PipelineNext, Ended, graphVars

(* Nothing of this is needed once the final punctuation is on its way, or  *)
(* the PE shuts down, which may cut a document off.                        *)
Belonging ==
  /\ FirstAlone /\ ResultsBelong
  /\ pc[PE] # "up" => shutdownRequested
  /\ shutdownRequested \/ FinalForwarded \/ (InFlight /\ Steady)

(* Every step keeps it so.                                                 *)
LEMMA BelongingStep ==
  ASSUME MaxUnacked = 1, ~HasErrPort, LineByLine, Relaying, Belonging, [PipelineNext]_graphVars
  PROVE  Relaying' /\ Belonging'
<1>1. [Next]_vars
  BY PipelineSteps
<1>2. TypeOK /\ FinalOnce /\ Startup /\ FirstAlone /\ ResultsBelong /\ PlainProgram
  BY DEF Relaying, Belonging, LineByLine
<1>3. Relaying'
  <2>1. OneAtATime
    BY <1>2 DEF FirstAlone, OneAtATime
  <2> QED BY <1>1, <1>2, <2>1, RelayingStep
<1>4. FirstAlone'
  BY <1>2, AloneStep
<1>5. ResultsBelong'
  BY <1>2, ResultsStep DEF Belonging
<1>6. shutdownRequested => shutdownRequested'
  BY <1>1, <1>2, Remembered
<1>7. pc'[PE] # "up" => shutdownRequested'
  <2>1. CASE PEStep
    BY <1>6, <2>1 DEF PEStep, PrepareToShutdown, Join, Destroy, At, Belonging
  <2>2. CASE RequestShutdown
    BY <2>2 DEF RequestShutdown
  <2> QED BY <1>1, <1>2, <1>6, <2>1, <2>2, OthersLeavePE DEF Belonging
<1>8. shutdownRequested' \/ FinalForwarded' \/ (InFlight' /\ Steady')
  <2>1. CASE shutdownRequested
    BY <1>6, <2>1
  <2>2. CASE FinalForwarded
    BY <1>2, <2>2, FinalStays
  <2>3. CASE InFlight /\ Steady
    BY <1>2, <2>3, FlowStep
  <2> QED BY <2>1, <2>2, <2>3 DEF Belonging
<1> QED BY <1>3, <1>4, <1>5, <1>7, <1>8 DEF Belonging

(* Nothing is under way at first.                                          *)
LEMMA BelongingInit ==
  ASSUME PipelineInit
  PROVE  Relaying /\ Belonging
<1>1. Init /\ unacked = 0 /\ Relaying
  BY RelayingInit DEF PipelineInit
<1>2. /\ \A w \in Writers : pc[w] = "idle"
      /\ pc[Reader] = IF InitOnFirstTuple THEN "spin" ELSE "test"
      /\ pc[PE] = "up"
  BY <1>1, ThreadsDiffer DEF Init
<1>3. FirstAlone
  BY <1>1, <1>2 DEF FirstAlone, Early, Starting
<1>4. emitted = <<>> /\ sent = 0 /\ Len(emitted) = 0 /\ DOMAIN emitted = {}
  BY <1>1 DEF Init
<1>5. ResultsBelong
  BY <1>4 DEF ResultsBelong
<1>6. AllQuiet
  BY <1>2 DEF AllQuiet, Busy, Before, Early, Starting
<1>7. Unanswered /\ Unread = <<>>
  <2>1. <<>> \in Seq(Token) /\ <<>> \o <<>> = <<>>
    BY EmptySeq, ConcatEmptySeq
  <2>2. /\ got["out"] = <<>> /\ buffer["out"] = <<>> /\ outPipe["out"] = <<>> /\ work["out"] = <<>>
        /\ heard = <<>> /\ inPipe = <<>>
    BY <1>1 DEF Init, ShellInit, Nothing, Streams
  <2> QED BY <2>1, <2>2 DEF Unanswered, Printed, Unread
<1>8. InFlight
  <2>1. Counting /\ OneBusy /\ Answering
    BY <1>1, <1>4, <1>6, <1>7 DEF Counting, OneBusy, Answering, AllQuiet
  <2>2. Stored
    BY <1>1, <1>2 DEF Stored
  <2>3. Fed
    <3>1. proc = "running" => fd["in"] = "open"
      BY <1>1 DEF Init, ShellInit, Fds
    <3> QED BY <1>2, <1>6, <1>7, <3>1 DEF Fed, AllQuiet, Busy
  <2> QED BY <2>1, <2>2, <2>3 DEF InFlight
<1>9. Steady
  <2>1. mutex = NoThread /\ pc[Reader] \in Looping
    BY <1>1, <1>2 DEF Init, ShellInit, Looping
  <2>2. proc = "running" => \A s \in Streams : ~closed[s] /\ outEnd[s] /\ fd[s] = "open"
    BY <1>1 DEF Init, ShellInit, Fds, Streams
  <2> QED BY <1>2, <2>1, <2>2 DEF Steady
<1> QED BY <1>1, <1>2, <1>3, <1>5, <1>8, <1>9 DEF Belonging

(* Behind the Gate each result carries the attributes of its document and  *)
(* what the script said of it, whichever threads bring the documents, and  *)
(* however the script, the reader and the runtime interleave.              *)
THEOREM ResultsBelongToDocuments ==
  ASSUME MaxUnacked = 1, ~HasErrPort, LineByLine
  PROVE  PipelineSpec => []ResultsBelong
<1>1. PipelineInit => Relaying /\ Belonging
  BY BelongingInit
<1>2. Relaying /\ Belonging /\ [PipelineNext]_graphVars => Relaying' /\ Belonging'
  BY BelongingStep
<1>3. Belonging => ResultsBelong
  BY DEF Belonging
<1> QED BY <1>1, <1>2, <1>3, PTL DEF PipelineSpec
================================================================================
