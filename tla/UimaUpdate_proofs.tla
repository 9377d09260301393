-------------------------- MODULE UimaUpdate_proofs --------------------------
(***************************************************************************)
(* Proofs about UimaUpdate, for any number of operators, threads, files    *)
(* and documents.                                                          *)
(***************************************************************************)
EXTENDS UimaUpdate, TLAPS

Steps == {"idle", "text", "processed", "uninstall", "install", "prepare"}

(* What each thread can be at, and what the variables hold.                *)
ThreadSet == [at : Steps, op : Operators \union {NULL}, text : EngineSet \union {NULL},
              engine : EngineSet \union {NULL}, second : BOOLEAN]

TypeOK ==
  /\ made \in Nat /\ live \subseteq EngineSet
  /\ controlPortDefined \in BOOLEAN
  /\ phase \in [Operators -> {"new", "checked", "ready", "destroyed", "gone"}]
  /\ pearFile \in [Operators -> Files \union {NULL}]
  /\ initialPearFile \in [Operators -> Files \union {NULL}]
  /\ instPear \in [Operators -> Files \union {NULL}]
  /\ installDir \in [Operators -> SUBSET Files]
  /\ ae \in [Operators -> EngineSet \union {NULL}]
  /\ cas \in [Operators -> EngineSet \union {NULL}]
  /\ updateLock \in [Operators -> Threads \union {NULL}]
  /\ thread \in [Threads -> ThreadSet]

(* A thread at work is at work for an operator, an idle one for none, and  *)
(* each port has its own steps.                                            *)
AtWork ==
  /\ \A t \in Threads : At(t, "idle") <=> Op(t) = NULL
  /\ \A t \in DocumentThreads : thread[t].at \in {"idle", "text", "processed"}
  /\ \A t \in ControlThreads : thread[t].at \in {"idle", "uninstall", "install", "prepare"}

(* No tuple arrives before all operators are initialized, and from then on *)
(* the static field keeps its value.                                       *)
AfterStart == (\E t \in Threads : ~At(t, "idle")) => AllReady

(* An update holds the lock of its operator, and so does a document if the *)
(* static field says that there may be updates.                            *)
Locked ==
  /\ \A t \in ControlThreads : ~At(t, "idle") => updateLock[Op(t)] = t
  /\ controlPortDefined => \A t \in DocumentThreads : ~At(t, "idle") => updateLock[Op(t)] = t

(* An engine belongs to its operator; between updates the operator has an  *)
(* engine, its CAS is of that engine, and the engine's files are there.    *)
Owned == \A op \in Operators : ae[op] # NULL => ae[op].op = op

Complete ==
  \A op \in Operators :
    phase[op] = "ready" /\ ~Updating(op) =>
      ae[op] \in live /\ ae[op] # NULL /\ cas[op] = ae[op] /\ ae[op].file \in installDir[op]

(* A document stays with the engine and the CAS it has begun with.         *)
Begun ==
  controlPortDefined =>
    \A t \in DocumentThreads :
      ~At(t, "idle") /\ phase[Op(t)] = "ready" =>
        /\ thread[t].text = cas[Op(t)]
        /\ At(t, "processed") => thread[t].engine = ae[Op(t)]

IInv == TypeOK /\ AtWork /\ AfterStart /\ Locked /\ Owned /\ Complete /\ Begun
-----------------------------------------------------------------------------
(* At the start every thread is idle and no operator is ready.             *)
LEMMA InitIInv == Init => IInv
<1> SUFFICES ASSUME Init PROVE IInv
  OBVIOUS
<1> USE UimaAssumption DEF Init
<1>1. TypeOK
  BY DEF TypeOK, ThreadSet, Steps, Idle, Threads, EngineSet
<1>2. AtWork
  BY DEF AtWork, At, Op, Idle, Threads
<1>3. AfterStart
  BY DEF AfterStart, At, Idle
<1>4. Locked
  BY DEF Locked, At, Idle, Threads
<1>5. Owned /\ Complete
  BY DEF Owned, Complete
<1>6. Begun
  BY DEF Begun, At, Idle, Threads
<1>7. QED
  BY <1>1, <1>2, <1>3, <1>4, <1>5, <1>6 DEF IInv

(* Before all operators are initialized every thread is idle.              *)
LEMMA Quiet ==
  ASSUME IInv, ~AllReady
  PROVE  \A t \in Threads : At(t, "idle") /\ Op(t) = NULL
BY DEF IInv, AfterStart, AtWork

(* The context checks change the static field, while nobody is at work.    *)
LEMMA CheckStep ==
  ASSUME IInv, NEW op \in Operators, checkParameters(op)
  PROVE  IInv'
<1> USE UimaAssumption DEF checkParameters, settings, engines, inputs, history
<1>1. \A t \in Threads : At(t, "idle") /\ Op(t) = NULL
  <2>1. ~AllReady
    BY DEF AllReady
  <2>2. QED
    BY <2>1, Quiet
<1>2. TypeOK'
  BY DEF IInv, TypeOK
<1>3. AtWork'
  BY DEF IInv, AtWork, At, Op
<1>4. AfterStart' /\ Locked' /\ Begun'
  BY <1>1 DEF AfterStart, Locked, Begun, At, Op, Threads
<1>5. Owned'
  BY DEF IInv, Owned
<1>6. Complete'
  BY DEF IInv, TypeOK, Complete, Updating, Op
<1>7. QED
  BY <1>2, <1>3, <1>4, <1>5, <1>6 DEF IInv

(* initialize() gives its operator a complete engine.                      *)
LEMMA InitializeStep ==
  ASSUME IInv, NEW op \in Operators, initialize(op)
  PROVE  IInv'
<1> USE UimaAssumption
<1>1. \A t \in Threads : At(t, "idle") /\ Op(t) = NULL
  <2>1. ~AllReady
    BY DEF AllReady, initialize
  <2>2. QED
    BY <2>1, Quiet
<1>2. PICK file \in {f \in Files : defect[f] = "none"} :
        LET e == Engine(op, file, TRUE)
        IN  /\ pearFile' = [pearFile EXCEPT ![op] = file]
            /\ initialPearFile' = [initialPearFile EXCEPT
                                     ![op] = IF controlPortDefined THEN file ELSE @]
            /\ instPear' = [instPear EXCEPT ![op] = file]
            /\ installDir' = [installDir EXCEPT ![op] = @ \union {file}]
            /\ ae' = [ae EXCEPT ![op] = e] /\ cas' = [cas EXCEPT ![op] = e]
            /\ live' = live \union {e} /\ made' = made + 1
  BY DEF initialize
<1> DEFINE e == Engine(op, file, TRUE)
<1>3. e \in EngineSet /\ e.op = op /\ e.file = file
  BY DEF Engine, EngineSet, IInv, TypeOK
<1>4. UNCHANGED <<controlPortDefined, updateLock, thread>> /\ phase' = [phase EXCEPT ![op] = "ready"]
  BY DEF initialize
<1> HIDE DEF e
<1>5. TypeOK'
  <2>1. ae' = [ae EXCEPT ![op] = e] /\ cas' = [cas EXCEPT ![op] = e] /\ live' = live \union {e}
    BY <1>2 DEF e
  <2>2. (IF controlPortDefined THEN file ELSE initialPearFile[op]) \in Files \union {NULL}
    BY DEF IInv, TypeOK
  <2>3. initialPearFile' \in [Operators -> Files \union {NULL}]
    BY <1>2, <2>2 DEF IInv, TypeOK
  <2>4. /\ made' \in Nat /\ installDir' \in [Operators -> SUBSET Files]
        /\ pearFile' \in [Operators -> Files \union {NULL}]
        /\ instPear' \in [Operators -> Files \union {NULL}]
    BY <1>2 DEF IInv, TypeOK
  <2>5. /\ live' \subseteq EngineSet
        /\ ae' \in [Operators -> EngineSet \union {NULL}]
        /\ cas' \in [Operators -> EngineSet \union {NULL}]
    BY <1>3, <2>1 DEF IInv, TypeOK
  <2>6. QED
    BY <1>4, <2>3, <2>4, <2>5 DEF IInv, TypeOK
<1>6. AtWork'
  BY <1>4 DEF IInv, AtWork, At, Op
<1>7. AfterStart' /\ Locked' /\ Begun'
  BY <1>1, <1>4 DEF AfterStart, Locked, Begun, At, Op, Threads
<1>8. Owned'
  BY <1>2, <1>3, <1>4 DEF IInv, TypeOK, Owned, e
<1>9. Complete'
  BY <1>2, <1>3, <1>4 DEF IInv, TypeOK, Complete, Updating, Op, e
<1>10. QED
  BY <1>5, <1>6, <1>7, <1>8, <1>9 DEF IInv

(* What a step that leaves the operators alone has to show.                *)
LEMMA ThreadStep ==
  ASSUME IInv, UNCHANGED <<controlPortDefined, phase, installDir, engines>>,
         TypeOK', AtWork', AfterStart', Locked', Begun',
         \A op \in Operators : Updating(op) => Updating(op)'
  PROVE  IInv'
BY DEF IInv, Owned, Complete, engines

(* A document begins: it takes the lock, unless there is no control port.  *)
LEMMA PutStep ==
  ASSUME IInv, NEW t \in DocumentThreads, NEW op \in Operators, PutDocument(t, op)
  PROVE  IInv'
<1> USE UimaAssumption DEF settings, engines, inputs, history
<1> DEFINE new == [Idle EXCEPT !.at = "text", !.op = op, !.text = cas[op]]
<1>1. /\ new.at = "text" /\ new.op = op /\ new.text = cas[op]
      /\ new \in ThreadSet
  BY DEF IInv, TypeOK, ThreadSet, Steps, Idle
<1>2. /\ thread' = [thread EXCEPT ![t] = new] /\ Serves(op)
      /\ TakesLock => updateLock[op] = NULL
      /\ updateLock' = IF TakesLock THEN [updateLock EXCEPT ![op] = t] ELSE updateLock
      /\ UNCHANGED <<controlPortDefined, phase, pearFile, initialPearFile, instPear, installDir, engines>>
  BY DEF PutDocument
<1> HIDE DEF new
<1>3. TypeOK'
  BY <1>1, <1>2 DEF IInv, TypeOK, Threads
<1>4. AtWork'
  BY <1>1, <1>2 DEF IInv, TypeOK, AtWork, At, Op, Threads
<1>5. AfterStart'
  BY <1>2 DEF AfterStart, Serves, AllReady
<1>6. Locked'
  <2>1. \A u \in Threads : updateLock[Op(u)] = u /\ u # t /\ Op(u) \in Operators => updateLock'[Op(u)] = u
    BY <1>2 DEF IInv, TypeOK, Threads
  <2>2. \A u \in Threads : ~At(u, "idle") => Op(u) \in Operators
    BY DEF IInv, TypeOK, AtWork, ThreadSet, Op
  <2>3. \A u \in Threads \ {t} : thread'[u] = thread[u]
    BY <1>2 DEF IInv, TypeOK
  <2>4. controlPortDefined => updateLock'[op] = t
    BY <1>2 DEF IInv, TypeOK, TakesLock
  <2>5. thread'[t].op = op
    BY <1>1, <1>2 DEF IInv, TypeOK, Threads
  <2>6. QED
    BY <1>2, <2>1, <2>2, <2>3, <2>4, <2>5 DEF IInv, Locked, At, Op, Threads
<1>7. Begun'
  BY <1>1, <1>2 DEF IInv, TypeOK, Begun, At, Op, Threads
<1>8. \A o \in Operators : Updating(o) => Updating(o)'
  BY <1>2 DEF IInv, TypeOK, Updating, Op, Threads
<1>9. QED
  BY <1>2, <1>3, <1>4, <1>5, <1>6, <1>7, <1>8, ThreadStep
(* The engine processes the document, or there is none and the PE ends.    *)
LEMMA ProcessStep ==
  ASSUME IInv, NEW t \in DocumentThreads, ProcessDocument(t)
  PROVE  IInv'
<1> USE UimaAssumption DEF settings, engines, inputs, history
<1>1. CASE ae[Op(t)] = NULL
  <2>1. UNCHANGED <<controlPortDefined, phase, settings, installDir, engines, updateLock, thread>>
    BY <1>1 DEF ProcessDocument
  <2>2. QED
    BY <2>1 DEF IInv, TypeOK, AtWork, AfterStart, AllReady, Locked, Owned, Complete, Begun,
                At, Op, Updating
<1>2. CASE ae[Op(t)] # NULL
  <2>1. /\ thread' = [thread EXCEPT ![t].at = "processed", ![t].engine = ae[Op(t)]]
        /\ At(t, "text")
        /\ UNCHANGED <<controlPortDefined, phase, settings, installDir, engines, updateLock>>
    BY <1>2 DEF ProcessDocument
  <2>2. Op(t) \in Operators /\ t \in Threads
    BY <2>1 DEF IInv, TypeOK, AtWork, ThreadSet, Op, At, Threads
  <2>3. /\ \A u \in Threads : Op(u)' = Op(u) /\ (At(u, "idle") <=> At(u, "idle")')
        /\ \A u \in Threads \ {t} : thread'[u] = thread[u]
        /\ thread'[t].text = thread[t].text /\ thread'[t].engine = ae[Op(t)]
        /\ thread'[t].at = "processed"
    BY <2>1, <2>2 DEF IInv, TypeOK, ThreadSet, Op, At
  <2>4. TypeOK'
    <3>a. thread[t] \in ThreadSet /\ ae[Op(t)] \in EngineSet \union {NULL}
      BY <2>2 DEF IInv, TypeOK
    <3>b. thread'[t] = [thread[t] EXCEPT !.at = "processed", !.engine = ae[Op(t)]]
      BY <2>1, <2>2 DEF IInv, TypeOK
    <3>1. thread'[t] \in ThreadSet
      BY <3>a, <3>b DEF ThreadSet, Steps
    <3>2. QED
      BY <2>1, <3>1 DEF IInv, TypeOK
  <2>5. AtWork'
    BY <2>3 DEF IInv, AtWork, Threads
  <2>6. AfterStart' /\ Locked'
    BY <2>1, <2>3 DEF IInv, AfterStart, AllReady, Locked, Threads
  <2>7. Begun'
    <3>1. \A u \in DocumentThreads : Op(u)' = Op(u) /\ thread'[u].text = thread[u].text
      BY <2>3 DEF Threads
    <3>2. \A u \in DocumentThreads \ {t} : At(u, "processed")' => At(u, "processed") /\ thread'[u].engine = thread[u].engine
      BY <2>3 DEF Threads, At
    <3>3. QED
      BY <2>1, <2>3, <3>1, <3>2 DEF IInv, Begun, Threads
  <2>8. \A o \in Operators : Updating(o) => Updating(o)'
    BY <2>3 DEF Updating, Threads
  <2>9. QED
    BY <2>1, <2>4, <2>5, <2>6, <2>7, <2>8, ThreadStep
<1>3. QED
  BY <1>1, <1>2

(* Nobody else can hold the lock a thread releases.                        *)
LEMMA ReleaseLock ==
  ASSUME IInv, NEW t \in Threads, ~At(t, "idle"),
         updateLock' = Released(t), thread' = [thread EXCEPT ![t] = Idle],
         UNCHANGED <<controlPortDefined, phase>>
  PROVE  /\ updateLock' \in [Operators -> Threads \union {NULL}]
         /\ thread' \in [Threads -> ThreadSet]
         /\ AtWork' /\ AfterStart' /\ Locked'
         /\ \A u \in Threads \ {t} : thread'[u] = thread[u]
         /\ Op(t)' = NULL /\ At(t, "idle")'
<1> USE UimaAssumption
<1>1. Op(t) \in Operators
  BY DEF IInv, TypeOK, AtWork, ThreadSet, Op, Threads
<1>2. updateLock' \in [Operators -> Threads \union {NULL}]
  BY <1>1 DEF IInv, TypeOK, Released
<1>3. Idle \in ThreadSet /\ Idle.op = NULL /\ Idle.at = "idle"
  BY DEF Idle, ThreadSet, Steps
<1>4. /\ thread' \in [Threads -> ThreadSet]
      /\ \A u \in Threads \ {t} : thread'[u] = thread[u]
      /\ Op(t)' = NULL /\ At(t, "idle")'
  BY <1>3 DEF IInv, TypeOK, Op, At
<1>5. AtWork'
  BY <1>4 DEF IInv, AtWork, At, Op, Threads
<1>6. AfterStart'
  BY <1>4 DEF IInv, AfterStart, AllReady, At
<1>7. Locked'
  <2>1. \A u \in Threads \ {t} : ~At(u, "idle") => Op(u) \in Operators
    BY DEF IInv, TypeOK, AtWork, ThreadSet, Op, Threads
  <2>2. \A u \in Threads \ {t} : Op(u) \in Operators /\ updateLock[Op(u)] = u => updateLock'[Op(u)] = u
    BY <1>1 DEF IInv, TypeOK, Released
  <2>3. QED
    BY <1>4, <2>1, <2>2 DEF IInv, Locked, At, Op, Threads
<1>8. QED
  BY <1>2, <1>4, <1>5, <1>6, <1>7

(* A document ends and releases its lock.                                  *)
LEMMA SubmitStep ==
  ASSUME IInv, NEW t \in DocumentThreads, SubmitDocument(t)
  PROVE  IInv'
<1> USE UimaAssumption DEF settings, engines, inputs, history
<1>1. /\ t \in Threads /\ ~At(t, "idle")
      /\ updateLock' = Released(t) /\ thread' = [thread EXCEPT ![t] = Idle]
      /\ UNCHANGED <<controlPortDefined, phase, settings, installDir, engines>>
  BY DEF SubmitDocument, At, Threads
<1>2. /\ AtWork' /\ AfterStart' /\ Locked'
      /\ \A u \in Threads \ {t} : thread'[u] = thread[u]
      /\ At(t, "idle")'
  BY <1>1, ReleaseLock
<1>3. TypeOK'
  BY <1>1, ReleaseLock DEF IInv, TypeOK
<1>4. Begun'
  BY <1>1, <1>2 DEF IInv, Begun, At, Op, Threads
<1>5. \A o \in Operators : Updating(o) => Updating(o)'
  BY <1>2 DEF Updating, Op, Threads
<1>6. QED
  BY <1>1, <1>2, <1>3, <1>4, <1>5, ThreadStep

(* The control tuple sets a name and nothing else.                         *)
LEMMA NameStep ==
  ASSUME IInv, NEW t \in ControlThreads, NEW op \in Operators, NEW file \in Files,
         setPearFilename(t, op, file)
  PROVE  IInv'
<1> USE DEF setPearFilename, engines, inputs, history
<1>1. TypeOK'
  BY DEF IInv, TypeOK
<1>2. QED
  BY <1>1, ThreadStep DEF IInv, AtWork, AfterStart, AllReady, Locked, Begun, At, Op, Updating
-----------------------------------------------------------------------------
(* Port 1.                                                                 *)

(* Destroying an engine leaves those of other operators.                   *)
LEMMA OthersLive ==
  ASSUME IInv, NEW op \in Operators, destroyAnalysisEngine(op)
  PROVE  /\ Owned'
         /\ \A o \in Operators \ {op} : ae'[o] = ae[o] /\ (ae[o] \in live /\ ae[o] # NULL => ae[o] \in live')
         /\ ae' \in [Operators -> EngineSet \union {NULL}] /\ live' \subseteq EngineSet
BY DEF IInv, TypeOK, Owned, destroyAnalysisEngine

(* The update takes the lock, so no document is at work for the operator.  *)
LEMMA PunctuationStep ==
  ASSUME IInv, NEW t \in ControlThreads, NEW op \in Operators, Punctuation(t, op)
  PROVE  IInv'
<1> USE UimaAssumption DEF settings
<1> DEFINE new == [Idle EXCEPT !.at = "uninstall", !.op = op]
<1>1. /\ new \in ThreadSet /\ new.at = "uninstall" /\ new.op = op
  BY DEF ThreadSet, Steps, Idle
<1>2. /\ Serves(op) /\ At(t, "idle") /\ updateLock[op] = NULL
      /\ updateLock' = [updateLock EXCEPT ![op] = t]
      /\ thread' = [thread EXCEPT ![t] = new]
      /\ destroyAnalysisEngine(op)
      /\ UNCHANGED <<controlPortDefined, phase, pearFile, initialPearFile, instPear, installDir>>
      /\ UNCHANGED <<cas, made>>
  BY DEF Punctuation, destroyAnalysisEngine
<1> HIDE DEF new
<1>3. /\ t \in Threads /\ thread'[t] = new
      /\ \A u \in Threads \ {t} : thread'[u] = thread[u]
  BY <1>2 DEF IInv, TypeOK, Threads
<1>4. TypeOK'
  BY <1>1, <1>2, <1>3, OthersLive DEF IInv, TypeOK
<1>5. AtWork'
  BY <1>1, <1>3 DEF IInv, AtWork, At, Op, Threads
<1>6. AfterStart'
  BY <1>2 DEF AfterStart, Serves, AllReady
<1>7. Locked'
  <2>1. \A u \in Threads \ {t} : ~At(u, "idle") => Op(u) \in Operators
    BY DEF IInv, TypeOK, AtWork, ThreadSet, Op
  <2>2. \A u \in Threads \ {t} : Op(u) \in Operators /\ updateLock[Op(u)] = u => updateLock'[Op(u)] = u
    <3>1. updateLock' = [updateLock EXCEPT ![op] = t] /\ updateLock[op] = NULL
      BY <1>2
    <3>2. updateLock \in [Operators -> Threads \union {NULL}]
      BY DEF IInv, TypeOK
    <3>3. QED
      BY <3>1, <3>2 DEF Threads
  <2>3. updateLock'[op] = t
    BY <1>2 DEF IInv, TypeOK
  <2>4. QED
    BY <1>1, <1>2, <1>3, <2>1, <2>2, <2>3 DEF IInv, Locked, At, Op, Threads
<1>8. Complete'
  <2>1. \A o \in Operators : Updating(o)' <=> (Updating(o) \/ o = op)
    BY <1>1, <1>2, <1>3 DEF Updating, Op, At, Threads, IInv, AtWork
  <2>2. QED
    BY <1>2, <2>1, OthersLive DEF IInv, Complete
<1>9. Begun'
  <2>1. controlPortDefined => \A u \in DocumentThreads : ~At(u, "idle") => Op(u) \in Operators \ {op}
    BY <1>2 DEF IInv, TypeOK, Locked, AtWork, ThreadSet, Op, Threads
  <2>2. \A u \in DocumentThreads : thread'[u] = thread[u]
    BY <1>3 DEF Threads
  <2>3. \A o \in Operators \ {op} : ae'[o] = ae[o]
    BY <1>2, OthersLive
  <2>4. QED
    BY <1>2, <2>1, <2>2, <2>3 DEF IInv, Begun, At, Op
<1>10. QED
  BY <1>2, <1>4, <1>5, <1>6, <1>7, <1>8, <1>9, OthersLive DEF IInv

(* What a thread has to show that goes on with the update it is at: the    *)
(* lock is its own, and nobody is at work for that operator but itself.    *)
LEMMA Alone ==
  ASSUME IInv, NEW t \in ControlThreads, ~At(t, "idle")
  PROVE  /\ t \in Threads /\ Op(t) \in Operators /\ Updating(Op(t)) /\ updateLock[Op(t)] = t
         /\ \A u \in ControlThreads \ {t} : Op(u) # Op(t)
         /\ controlPortDefined => \A u \in DocumentThreads : Op(u) # Op(t)
<1> USE UimaAssumption
<1>1. t \in Threads /\ Op(t) \in Operators /\ Updating(Op(t)) /\ updateLock[Op(t)] = t
  BY DEF IInv, TypeOK, AtWork, ThreadSet, Op, Threads, Updating, Locked
<1>2. \A u \in Threads : At(u, "idle") => Op(u) # Op(t)
  BY <1>1 DEF IInv, AtWork
<1>3. QED
  BY <1>1, <1>2 DEF IInv, Locked, Threads

(* An update goes on: it has changed things of its operator only, and      *)
(* either its thread is still at it or the engine is complete.             *)
LEMMA UpdateStep ==
  ASSUME IInv, NEW t \in ControlThreads, ~At(t, "idle"),
         UNCHANGED <<controlPortDefined, phase>>,
         TypeOK', AtWork', AfterStart', Locked',
         \A u \in Threads \ {t} : thread'[u] = thread[u],
         \A o \in Operators \ {Op(t)} :
           ae'[o] = ae[o] /\ cas'[o] = cas[o] /\ installDir'[o] = installDir[o],
         live \subseteq live',
         ae'[Op(t)] # NULL => ae'[Op(t)].op = Op(t),
         \/ Op(t)' = Op(t)
         \/ /\ ae'[Op(t)] \in live' /\ ae'[Op(t)] # NULL /\ cas'[Op(t)] = ae'[Op(t)]
            /\ ae'[Op(t)].file \in installDir'[Op(t)]
  PROVE  IInv'
<1> USE UimaAssumption
<1> DEFINE op == Op(t)
<1>1. op \in Operators /\ t \in Threads
  BY Alone
<1>2. Owned'
  BY <1>1 DEF IInv, Owned
<1>3. Complete'
  <2>1. \A o \in Operators \ {op} : Updating(o) => Updating(o)'
    BY DEF Updating, Op, Threads
  <2>2. Op(t)' = op => Updating(op)'
    BY DEF Updating
  <2>3. QED
    BY <1>1, <2>1, <2>2 DEF IInv, Complete
<1>4. Begun'
  <2>1. \A u \in DocumentThreads : thread'[u] = thread[u]
    BY DEF Threads
  <2>2. controlPortDefined => \A u \in DocumentThreads : ~At(u, "idle") => Op(u) \in Operators \ {op}
    BY Alone DEF IInv, TypeOK, AtWork, ThreadSet, Op, Threads
  <2>3. QED
    BY <2>1, <2>2 DEF IInv, Begun, At, Op
<1>5. QED
  BY <1>2, <1>3, <1>4 DEF IInv

(* A record of a thread, changed in two of its fields.                     *)
LEMMA NextStep ==
  ASSUME NEW r \in ThreadSet, NEW at \in Steps, NEW second \in BOOLEAN
  PROVE  LET n == [r EXCEPT !.at = at, !.second = second]
         IN  n \in ThreadSet /\ n.op = r.op /\ n.at = at
BY Zenon DEF ThreadSet

(* A thread that goes to its next step, still for the same operator.       *)
LEMMA OnwardStep ==
  ASSUME IInv, NEW t \in ControlThreads, ~At(t, "idle"),
         NEW at \in {"install", "prepare"}, NEW second \in BOOLEAN,
         thread' = [thread EXCEPT ![t].at = at, ![t].second = second],
         UNCHANGED <<controlPortDefined, phase, updateLock>>
  PROVE  /\ thread' \in [Threads -> ThreadSet]
         /\ AtWork' /\ AfterStart' /\ Locked'
         /\ \A u \in Threads \ {t} : thread'[u] = thread[u]
         /\ Op(t)' = Op(t)
<1>1. t \in Threads /\ thread[t] \in ThreadSet
  BY DEF IInv, TypeOK, Threads
<1>2. thread'[t] = [thread[t] EXCEPT !.at = at, !.second = second]
  BY <1>1 DEF IInv, TypeOK
<1>3. thread'[t] \in ThreadSet /\ thread'[t].op = thread[t].op /\ thread'[t].at = at
  <2> DEFINE n == [thread[t] EXCEPT !.at = at, !.second = second]
  <2>1. at \in Steps
    BY DEF Steps
  <2>2. n \in ThreadSet /\ n.op = thread[t].op /\ n.at = at
    BY <1>1, <2>1, NextStep
  <2> HIDE DEF n
  <2>3. thread'[t] = n
    BY <1>2 DEF n
  <2>4. QED
    BY <2>2, <2>3
<1> USE UimaAssumption
<1>4. /\ thread' \in [Threads -> ThreadSet] /\ Op(t)' = Op(t)
      /\ \A u \in Threads \ {t} : thread'[u] = thread[u]
  BY <1>1, <1>3 DEF IInv, TypeOK, Op
<1>5. AtWork'
  BY <1>3, <1>4 DEF IInv, AtWork, At, Op, Threads
<1>6. AfterStart' /\ Locked'
  BY <1>3, <1>4 DEF IInv, AfterStart, AllReady, Locked, At, Op, Threads
<1>7. QED
  BY <1>4, <1>5, <1>6
(* The directory is emptied while the update holds the lock.               *)
LEMMA UninstallStep ==
  ASSUME IInv, NEW t \in ControlThreads, Uninstall(t)
  PROVE  IInv'
<1> USE UimaAssumption DEF settings, engines, inputs, history
<1>1. ~At(t, "idle") /\ t \in Threads
  BY DEF Uninstall, At, Threads
<1>2. Op(t) \in Operators
  BY <1>1, Alone
<1>3. /\ thread' = [thread EXCEPT ![t].at = "install"]
      /\ installDir' = [installDir EXCEPT ![Op(t)] = {}]
      /\ UNCHANGED <<controlPortDefined, phase, settings, engines, updateLock>>
  BY DEF Uninstall, uninstallPearFile, GoTo
<1>4. thread' = [thread EXCEPT ![t].at = "install", ![t].second = thread[t].second]
                /\ thread[t].second \in BOOLEAN
  BY <1>1, <1>3 DEF IInv, TypeOK, ThreadSet
<1>5. /\ thread' \in [Threads -> ThreadSet] /\ AtWork' /\ AfterStart' /\ Locked'
      /\ \A u \in Threads \ {t} : thread'[u] = thread[u]
      /\ Op(t)' = Op(t)
  BY <1>1, <1>3, <1>4, OnwardStep
<1>6. TypeOK'
  BY <1>2, <1>3, <1>5 DEF IInv, TypeOK
<1>7. QED
  BY <1>1, <1>2, <1>3, <1>5, <1>6, UpdateStep DEF IInv, TypeOK, Owned

(* A failed load leaves the update at its second attempt, or where it is.  *)
LEMMA FailedStep ==
  ASSUME IInv, NEW t \in ControlThreads, ~At(t, "idle"), NEW file, LoadFails(t, file),
         UNCHANGED <<controlPortDefined, phase, updateLock>>
  PROVE  /\ thread' \in [Threads -> ThreadSet]
         /\ pearFile' \in [Operators -> Files \union {NULL}]
         /\ AtWork' /\ AfterStart' /\ Locked'
         /\ \A u \in Threads \ {t} : thread'[u] = thread[u]
         /\ Op(t)' = Op(t)
<1> USE UimaAssumption
<1>1. CASE ~thread[t].second
  <2>1. thread' = [thread EXCEPT ![t].at = "install", ![t].second = TRUE]
    BY <1>1 DEF LoadFails
  <2>2. pearFile' \in [Operators -> Files \union {NULL}]
    BY <1>1, Alone DEF LoadFails, IInv, TypeOK
  <2>3. QED
    BY <2>1, <2>2, OnwardStep
<1>2. CASE thread[t].second
  <2>1. UNCHANGED <<pearFile, thread>>
    BY <1>2 DEF LoadFails
  <2>2. QED
    BY <2>1 DEF IInv, TypeOK, AtWork, AfterStart, AllReady, Locked, At, Op
<1>3. QED
  BY <1>1, <1>2

(* An installation changes the directory of its own operator.              *)
LEMMA InstallStep ==
  ASSUME IInv, NEW t \in ControlThreads, installPearFile(t)
  PROVE  IInv'
<1> USE UimaAssumption DEF engines, inputs
<1> DEFINE file == pearFile[Op(t)]
<1>1. /\ ~At(t, "idle") /\ t \in Threads
      /\ UNCHANGED <<controlPortDefined, phase, initialPearFile, engines, updateLock>>
  BY DEF installPearFile, At, Threads
<1>2. Op(t) \in Operators
  BY <1>1, Alone
<1>3. CASE Passes(file, "install")
  <2>1. /\ instPear' = [instPear EXCEPT ![Op(t)] = file]
        /\ installDir' = [installDir EXCEPT ![Op(t)] = @ \union {file}]
        /\ thread' = [thread EXCEPT ![t].at = "prepare"]
        /\ pearFile' = pearFile
    BY <1>3 DEF installPearFile, GoTo
  <2>2. thread' = [thread EXCEPT ![t].at = "prepare", ![t].second = thread[t].second]
                  /\ thread[t].second \in BOOLEAN
    BY <1>1, <2>1 DEF IInv, TypeOK, ThreadSet
  <2>3. /\ thread' \in [Threads -> ThreadSet] /\ AtWork' /\ AfterStart' /\ Locked'
        /\ \A u \in Threads \ {t} : thread'[u] = thread[u]
        /\ Op(t)' = Op(t)
    BY <1>1, <2>2, OnwardStep
  <2>4. file \in Files
    BY <1>2, <1>3 DEF Passes, IInv, TypeOK
  <2>5. TypeOK'
    BY <1>1, <1>2, <2>1, <2>3, <2>4 DEF IInv, TypeOK
  <2>6. QED
    BY <1>1, <1>2, <2>1, <2>3, <2>5, UpdateStep DEF IInv, TypeOK, Owned
<1>4. CASE ~Passes(file, "install")
  <2>1. LoadFails(t, file) /\ UNCHANGED <<instPear, installDir>>
    BY <1>4 DEF installPearFile
  <2>2. /\ thread' \in [Threads -> ThreadSet] /\ AtWork' /\ AfterStart' /\ Locked'
        /\ pearFile' \in [Operators -> Files \union {NULL}]
        /\ \A u \in Threads \ {t} : thread'[u] = thread[u]
        /\ Op(t)' = Op(t)
    BY <1>1, <2>1, FailedStep
  <2>3. TypeOK'
    BY <1>1, <2>1, <2>2 DEF IInv, TypeOK
  <2>4. QED
    BY <1>1, <1>2, <2>1, <2>2, <2>3, UpdateStep DEF IInv, Owned
<1>5. QED
  BY <1>3, <1>4

(* The update makes an engine and a CAS and ends, or fails and goes on.    *)
LEMMA PrepareStep ==
  ASSUME IInv, NEW t \in ControlThreads, prepareAnalysisEngine(t)
  PROVE  IInv'
<1> USE UimaAssumption DEF inputs
<1> DEFINE op   == Op(t)
           file == instPear[op]
           e    == Engine(op, file, Passes(file, "cas"))
           produced == file \in installDir[op] /\ Passes(file, "engine")
<1>1. /\ ~At(t, "idle") /\ t \in Threads
      /\ UNCHANGED <<controlPortDefined, phase, initialPearFile, instPear, installDir>>
  BY DEF prepareAnalysisEngine, At, Threads
<1>2. op \in Operators
  BY <1>1, Alone
<1>3. produced => e \in EngineSet /\ e.op = op /\ e.file = file
  BY <1>2 DEF IInv, TypeOK, Engine, EngineSet, Passes
<1>4. /\ \/ /\ produced
            /\ ae' = [ae EXCEPT ![op] = e]
            /\ live' = live \union {e} /\ made' = made + 1
         \/ ~produced /\ UNCHANGED <<ae, live, made>>
      /\ \/ /\ produced /\ e.hasCas
            /\ cas' = [cas EXCEPT ![op] = e]
            /\ updateLock' = Released(t)
            /\ thread' = [thread EXCEPT ![t] = Idle]
            /\ pearFile' = pearFile
         \/ /\ ~(produced /\ e.hasCas)
            /\ LoadFails(t, file)
            /\ UNCHANGED <<cas, updateLock>>
  BY DEF prepareAnalysisEngine
<1> HIDE DEF e, produced
<1>5. /\ ae' \in [Operators -> EngineSet \union {NULL}]
      /\ live' \subseteq EngineSet /\ live \subseteq live' /\ made' \in Nat
      /\ \A o \in Operators \ {op} : ae'[o] = ae[o]
      /\ ae'[op] # NULL => ae'[op].op = op
  BY <1>2, <1>3, <1>4 DEF IInv, TypeOK, Owned
<1>6. CASE produced /\ e.hasCas
  <2>1. /\ ae'[op] = e /\ cas'[op] = e /\ e \in live' /\ e # NULL
        /\ cas' \in [Operators -> EngineSet \union {NULL}]
        /\ \A o \in Operators \ {op} : cas'[o] = cas[o]
    BY <1>2, <1>3, <1>4, <1>6 DEF IInv, TypeOK
  <2>2. /\ updateLock' = Released(t) /\ thread' = [thread EXCEPT ![t] = Idle] /\ pearFile' = pearFile
    BY <1>4, <1>6
  <2>3. /\ updateLock' \in [Operators -> Threads \union {NULL}]
        /\ thread' \in [Threads -> ThreadSet] /\ AtWork' /\ AfterStart' /\ Locked'
        /\ \A u \in Threads \ {t} : thread'[u] = thread[u]
    BY <1>1, <2>2, ReleaseLock
  <2>4. e.file \in installDir'[op]
    BY <1>1, <1>3, <1>6 DEF produced
  <2>5. TypeOK'
    BY <1>1, <1>5, <2>1, <2>2, <2>3 DEF IInv, TypeOK
  <2>6. QED
    BY <1>1, <1>5, <2>1, <2>3, <2>4, <2>5, UpdateStep
<1>7. CASE ~(produced /\ e.hasCas)
  <2>1. LoadFails(t, file) /\ UNCHANGED <<cas, updateLock>>
    BY <1>4, <1>7
  <2>2. /\ thread' \in [Threads -> ThreadSet] /\ AtWork' /\ AfterStart' /\ Locked'
        /\ pearFile' \in [Operators -> Files \union {NULL}]
        /\ \A u \in Threads \ {t} : thread'[u] = thread[u]
        /\ Op(t)' = Op(t)
    BY <1>1, <2>1, FailedStep
  <2>3. TypeOK'
    BY <1>1, <1>5, <2>1, <2>2 DEF IInv, TypeOK
  <2>4. QED
    BY <1>1, <1>5, <2>1, <2>2, <2>3, UpdateStep
<1>8. QED
  BY <1>6, <1>7

-----------------------------------------------------------------------------
(* The shutdown.                                                           *)

(* After the first step of shutdown() the operator is not ready any more.  *)
LEMMA EngineStep ==
  ASSUME IInv, NEW op \in Operators, ShutdownEngine(op)
  PROVE  IInv'
<1> USE UimaAssumption DEF settings, inputs
<1>1. /\ destroyAnalysisEngine(op) /\ phase[op] = "ready"
      /\ phase' = [phase EXCEPT ![op] = "destroyed"]
      /\ UNCHANGED <<controlPortDefined, settings, installDir, updateLock, thread, cas, made>>
  BY DEF ShutdownEngine, destroyAnalysisEngine
<1>2. TypeOK'
  BY <1>1, OthersLive DEF IInv, TypeOK
<1>3. AtWork' /\ Locked'
  BY <1>1 DEF IInv, AtWork, Locked, At, Op
<1>4. AfterStart'
  BY <1>1 DEF IInv, TypeOK, AfterStart, AllReady, At
<1>5. Complete' /\ Begun'
  <2>1. \A o \in Operators : phase'[o] = "ready" => o # op /\ phase[o] = "ready"
    BY <1>1 DEF IInv, TypeOK
  <2>2. \A u \in DocumentThreads : ~At(u, "idle") => Op(u) \in Operators
    BY DEF IInv, TypeOK, AtWork, ThreadSet, Op, Threads
  <2>3. QED
    BY <1>1, <2>1, <2>2, OthersLive DEF IInv, Complete, Begun, Updating, At, Op
<1>6. QED
  BY <1>1, <1>2, <1>3, <1>4, <1>5, OthersLive DEF IInv

(* The second step of shutdown() finds it in that state.                   *)
LEMMA DirectoryStep ==
  ASSUME IInv, NEW op \in Operators, ShutdownDirectory(op)
  PROVE  IInv'
<1> USE UimaAssumption DEF settings, engines, inputs, history
<1>1. /\ installDir' = [installDir EXCEPT ![op] = {}] /\ phase[op] = "destroyed"
      /\ phase' = [phase EXCEPT ![op] = "gone"]
      /\ UNCHANGED <<controlPortDefined, settings, engines, updateLock, thread>>
  BY DEF ShutdownDirectory, uninstallPearFile
<1>2. TypeOK'
  BY <1>1 DEF IInv, TypeOK
<1>3. AtWork' /\ Locked' /\ Owned'
  BY <1>1 DEF IInv, AtWork, Locked, Owned, At, Op
<1>4. AfterStart'
  BY <1>1 DEF IInv, TypeOK, AfterStart, AllReady, At
<1>5. Complete' /\ Begun'
  <2>1. \A o \in Operators : phase'[o] = "ready" => o # op /\ phase[o] = "ready"
    BY <1>1 DEF IInv, TypeOK
  <2>2. \A u \in DocumentThreads : ~At(u, "idle") => Op(u) \in Operators
    BY DEF IInv, TypeOK, AtWork, ThreadSet, Op, Threads
  <2>3. \A o \in Operators \ {op} : installDir'[o] = installDir[o]
    BY <1>1 DEF IInv, TypeOK
  <2>4. QED
    BY <1>1, <2>1, <2>2, <2>3 DEF IInv, Complete, Begun, Updating, At, Op
<1>6. QED
  BY <1>2, <1>3, <1>4, <1>5 DEF IInv

-----------------------------------------------------------------------------
(* Nothing the invariant is about has changed.                             *)
LEMMA StutterStep ==
  ASSUME IInv, UNCHANGED <<controlPortDefined, phase, settings, installDir, engines, updateLock, thread>>
  PROVE  IInv'
BY DEF IInv, TypeOK, AtWork, AfterStart, AllReady, Locked, Owned, Complete, Begun,
       At, Op, Updating, settings, engines

(* Every step keeps the invariant.                                         *)
LEMMA NextIInv == IInv /\ [Next]_vars => IInv'
<1> SUFFICES ASSUME IInv, [Next]_vars PROVE IInv'
  OBVIOUS
<1>1. CASE StopPE
  BY <1>1, StutterStep DEF StopPE
<1>2. ASSUME NEW op \in Operators,
             checkParameters(op) \/ initialize(op) \/ ShutdownEngine(op) \/ ShutdownDirectory(op)
      PROVE  IInv'
  BY <1>2, CheckStep, InitializeStep, EngineStep, DirectoryStep
<1>3. ASSUME NEW t \in DocumentThreads,
             ProcessDocument(t) \/ SubmitDocument(t) \/ \E op \in Operators : PutDocument(t, op)
      PROVE  IInv'
  BY <1>3, ProcessStep, SubmitStep, PutStep
<1>4. ASSUME NEW t \in ControlThreads,
             \/ Uninstall(t) \/ installPearFile(t) \/ prepareAnalysisEngine(t)
             \/ \E op \in Operators : \/ Punctuation(t, op)
                                      \/ \E file \in Files : setPearFilename(t, op, file)
      PROVE  IInv'
  BY <1>4, UninstallStep, InstallStep, PrepareStep, PunctuationStep, NameStep
<1>5. ASSUME NEW file \in Files, NEW d \in Defects, Replace(file, d)
      PROVE  IInv'
  BY <1>5, StutterStep DEF Replace
<1>6. CASE UNCHANGED vars
  BY <1>6, StutterStep DEF vars
<1>7. QED
  BY <1>1, <1>2, <1>3, <1>4, <1>5, <1>6 DEF Next

(* The invariant of the updates holds in every state: the threads at work  *)
(* hold the locks they think they hold, and an operator that is not being  *)
(* updated has a complete engine.                                          *)
THEOREM Inductive == Spec => []IInv
<1>1. Init => IInv
  BY InitIInv
<1>2. IInv /\ [Next]_vars => IInv'
  BY NextIInv
<1>3. QED
  BY <1>1, <1>2, PTL DEF Spec

(* updateLock does what it is there for, for any number of operators,      *)
(* threads, files and documents: a document is alone in the CAS it has     *)
(* begun with, of the engine that processes it, whose files are there.     *)
THEOREM DocumentMeetsOneEngine == Spec => []OneEnginePerDocument
<1>1. IInv => OneEnginePerDocument
  <2> SUFFICES ASSUME IInv, controlPortDefined, NEW t \in DocumentThreads,
                      ~At(t, "idle"), phase[Op(t)] = "ready"
               PROVE  /\ thread[t].text = cas[Op(t)] /\ ae[Op(t)] = cas[Op(t)] /\ ae[Op(t)] \in live
                      /\ ae[Op(t)].file \in installDir[Op(t)]
                      /\ At(t, "processed") => thread[t].engine = ae[Op(t)]
                      /\ \A u \in Threads \ {t} : Op(u) # Op(t)
    BY DEF OneEnginePerDocument
  <2> USE UimaAssumption
  <2>1. Op(t) \in Operators /\ updateLock[Op(t)] = t
    BY DEF IInv, TypeOK, AtWork, ThreadSet, Locked, Op, Threads
  <2>2. \A u \in Threads \ {t} : Op(u) # Op(t)
    BY <2>1 DEF IInv, AtWork, Locked, Threads
  <2>3. ~Updating(Op(t))
    BY <2>2 DEF Updating, Threads
  <2>4. QED
    BY <2>1, <2>2, <2>3 DEF IInv, Complete, Begun
<1>2. QED
  BY <1>1, Inductive, PTL

-----------------------------------------------------------------------------
(* What a shutdown leaves.                                                 *)

(* An operator has at most one engine with a CAS that is not destroyed,    *)
(* the one it works with, and none while it is being updated.              *)
OneComplete ==
  /\ \A e \in live : e.hasCas => ae[e.op] = e
  /\ \A op \in Operators : Updating(op) /\ ae[op] # NULL => ~ae[op].hasCas
  /\ \A op \in Operators : phase[op] \in {"new", "checked"} => ae[op] = NULL

(* After an undisturbed first step of shutdown() nobody makes or installs  *)
(* anything for the operator.                                              *)
ShutDown ==
  \A op \in Operators \ interrupted :
    phase[op] \in {"destroyed", "gone"} =>
      /\ ~Updating(op) /\ ae[op] = NULL
      /\ phase[op] = "gone" => installDir[op] = {}

Leftovers == OneComplete /\ ShutDown

(* A step that makes and destroys no engine, and begins no update.         *)
LEMMA LeftFrame ==
  ASSUME Leftovers, UNCHANGED <<phase, ae, live, interrupted>>,
         \A op \in Operators : Updating(op)' => Updating(op),
         \A op \in Operators : installDir'[op] = installDir[op] \/ Updating(op)
  PROVE  Leftovers'
<1>1. OneComplete'
  BY DEF Leftovers, OneComplete
<1>2. ShutDown'
  BY DEF Leftovers, ShutDown
<1> QED BY <1>1, <1>2 DEF Leftovers

(* The engine of an operator is destroyed, and with it its last CAS.       *)
LEMMA DestroyLeft ==
  ASSUME IInv, Leftovers, NEW op \in Operators, destroyAnalysisEngine(op)
  PROVE  /\ \A e \in live' : e.hasCas => ae'[e.op] = e
         /\ ae'[op] = NULL /\ \A o \in Operators \ {op} : ae'[o] = ae[o]
         /\ \A o \in Operators : ae[o] = NULL => ae'[o] = NULL
<1>1. ae' = [ae EXCEPT ![op] = NULL] /\ live' = live \ {ae[op]}
  BY DEF destroyAnalysisEngine
<1>2. ae \in [Operators -> EngineSet \union {NULL}] /\ live \subseteq EngineSet
  BY DEF IInv, TypeOK
<1>3. ae'[op] = NULL /\ \A o \in Operators \ {op} : ae'[o] = ae[o]
  BY <1>1, <1>2
<1>4. ASSUME NEW e \in live', e.hasCas PROVE ae'[e.op] = e
  <2>1. e \in live /\ e # ae[op] /\ e.op \in Operators
    BY <1>1, <1>2 DEF EngineSet
  <2>2. ae[e.op] = e
    BY <1>4, <2>1 DEF Leftovers, OneComplete
  <2> QED BY <1>3, <2>1, <2>2
<1> QED BY <1>3, <1>4

(* initialize() makes the first engine of its operator.                    *)
LEMMA InitializeLeft ==
  ASSUME IInv, Leftovers, NEW op \in Operators, initialize(op)
  PROVE  Leftovers'
<1>1. \A t \in Threads : Op(t) = NULL
  BY Quiet DEF AllReady, initialize
<1>2. /\ phase[op] = "checked" /\ phase' = [phase EXCEPT ![op] = "ready"]
      /\ UNCHANGED <<thread, interrupted>>
  BY DEF initialize, history
<1>3. PICK file \in Files :
        /\ installDir' = [installDir EXCEPT ![op] = @ \union {file}]
        /\ ae' = [ae EXCEPT ![op] = Engine(op, file, TRUE)]
        /\ live' = live \union {Engine(op, file, TRUE)}
  BY DEF initialize
<1> DEFINE e == Engine(op, file, TRUE)
<1>4. e.op = op /\ ae' = [ae EXCEPT ![op] = e] /\ live' = live \union {e}
  BY <1>3 DEF Engine
<1> HIDE DEF e
<1>5. /\ ae \in [Operators -> EngineSet \union {NULL}] /\ live \subseteq EngineSet
      /\ phase \in [Operators -> {"new", "checked", "ready", "destroyed", "gone"}]
      /\ installDir \in [Operators -> SUBSET Files]
  BY DEF IInv, TypeOK
<1>6. \A o \in Operators : ~Updating(o)'
  BY <1>1, <1>2, UimaAssumption DEF Updating, Op, Threads
<1>7. \A x \in live' : x.hasCas => ae'[x.op] = x
  <2>1. \A x \in live : x.hasCas => x.op \in Operators \ {op}
    BY <1>2, <1>5, UimaAssumption DEF Leftovers, OneComplete, EngineSet
  <2> QED BY <1>4, <1>5, <2>1 DEF Leftovers, OneComplete
<1>8. OneComplete'
  BY <1>2, <1>4, <1>5, <1>6, <1>7 DEF Leftovers, OneComplete
<1>9. ShutDown'
  BY <1>2, <1>3, <1>5, <1>6 DEF Leftovers, ShutDown
<1> QED BY <1>8, <1>9 DEF Leftovers

(* The update destroys the engine before it makes another one.             *)
LEMMA PunctuationLeft ==
  ASSUME IInv, Leftovers, NEW t \in ControlThreads, NEW op \in Operators, Punctuation(t, op)
  PROVE  Leftovers'
<1> USE UimaAssumption
<1>1. /\ phase[op] = "ready" /\ destroyAnalysisEngine(op)
      /\ thread' = [thread EXCEPT ![t] = [Idle EXCEPT !.at = "uninstall", !.op = op]]
      /\ UNCHANGED <<phase, installDir, interrupted>>
  BY DEF Punctuation, Serves
<1>2. thread \in [Threads -> ThreadSet] /\ t \in Threads
  BY DEF IInv, TypeOK, Threads
<1>3. \A o \in Operators : Updating(o)' => Updating(o) \/ o = op
  BY <1>1, <1>2 DEF Updating, Op, Threads, Idle
<1>4. OneComplete'
  BY <1>1, <1>3, DestroyLeft DEF Leftovers, OneComplete
<1>5. ShutDown'
  BY <1>1, <1>3, DestroyLeft DEF Leftovers, ShutDown
<1> QED BY <1>4, <1>5 DEF Leftovers

(* The update makes an engine: there is none of the operator with a CAS.   *)
LEMMA PrepareLeft ==
  ASSUME IInv, Leftovers, NEW t \in ControlThreads, prepareAnalysisEngine(t)
  PROVE  Leftovers'
<1> USE UimaAssumption
<1> DEFINE op   == Op(t)
           file == instPear[op]
           e    == Engine(op, file, Passes(file, "cas"))
           produced == file \in installDir[op] /\ Passes(file, "engine")
<1>1. ~At(t, "idle") /\ UNCHANGED <<phase, installDir, interrupted>>
  BY DEF prepareAnalysisEngine, At
<1>2. op \in Operators /\ Updating(op) /\ t \in Threads
  BY <1>1, Alone
<1>3. /\ \/ /\ produced
            /\ ae' = [ae EXCEPT ![op] = e]
            /\ live' = live \union {e}
         \/ ~produced /\ UNCHANGED <<ae, live>>
      /\ \/ /\ produced /\ e.hasCas
            /\ thread' = [thread EXCEPT ![t] = Idle]
         \/ ~(produced /\ e.hasCas) /\ LoadFails(t, file)
  BY DEF prepareAnalysisEngine
<1>4. e.op = op
  BY DEF Engine
<1> HIDE DEF e, produced
<1>5. /\ ae \in [Operators -> EngineSet \union {NULL}] /\ live \subseteq EngineSet
      /\ thread \in [Threads -> ThreadSet]
  BY DEF IInv, TypeOK
<1>6. \A u \in ControlThreads : Op(u)' = Op(u) \/ (u = t /\ Op(t)' = NULL)
  <2>1. CASE produced /\ e.hasCas
    BY <1>2, <1>3, <1>5, <2>1 DEF Op, Idle, Threads
  <2>2. CASE ~(produced /\ e.hasCas)
    <3>1. \A u \in Threads : thread'[u].op = thread[u].op
      BY <1>2, <1>3, <1>5, <2>2 DEF LoadFails, ThreadSet
    <3> QED BY <3>1 DEF Op, Threads
  <2> QED BY <2>1, <2>2
<1>7. \A o \in Operators : Updating(o)' => Updating(o)
  BY <1>6 DEF Updating
<1>8. \A x \in live : x.hasCas => x.op \in Operators \ {op}
  BY <1>2, <1>5 DEF Leftovers, OneComplete, EngineSet
<1>9. \A x \in live' : x.hasCas => ae'[x.op] = x
  BY <1>2, <1>3, <1>4, <1>5, <1>8 DEF Leftovers, OneComplete
<1>10. \A o \in Operators : Updating(o)' /\ ae'[o] # NULL => ~ae'[o].hasCas
  <2>1. CASE produced /\ e.hasCas
    <3>1. ASSUME NEW o \in Operators, o = op PROVE ~Updating(o)'
      <4>1. \A u \in ControlThreads \ {t} : Op(u) # o
        BY <1>1, <3>1, Alone
      <4>2. Op(t)' = NULL
        BY <1>2, <1>3, <1>5, <2>1 DEF Op, Idle
      <4> QED BY <1>2, <1>6, <4>1, <4>2 DEF Updating
    <3>2. \A o \in Operators \ {op} : ae'[o] = ae[o]
      BY <1>3, <1>5
    <3>3. \A o \in Operators : Updating(o)' => o # op
      BY <3>1
    <3> QED BY <1>7, <3>2, <3>3 DEF Leftovers, OneComplete
  <2>2. CASE ~(produced /\ e.hasCas)
    BY <1>2, <1>3, <1>4, <1>5, <1>7, <2>2 DEF Leftovers, OneComplete
  <2> QED BY <2>1, <2>2
<1>11. OneComplete'
  <2>1. phase[op] \notin {"new", "checked"}
    BY <1>1, <1>2, Quiet DEF AllReady
  <2>2. \A o \in Operators \ {op} : ae'[o] = ae[o]
    BY <1>3, <1>5
  <2> QED BY <1>1, <1>9, <1>10, <2>1, <2>2 DEF Leftovers, OneComplete
<1>12. ShutDown'
  <2>1. \A o \in Operators \ {op} : ae'[o] = ae[o]
    BY <1>3, <1>5
  <2> QED BY <1>1, <1>2, <1>7, <2>1 DEF Leftovers, ShutDown
<1> QED BY <1>11, <1>12 DEF Leftovers

(* The first step of shutdown().                                           *)
LEMMA EngineLeft ==
  ASSUME IInv, Leftovers, NEW op \in Operators, ShutdownEngine(op)
  PROVE  Leftovers'
<1>1. /\ destroyAnalysisEngine(op) /\ phase[op] = "ready"
      /\ phase' = [phase EXCEPT ![op] = "destroyed"]
      /\ interrupted' = IF Updating(op) THEN interrupted \union {op} ELSE interrupted
      /\ UNCHANGED <<installDir, thread>>
  BY DEF ShutdownEngine
<1>2. phase \in [Operators -> {"new", "checked", "ready", "destroyed", "gone"}]
  BY DEF IInv, TypeOK
<1>3. \A o \in Operators : Updating(o)' = Updating(o)
  BY <1>1 DEF Updating, Op
<1>4. OneComplete'
  BY <1>1, <1>2, <1>3, DestroyLeft DEF Leftovers, OneComplete
<1>5. ShutDown'
  BY <1>1, <1>2, <1>3, DestroyLeft DEF Leftovers, ShutDown
<1> QED BY <1>4, <1>5 DEF Leftovers

(* The second step of shutdown(), and the context checks.                  *)
LEMMA PhaseLeft ==
  ASSUME IInv, Leftovers, NEW op \in Operators, ShutdownDirectory(op) \/ checkParameters(op)
  PROVE  Leftovers'
<1>1. /\ phase \in [Operators -> {"new", "checked", "ready", "destroyed", "gone"}]
      /\ installDir \in [Operators -> SUBSET Files]
  BY DEF IInv, TypeOK
<1>2. UNCHANGED <<ae, live, thread, interrupted>>
  BY DEF ShutdownDirectory, checkParameters, engines, history
<1>3. \/ /\ phase[op] = "destroyed" /\ phase' = [phase EXCEPT ![op] = "gone"]
         /\ installDir' = [installDir EXCEPT ![op] = {}]
      \/ /\ phase[op] = "new" /\ phase' = [phase EXCEPT ![op] = "checked"]
         /\ installDir' = installDir
  BY DEF ShutdownDirectory, checkParameters, uninstallPearFile
<1>4. \A o \in Operators : Updating(o)' = Updating(o)
  BY <1>2 DEF Updating, Op
<1>5. OneComplete'
  BY <1>1, <1>2, <1>3, <1>4 DEF Leftovers, OneComplete
<1>6. ShutDown'
  BY <1>1, <1>2, <1>3, <1>4 DEF Leftovers, ShutDown
<1> QED BY <1>5, <1>6 DEF Leftovers

(* The steps of a thread that make no engine, and those of nobody.         *)
LEMMA ThreadLeft ==
  ASSUME IInv, Leftovers,
         \/ StopPE
         \/ \E t \in DocumentThreads : \/ ProcessDocument(t) \/ SubmitDocument(t)
                                       \/ \E op \in Operators : PutDocument(t, op)
         \/ \E t \in ControlThreads : \/ Uninstall(t) \/ installPearFile(t)
                                      \/ \E op \in Operators, file \in Files : setPearFilename(t, op, file)
         \/ \E file \in Files, d \in Defects : Replace(file, d)
         \/ UNCHANGED vars
  PROVE  Leftovers'
<1> USE UimaAssumption DEF settings, engines, inputs, history
<1>1. thread \in [Threads -> ThreadSet] /\ installDir \in [Operators -> SUBSET Files]
  BY DEF IInv, TypeOK
<1>2. CASE \/ StopPE
           \/ \E t \in ControlThreads, op \in Operators, file \in Files : setPearFilename(t, op, file)
           \/ \E file \in Files, d \in Defects : Replace(file, d)
           \/ UNCHANGED vars
  <2>1. UNCHANGED <<phase, ae, live, interrupted, thread, installDir>>
    BY <1>2 DEF StopPE, setPearFilename, Replace, vars
  <2> QED BY <2>1, LeftFrame DEF Updating, Op
<1>3. ASSUME NEW t \in DocumentThreads,
             \/ ProcessDocument(t) \/ SubmitDocument(t)
             \/ \E op \in Operators : PutDocument(t, op)
      PROVE  Leftovers'
  <2>1. UNCHANGED <<phase, ae, live, interrupted, installDir>>
    BY <1>3 DEF ProcessDocument, SubmitDocument, PutDocument
  <2>2. \A u \in ControlThreads : thread'[u] = thread[u]
    BY <1>1, <1>3 DEF ProcessDocument, SubmitDocument, PutDocument, Threads
  <2> QED BY <2>1, <2>2, LeftFrame DEF Updating, Op
<1>4. ASSUME NEW t \in ControlThreads, Uninstall(t) \/ installPearFile(t)
      PROVE  Leftovers'
  <2>1. ~At(t, "idle") /\ UNCHANGED <<phase, ae, live, interrupted>>
    BY <1>4 DEF Uninstall, installPearFile, At
  <2>2. t \in Threads /\ Op(t) \in Operators /\ Updating(Op(t))
    BY <2>1, Alone
  <2>3. \A u \in ControlThreads : Op(u)' = Op(u)
    <3>1. \A u \in Threads : thread'[u].op = thread[u].op
      BY <1>1, <1>4, <2>2 DEF Uninstall, installPearFile, LoadFails, GoTo, ThreadSet
    <3> QED BY <3>1 DEF Op, Threads
  <2>4. \A o \in Operators : installDir'[o] = installDir[o] \/ o = Op(t)
    BY <1>1, <1>4, <2>2 DEF Uninstall, installPearFile, uninstallPearFile
  <2> QED BY <2>1, <2>2, <2>3, <2>4, LeftFrame DEF Updating
<1> QED BY <1>2, <1>3, <1>4

(* Both invariants hold together in every behaviour.                       *)
LEMMA LeftoversInductive == Spec => [](IInv /\ Leftovers)
<1>1. Init => Leftovers
  BY DEF Init, Leftovers, OneComplete, ShutDown
<1>2. IInv /\ Leftovers /\ [Next]_vars => Leftovers'
  <2> SUFFICES ASSUME IInv, Leftovers, [Next]_vars PROVE Leftovers'
    OBVIOUS
  <2> QED BY InitializeLeft, PunctuationLeft, PrepareLeft, EngineLeft, PhaseLeft, ThreadLeft DEF Next
<1> QED BY <1>1, <1>2, Inductive, PTL DEF Spec

(* The shutdown of an operator destroys every complete engine its updates  *)
(* have made and removes every file they have installed, for any number of *)
(* updates and failures, unless it came in the middle of an update.        *)
THEOREM ShutdownCleansUp == Spec => []ShutdownLeavesNothing
<1>1. IInv /\ Leftovers => ShutdownLeavesNothing
  <2> SUFFICES ASSUME IInv, Leftovers, NEW op \in Operators \ interrupted, phase[op] = "gone"
               PROVE  installDir[op] = {} /\ \A e \in live : e.op = op => ~e.hasCas
    BY DEF ShutdownLeavesNothing
  <2>1. installDir[op] = {} /\ ae[op] = NULL
    BY DEF Leftovers, ShutDown
  <2> QED BY <2>1, UimaAssumption DEF Leftovers, OneComplete, IInv, TypeOK
<1> QED BY <1>1, LeftoversInductive, PTL

-----------------------------------------------------------------------------
(* The fallback.                                                           *)

(* The control port of each operator is fed by one thread.  With several,  *)
(* a name can arrive between the two attempts of an update.                *)
OneFeeder == \A t, u \in ControlThreads : Feeds[t] \intersect Feeds[u] # {} => t = u

HistoryTypeOK ==
  /\ wanted \in [Operators -> Files \union {NULL}]
  /\ refused \in [Operators -> SUBSET (Files \union {NULL})]

(* An update loads the file that is wanted, and after a failure of that    *)
(* the initial file.                                                       *)
Attempt ==
  \A t \in ControlThreads :
    ~At(t, "idle") =>
      /\ Op(t) \in Feeds[t]
      /\ ~thread[t].second => pearFile[Op(t)] = wanted[Op(t)]
      /\ thread[t].second => /\ pearFile[Op(t)] = initialPearFile[Op(t)]
                             /\ wanted[Op(t)] \in refused[Op(t)]
      /\ At(t, "prepare") => instPear[Op(t)] = pearFile[Op(t)]

(* The engine an update leaves behind is made of one of the two.           *)
Loaded ==
  \A op \in Operators :
    /\ phase[op] \in {"new", "checked"} => wanted[op] = NULL
    /\ phase[op] = "ready" /\ ~Updating(op) /\ wanted[op] # NULL =>
         \/ ae[op].file = wanted[op]
         \/ ae[op].file = initialPearFile[op] /\ wanted[op] \in refused[op]

(* Nothing but a second failure ends the processing element.               *)
Ended ==
  controlPortDefined /\ pe = "terminated" /\ (\A op \in Operators : phase[op] = "ready") =>
    \E op \in HasControlPort : initialPearFile[op] \in refused[op]

Fallback == HistoryTypeOK /\ Attempt /\ Loaded /\ Ended

(* Steps that neither load nor name a file.                                *)
LEMMA FallbackFrame ==
  ASSUME Fallback, Ended', UNCHANGED <<settings, wanted, refused>>,
         \A t \in ControlThreads : thread'[t] = thread[t],
         \A op \in Operators : /\ phase'[op] \in {"new", "checked"} => phase[op] \in {"new", "checked"}
                               /\ phase'[op] = "ready" => phase[op] = "ready" /\ ae'[op] = ae[op]
  PROVE  Fallback'
<1> USE DEF Fallback, settings
<1>1. HistoryTypeOK' /\ Attempt'
  BY DEF HistoryTypeOK, Attempt, At, Op
<1>2. Loaded'
  BY DEF Loaded, Updating, Op
<1> QED BY <1>1, <1>2

(* initialize() is not an update.                                          *)
LEMMA InitializeFallback ==
  ASSUME IInv, Fallback, NEW op \in Operators, initialize(op)
  PROVE  Fallback'
<1>1. \A t \in Threads : At(t, "idle")
  BY Quiet DEF AllReady, initialize
<1>2. /\ pe' = "running" /\ phase[op] = "checked" /\ phase' = [phase EXCEPT ![op] = "ready"]
      /\ UNCHANGED <<thread, wanted, refused>>
  BY DEF initialize, history
<1>3. /\ \A o \in Operators \ {op} : ae'[o] = ae[o] /\ initialPearFile'[o] = initialPearFile[o]
      /\ \A o \in Operators \ {op} : phase'[o] = phase[o]
  BY DEF initialize, IInv, TypeOK
<1>4. wanted[op] = NULL
  BY <1>2 DEF Fallback, Loaded
<1>5. HistoryTypeOK' /\ Attempt' /\ Ended'
  BY <1>1, <1>2 DEF Fallback, HistoryTypeOK, Attempt, Ended, At, Threads
<1>6. Loaded'
  <2>1. phase'[op] = "ready"
    BY <1>2 DEF IInv, TypeOK
  <2> QED BY <1>2, <1>3, <1>4, <2>1 DEF Fallback, Loaded, Updating, Op
<1> QED BY <1>5, <1>6 DEF Fallback

(* No document ends the processing element while its operator serves.      *)
LEMMA DocumentFallback ==
  ASSUME IInv, Fallback, NEW t \in DocumentThreads,
         ProcessDocument(t) \/ SubmitDocument(t) \/ \E op \in Operators : PutDocument(t, op)
  PROVE  Fallback'
<1> USE UimaAssumption
<1>1. /\ pe # "terminated" /\ UNCHANGED <<controlPortDefined, settings, phase, ae, wanted, refused>>
  BY DEF ProcessDocument, SubmitDocument, PutDocument, Serves, engines, history
<1>2. \A u \in ControlThreads : thread'[u] = thread[u]
  BY DEF ProcessDocument, SubmitDocument, PutDocument, Threads, IInv, TypeOK
<1>3. Ended'
  <2> SUFFICES ASSUME controlPortDefined, pe' = "terminated", \A op \in Operators : phase[op] = "ready"
               PROVE  FALSE
    BY <1>1 DEF Ended
  <2>1. At(t, "text") /\ ae[Op(t)] = NULL
    BY <1>1 DEF ProcessDocument, SubmitDocument, PutDocument, Throws
  <2>2. Op(t) \in Operators /\ updateLock[Op(t)] = t
    BY <2>1 DEF IInv, TypeOK, AtWork, Locked, ThreadSet, Op, At, Threads
  <2>3. ~Updating(Op(t))
    BY <2>2 DEF Updating, IInv, AtWork, Locked, Threads
  <2> QED BY <2>1, <2>2, <2>3 DEF IInv, Complete
<1> QED BY <1>1, <1>2, <1>3, FallbackFrame

(* A name arrives, and no update of the operator is under way.             *)
LEMMA NameFallback ==
  ASSUME OneFeeder, IInv, Fallback,
         NEW t \in ControlThreads, NEW op \in Operators, NEW file \in Files,
         setPearFilename(t, op, file)
  PROVE  Fallback'
<1>1. /\ At(t, "idle") /\ op \in Feeds[t] /\ pe # "terminated"
      /\ pearFile' = [pearFile EXCEPT ![op] = file]
      /\ UNCHANGED <<pe, controlPortDefined, phase, initialPearFile, instPear, ae, thread, wanted, refused>>
  BY DEF setPearFilename, Serves, engines, history
<1>2. \A u \in ControlThreads : ~At(u, "idle") => Op(u) # op
  BY <1>1 DEF OneFeeder, Fallback, Attempt
<1>3. \A o \in Operators \ {op} : pearFile'[o] = pearFile[o]
  BY <1>1 DEF IInv, TypeOK
<1>4. \A u \in ControlThreads : ~At(u, "idle") => Op(u) \in Operators
  BY Alone
<1>5. Attempt'
  BY <1>1, <1>2, <1>3, <1>4 DEF Fallback, Attempt, At, Op
<1>6. HistoryTypeOK' /\ Loaded' /\ Ended'
  BY <1>1 DEF Fallback, HistoryTypeOK, Loaded, Ended, Updating, Op
<1> QED BY <1>5, <1>6 DEF Fallback

(* An update begins with the file that is named.                           *)
LEMMA PunctuationFallback ==
  ASSUME IInv, Fallback, NEW t \in ControlThreads, NEW op \in Operators, Punctuation(t, op)
  PROVE  Fallback'
<1> USE UimaAssumption
<1> DEFINE new == [Idle EXCEPT !.at = "uninstall", !.op = op]
<1>1. /\ Serves(op) /\ op \in Feeds[t] /\ updateLock[op] = NULL
      /\ thread' = [thread EXCEPT ![t] = new]
      /\ wanted' = [wanted EXCEPT ![op] = pearFile[op]]
      /\ refused' = [refused EXCEPT ![op] = {}]
      /\ UNCHANGED <<pe, controlPortDefined, phase, pearFile, initialPearFile, instPear>>
      /\ destroyAnalysisEngine(op)
  BY DEF Punctuation, settings
<1>2. new.at = "uninstall" /\ new.op = op /\ new.second = FALSE
  BY DEF Idle
<1> HIDE DEF new
<1>3. /\ t \in Threads /\ thread'[t] = new
      /\ \A u \in Threads \ {t} : thread'[u] = thread[u]
      /\ pearFile \in [Operators -> Files \union {NULL}]
  BY <1>1 DEF IInv, TypeOK, Threads
<1>4. HistoryTypeOK'
  BY <1>1, <1>3 DEF Fallback, HistoryTypeOK
<1>5. /\ wanted'[op] = pearFile[op]
      /\ \A o \in Operators \ {op} : wanted'[o] = wanted[o] /\ refused'[o] = refused[o]
  BY <1>1 DEF Fallback, HistoryTypeOK
<1>6. \A u \in ControlThreads : ~At(u, "idle") => Op(u) \in Operators \ {op}
  BY <1>1, Alone
<1>7. Attempt'
  <2>1. ASSUME NEW u \in ControlThreads \ {t}, ~At(u, "idle")'
        PROVE  /\ Op(u)' \in Feeds[u]
               /\ ~thread'[u].second => pearFile'[Op(u)'] = wanted'[Op(u)']
               /\ thread'[u].second => /\ pearFile'[Op(u)'] = initialPearFile'[Op(u)']
                                       /\ wanted'[Op(u)'] \in refused'[Op(u)']
               /\ At(u, "prepare")' => instPear'[Op(u)'] = pearFile'[Op(u)']
    BY <1>1, <1>3, <1>5, <1>6, <2>1 DEF Fallback, Attempt, At, Op, Threads
  <2>2. /\ Op(t)' = op /\ ~At(t, "prepare")' /\ ~thread'[t].second
        /\ pearFile'[op] = wanted'[op]
    BY <1>1, <1>2, <1>3, <1>5 DEF Op, At
  <2> QED BY <1>1, <2>1, <2>2 DEF Attempt
<1>8. Loaded'
  <2>1. \A o \in Operators : Updating(o)' <=> Updating(o) \/ o = op
    BY <1>2, <1>3, <1>1 DEF Updating, Op, Threads, IInv, AtWork, Punctuation
  <2>2. \A o \in Operators \ {op} : ae'[o] = ae[o]
    BY <1>1, OthersLive
  <2> QED BY <1>1, <1>5, <2>1, <2>2 DEF Fallback, Loaded, Serves
<1>9. Ended'
  BY <1>1 DEF Ended, Serves
<1> QED BY <1>4, <1>7, <1>8, <1>9 DEF Fallback

(* What an update does to the other operators and their updates.           *)
LEMMA OthersFallback ==
  ASSUME IInv, Fallback, NEW t \in ControlThreads, ~At(t, "idle"),
         UNCHANGED <<phase, initialPearFile, wanted>>,
         \A u \in ControlThreads \ {t} : thread'[u] = thread[u],
         Op(t)' = Op(t) \/ Op(t)' = NULL,
         \A o \in Operators \ {Op(t)} : /\ pearFile'[o] = pearFile[o] /\ instPear'[o] = instPear[o]
                                        /\ refused'[o] = refused[o] /\ ae'[o] = ae[o],
         Op(t)' = Op(t) =>
           /\ ~thread'[t].second => pearFile'[Op(t)] = wanted[Op(t)]
           /\ thread'[t].second => /\ pearFile'[Op(t)] = initialPearFile[Op(t)]
                                   /\ wanted[Op(t)] \in refused'[Op(t)]
           /\ At(t, "prepare")' => instPear'[Op(t)] = pearFile'[Op(t)],
         Op(t)' = NULL =>
           /\ At(t, "idle")'
           /\ \/ ae'[Op(t)].file = wanted[Op(t)]
              \/ ae'[Op(t)].file = initialPearFile[Op(t)] /\ wanted[Op(t)] \in refused'[Op(t)]
  PROVE  Attempt' /\ Loaded'
<1> USE UimaAssumption
<1>1. Op(t) \in Operators /\ Updating(Op(t)) /\ \A u \in ControlThreads \ {t} : Op(u) # Op(t)
  BY Alone
<1>2. \A u \in ControlThreads : ~At(u, "idle") => Op(u) \in Operators
  BY Alone
<1>3. Op(t) \in Feeds[t]
  BY DEF Fallback, Attempt
<1>4. Attempt'
  <2>1. ASSUME NEW u \in ControlThreads \ {t}, ~At(u, "idle")'
        PROVE  /\ Op(u)' \in Feeds[u]
               /\ ~thread'[u].second => pearFile'[Op(u)'] = wanted'[Op(u)']
               /\ thread'[u].second => /\ pearFile'[Op(u)'] = initialPearFile'[Op(u)']
                                       /\ wanted'[Op(u)'] \in refused'[Op(u)']
               /\ At(u, "prepare")' => instPear'[Op(u)'] = pearFile'[Op(u)']
    BY <1>1, <1>2, <2>1 DEF Fallback, Attempt, At, Op
  <2> QED BY <1>3, <2>1 DEF Attempt
<1>5. Loaded'
  <2>1. \A o \in Operators \ {Op(t)} : Updating(o)' <=> Updating(o)
    BY DEF Updating, Op
  <2>2. Op(t)' = Op(t) => \E u \in ControlThreads : Op(u)' = Op(t)
    OBVIOUS
  <2>3. phase[Op(t)] \notin {"new", "checked"}
    BY <1>1, Quiet DEF AllReady, IInv, AtWork, Threads
  <2>4. ASSUME NEW o \in Operators PROVE
          /\ phase'[o] \in {"new", "checked"} => wanted'[o] = NULL
          /\ phase'[o] = "ready" /\ ~Updating(o)' /\ wanted'[o] # NULL =>
               \/ ae'[o].file = wanted'[o]
               \/ ae'[o].file = initialPearFile'[o] /\ wanted'[o] \in refused'[o]
    <3>1. CASE o = Op(t)
      BY <2>2, <2>3, <3>1 DEF Updating
    <3>2. CASE o # Op(t)
      BY <2>1, <3>2 DEF Fallback, Loaded
    <3> QED BY <3>1, <3>2
  <2> QED BY <2>4 DEF Loaded
<1> QED BY <1>4, <1>5

(* The first failure makes the initial file the one to load, the second    *)
(* was that of the initial file.                                           *)
LEMMA FailsFallback ==
  ASSUME IInv, Fallback, NEW t \in ControlThreads, ~At(t, "idle"), LoadFails(t, pearFile[Op(t)]),
         UNCHANGED <<controlPortDefined, phase, initialPearFile, instPear, wanted>>,
         pe # "terminated", \A o \in Operators \ {Op(t)} : ae'[o] = ae[o]
  PROVE  Fallback'
<1> USE UimaAssumption
<1> DEFINE file == pearFile[Op(t)]
<1>1. /\ t \in Threads /\ Op(t) \in Operators /\ thread \in [Threads -> ThreadSet]
      /\ pearFile \in [Operators -> Files \union {NULL}]
      /\ initialPearFile \in [Operators -> Files \union {NULL}]
  BY Alone DEF IInv, TypeOK
<1>2. refused' = [refused EXCEPT ![Op(t)] = @ \union {file}]
  BY DEF LoadFails
<1>3. HistoryTypeOK' /\ file \in refused'[Op(t)] /\ refused[Op(t)] \subseteq refused'[Op(t)]
  BY <1>1, <1>2 DEF Fallback, HistoryTypeOK
<1>4. \A o \in Operators \ {Op(t)} : refused'[o] = refused[o]
  BY <1>1, <1>2 DEF Fallback, HistoryTypeOK
<1>5. /\ Op(t) \in HasControlPort
      /\ ~thread[t].second => file = wanted[Op(t)]
      /\ thread[t].second => file = initialPearFile[Op(t)] /\ wanted[Op(t)] \in refused[Op(t)]
      /\ At(t, "prepare") => instPear[Op(t)] = file
  BY DEF Fallback, Attempt
<1>6. CASE ~thread[t].second
  <2>1. /\ pearFile' = [pearFile EXCEPT ![Op(t)] = initialPearFile[Op(t)]]
        /\ thread' = [thread EXCEPT ![t].at = "install", ![t].second = TRUE]
        /\ pe' = pe
    BY <1>6 DEF LoadFails
  <2>2. /\ \A u \in ControlThreads \ {t} : thread'[u] = thread[u]
        /\ Op(t)' = Op(t) /\ thread'[t].second /\ ~At(t, "prepare")'
    BY <1>1, <2>1 DEF Op, At, Threads, ThreadSet
  <2>3. /\ pearFile'[Op(t)] = initialPearFile[Op(t)]
        /\ \A o \in Operators \ {Op(t)} : pearFile'[o] = pearFile[o]
    BY <1>1, <2>1
  <2>4. Op(t)' # NULL
    BY <1>1, <2>2
  <2>5. Attempt' /\ Loaded'
    BY <1>3, <1>4, <1>5, <1>6, <2>2, <2>3, <2>4, OthersFallback
  <2>6. Ended'
    BY <2>1 DEF Ended
  <2> QED BY <1>3, <2>5, <2>6 DEF Fallback
<1>7. CASE thread[t].second
  <2>1. UNCHANGED <<pearFile, thread>>
    BY <1>7 DEF LoadFails
  <2>2. Op(t)' = Op(t) /\ thread'[t].second /\ Op(t)' # NULL
    BY <1>1, <1>7, <2>1 DEF Op
  <2>3. Attempt' /\ Loaded'
    BY <1>3, <1>4, <1>5, <1>7, <2>1, <2>2, OthersFallback DEF At
  <2>4. Ended'
    BY <1>3, <1>5, <1>7 DEF Ended
  <2> QED BY <1>3, <2>3, <2>4 DEF Fallback
<1> QED BY <1>6, <1>7

(* The installation, and what comes before it.                             *)
LEMMA InstallFallback ==
  ASSUME IInv, Fallback, NEW t \in ControlThreads, Uninstall(t) \/ installPearFile(t)
  PROVE  Fallback'
<1> USE UimaAssumption
<1>1. /\ ~At(t, "idle") /\ ~At(t, "prepare") /\ pe # "terminated"
      /\ UNCHANGED <<controlPortDefined, phase, initialPearFile, ae, wanted>>
  BY DEF Uninstall, installPearFile, At, settings, engines, history
<1>2. /\ t \in Threads /\ Op(t) \in Operators /\ Op(t) # NULL /\ thread \in [Threads -> ThreadSet]
      /\ instPear \in [Operators -> Files \union {NULL}]
  BY <1>1, Alone DEF IInv, TypeOK
<1>3. /\ ~thread[t].second => pearFile[Op(t)] = wanted[Op(t)]
      /\ thread[t].second => /\ pearFile[Op(t)] = initialPearFile[Op(t)]
                             /\ wanted[Op(t)] \in refused[Op(t)]
  BY <1>1 DEF Fallback, Attempt
<1>4. CASE LoadFails(t, pearFile[Op(t)]) /\ UNCHANGED instPear
  BY <1>1, <1>4, FailsFallback
<1>5. CASE /\ UNCHANGED <<pe, pearFile, refused>>
           /\ \/ GoTo(t, "install") /\ UNCHANGED instPear
              \/ GoTo(t, "prepare") /\ instPear' = [instPear EXCEPT ![Op(t)] = pearFile[Op(t)]]
  <2>1. /\ \A u \in ControlThreads \ {t} : thread'[u] = thread[u]
        /\ Op(t)' = Op(t) /\ thread'[t].second = thread[t].second
        /\ At(t, "prepare")' => instPear'[Op(t)] = pearFile[Op(t)]
        /\ \A o \in Operators \ {Op(t)} : instPear'[o] = instPear[o]
    BY <1>2, <1>5 DEF GoTo, Op, At, Threads, ThreadSet
  <2>2. Attempt' /\ Loaded'
    BY <1>1, <1>2, <1>3, <1>5, <2>1, OthersFallback
  <2>3. HistoryTypeOK' /\ Ended'
    BY <1>1, <1>5 DEF Fallback, HistoryTypeOK, Ended
  <2> QED BY <2>2, <2>3 DEF Fallback
<1> QED BY <1>4, <1>5 DEF Uninstall, installPearFile, settings, history

(* The engine is made from the installed file, which is the one to load.   *)
LEMMA PrepareFallback ==
  ASSUME IInv, Fallback, NEW t \in ControlThreads, prepareAnalysisEngine(t)
  PROVE  Fallback'
<1> USE UimaAssumption
<1> DEFINE file == pearFile[Op(t)]
           e    == Engine(Op(t), file, Passes(file, "cas"))
<1>1. /\ ~At(t, "idle") /\ pe # "terminated" /\ instPear[Op(t)] = file
      /\ ~thread[t].second => file = wanted[Op(t)]
      /\ thread[t].second => file = initialPearFile[Op(t)] /\ wanted[Op(t)] \in refused[Op(t)]
      /\ UNCHANGED <<controlPortDefined, phase, initialPearFile, instPear, wanted>>
  BY DEF prepareAnalysisEngine, Fallback, Attempt, At
<1>2. /\ t \in Threads /\ Op(t) \in Operators /\ thread \in [Threads -> ThreadSet]
      /\ ae \in [Operators -> EngineSet \union {NULL}]
  BY <1>1, Alone DEF IInv, TypeOK
<1>3. ae' = [ae EXCEPT ![Op(t)] = e] \/ ae' = ae
  BY <1>1 DEF prepareAnalysisEngine
<1>4. \/ /\ ae' = [ae EXCEPT ![Op(t)] = e] /\ thread' = [thread EXCEPT ![t] = Idle]
         /\ UNCHANGED <<pe, pearFile, refused>>
      \/ LoadFails(t, file)
  BY <1>1 DEF prepareAnalysisEngine
<1>5. e.file = file
  BY DEF Engine
<1> HIDE DEF e
<1>6. \A o \in Operators \ {Op(t)} : ae'[o] = ae[o]
  BY <1>2, <1>3
<1>7. CASE LoadFails(t, file)
  BY <1>1, <1>6, <1>7, FailsFallback
<1>8. CASE /\ ae' = [ae EXCEPT ![Op(t)] = e] /\ thread' = [thread EXCEPT ![t] = Idle]
           /\ UNCHANGED <<pe, pearFile, refused>>
  <2>1. /\ \A u \in ControlThreads \ {t} : thread'[u] = thread[u]
        /\ Op(t)' = NULL /\ At(t, "idle")' /\ ae'[Op(t)].file = file
    BY <1>2, <1>5, <1>8 DEF Op, At, Idle, Threads
  <2>2. Op(t)' # Op(t)
    BY <1>2, <2>1
  <2>3. Attempt' /\ Loaded'
    BY <1>1, <1>6, <1>8, <2>1, <2>2, OthersFallback
  <2>4. HistoryTypeOK' /\ Ended'
    BY <1>1, <1>8 DEF Fallback, HistoryTypeOK, Ended
  <2> QED BY <2>3, <2>4 DEF Fallback
<1> QED BY <1>4, <1>7, <1>8

(* The steps in which no file is loaded and no document processed.         *)
LEMMA RuntimeFallback ==
  ASSUME IInv, Fallback,
         \/ StopPE
         \/ \E op \in Operators : \/ checkParameters(op)
                                  \/ ShutdownEngine(op) \/ ShutdownDirectory(op)
         \/ \E file \in Files, d \in Defects : Replace(file, d)
  PROVE  Fallback'
<1>1. pe' # "terminated" /\ UNCHANGED <<settings, thread, wanted, refused>>
  BY DEF StopPE, checkParameters, ShutdownEngine, ShutdownDirectory, Replace, history
<1>2. Ended'
  BY <1>1 DEF Ended
<1>3. ASSUME NEW op \in Operators
      PROVE  /\ phase'[op] \in {"new", "checked"} => phase[op] \in {"new", "checked"}
             /\ phase'[op] = "ready" => phase[op] = "ready" /\ ae'[op] = ae[op]
  BY DEF StopPE, checkParameters, ShutdownEngine, ShutdownDirectory, Replace,
         destroyAnalysisEngine, engines, IInv, TypeOK
<1> QED BY <1>1, <1>2, <1>3, FallbackFrame

(* Both invariants hold together in every behaviour.                       *)
LEMMA FallbackInductive ==
  ASSUME OneFeeder
  PROVE  Spec => [](IInv /\ Fallback)
<1>1. Init => Fallback
  BY UimaAssumption
     DEF Init, Fallback, HistoryTypeOK, Attempt, Loaded, Ended, Idle, At, Threads
<1>2. IInv /\ Fallback /\ [Next]_vars => Fallback'
  <2> SUFFICES ASSUME IInv, Fallback, [Next]_vars PROVE Fallback'
    OBVIOUS
  <2>1. CASE UNCHANGED vars
    BY <2>1 DEF vars, settings, engines, history, Fallback, HistoryTypeOK, Attempt, Loaded, Ended,
                At, Op, Updating
  <2> QED BY <2>1, InitializeFallback, DocumentFallback, NameFallback, PunctuationFallback,
             InstallFallback, PrepareFallback, RuntimeFallback DEF Next
<1> QED BY <1>1, <1>2, Inductive, PTL DEF Spec

(* An update ends with an engine of the file it was asked for, or of the   *)
(* initial file when that one could not be loaded, and the processing      *)
(* element ends for nothing less than an initial file that cannot be       *)
(* loaded, for any number of operators whose control ports are each fed by *)
(* one thread.                                                             *)
THEOREM UpdatesFallBack ==
  ASSUME OneFeeder
  PROVE  Spec => []FallsBackToInitial
<1>1. Fallback => FallsBackToInitial
  BY UimaAssumption DEF Fallback, Loaded, Ended, FallsBackToInitial, Serves
<1> QED BY <1>1, FallbackInductive, PTL
==============================================================================
