----------------------------- MODULE UimaUpdate -----------------------------
(***************************************************************************)
(* The UIMA operators (AbstractUimaOperator.java with UimaText, UimaCas,   *)
(* RutaText and RutaCas) of one Java virtual machine: documents arrive on  *)
(* port 0, names of PEAR files and the punctuation that loads them on port *)
(* 1, and the processing element may shut down at any time.  A PEAR file   *)
(* is installed in a directory of the operator; an analysis engine is made *)
(* from that, and a CAS from the engine.                                   *)
(***************************************************************************)
EXTENDS Integers, FiniteSets

CONSTANTS
  Operators,       \* the UIMA operators of the virtual machine
  HasControlPort,  \* those with a second input port
  DocumentThreads, ControlThreads,  \* deliver to port 0 and to port 1
  Feeds,           \* the operators whose port 1 each control thread delivers to
  Files,           \* the PEAR files
  NULL,
  MaxDocuments, MaxControls, MaxReplacements  \* bounds

EngineSet == [no : Nat, op : Operators, file : Files, hasCas : BOOLEAN]

ASSUME UimaAssumption ==
  /\ HasControlPort \subseteq Operators
  /\ Feeds \in [ControlThreads -> SUBSET HasControlPort]
  /\ NULL \notin Operators \union DocumentThreads \union ControlThreads \union Files \union EngineSet
  /\ DocumentThreads \intersect ControlThreads = {}
  /\ {MaxDocuments, MaxControls, MaxReplacements} \subseteq Nat

Threads == DocumentThreads \union ControlThreads

\* Where the load of a file fails, if it does.
Defects == {"none", "install", "engine", "cas"}

VARIABLES
  pe,                  \* "running", "stopping", or "terminated" by an exception
  controlPortDefined,  \* one static field for all operators
  phase,               \* of each operator
  pearFile, initialPearFile,
  installDir,          \* the files installed in the directory
  instPear,            \* the file the last installation was made from
  ae, cas,             \* the engine, and the engine the CAS was made from
  live,                \* engines that are made and not destroyed
  made,                \* number of engines made
  updateLock,          \* its holder
  thread,              \* what each thread is at
  defect,              \* of each file on disk
  documents, controls, replacements,  \* still to come
  wanted, refused,     \* history: the file of the update, files that failed in it
  interrupted          \* history: operators shut down during an update

settings == <<pearFile, initialPearFile, instPear>>
engines  == <<ae, cas, live, made>>
inputs   == <<documents, controls, replacements, defect>>
history  == <<wanted, refused, interrupted>>
vars     == <<pe, controlPortDefined, phase, settings, installDir, engines, updateLock,
              thread, inputs, history>>

-----------------------------------------------------------------------------
Idle == [at |-> "idle", op |-> NULL, text |-> NULL, engine |-> NULL, second |-> FALSE]

At(t, step)   == thread[t].at = step
GoTo(t, step) == thread' = [thread EXCEPT ![t].at = step]
Op(t)         == thread[t].op

Engine(op, file, ok) == [no |-> made + 1, op |-> op, file |-> file, hasCas |-> ok]

\* A load of the file gets past a step unless it has the step's defect.
Passes(file, step) == file # NULL /\ defect[file] # step

Throws == pe' = "terminated"

-----------------------------------------------------------------------------
(* Start: the context checks and initialize() of each operator.            *)

checkParameters(op) ==
  /\ pe = "running" /\ phase[op] = "new"
  /\ phase' = [phase EXCEPT ![op] = "checked"]
  /\ controlPortDefined' = (op \in HasControlPort)
  /\ UNCHANGED <<pe, settings, installDir, engines, updateLock, thread, inputs, history>>

\* An exception ends the processing element before a tuple arrives.
initialize(op) ==
  /\ pe = "running" /\ phase[op] = "checked"
  /\ \E file \in {f \in Files : defect[f] = "none"} :
       LET e == Engine(op, file, TRUE)
       IN  /\ pearFile' = [pearFile EXCEPT ![op] = file]
           /\ initialPearFile' = [initialPearFile EXCEPT
                                    ![op] = IF controlPortDefined THEN file ELSE @]
           /\ instPear' = [instPear EXCEPT ![op] = file]
           /\ installDir' = [installDir EXCEPT ![op] = @ \union {file}]
           /\ ae' = [ae EXCEPT ![op] = e] /\ cas' = [cas EXCEPT ![op] = e]
           /\ live' = live \union {e} /\ made' = made + 1
  /\ phase' = [phase EXCEPT ![op] = "ready"]
  /\ UNCHANGED <<pe, controlPortDefined, updateLock, thread, inputs, history>>

AllReady  == \A op \in Operators : phase[op] \notin {"new", "checked"}
Serves(op) == pe # "terminated" /\ AllReady /\ phase[op] = "ready"

-----------------------------------------------------------------------------
(* Port 0: process(tuple) and handleInputOnPort0.                          *)

\* Mutant of TakesLock.
NeverLocks == FALSE

TakesLock == controlPortDefined

\* The lock, the view, and the text of the document in the CAS.
PutDocument(t, op) ==
  /\ Serves(op) /\ At(t, "idle") /\ documents > 0
  /\ documents' = documents - 1
  /\ TakesLock => updateLock[op] = NULL
  /\ updateLock' = IF TakesLock THEN [updateLock EXCEPT ![op] = t] ELSE updateLock
  /\ thread' = [thread EXCEPT ![t] = [Idle EXCEPT !.at = "text", !.op = op, !.text = cas[op]]]
  /\ UNCHANGED <<pe, controlPortDefined, phase, settings, installDir, engines,
                 controls, replacements, defect, history>>

\* ae.process(cas); without an engine a NullPointerException.
ProcessDocument(t) ==
  /\ pe # "terminated" /\ At(t, "text")
  /\ \/ /\ ae[Op(t)] = NULL
        /\ Throws /\ UNCHANGED thread
     \/ /\ ae[Op(t)] # NULL
        /\ thread' = [thread EXCEPT ![t].at = "processed", ![t].engine = ae[Op(t)]]
        /\ UNCHANGED pe
  /\ UNCHANGED <<controlPortDefined, phase, settings, installDir, engines, updateLock,
                 inputs, history>>

Released(t) == [updateLock EXCEPT ![Op(t)] = IF @ = t THEN NULL ELSE @]

\* The output tuple is made from the CAS, which is then reset.
SubmitDocument(t) ==
  /\ pe # "terminated" /\ At(t, "processed")
  /\ updateLock' = Released(t)
  /\ thread' = [thread EXCEPT ![t] = Idle]
  /\ UNCHANGED <<pe, controlPortDefined, phase, settings, installDir, engines, inputs, history>>

-----------------------------------------------------------------------------
(* Port 1: the tuple sets a name, the punctuation loads what it names.     *)

setPearFilename(t, op, file) ==
  /\ Serves(op) /\ At(t, "idle") /\ op \in Feeds[t] /\ controls > 0
  /\ controls' = controls - 1
  /\ pearFile' = [pearFile EXCEPT ![op] = file]
  /\ UNCHANGED <<pe, controlPortDefined, phase, initialPearFile, instPear, installDir, engines,
                 updateLock, thread, documents, replacements, defect, history>>

\* Mutant of destroyAnalysisEngine: the reference is dropped and the engine is not destroyed.
DropAnalysisEngine(op) ==
  /\ ae' = [ae EXCEPT ![op] = NULL]
  /\ UNCHANGED <<cas, made, live>>

destroyAnalysisEngine(op) ==
  /\ live' = live \ {ae[op]}
  /\ ae' = [ae EXCEPT ![op] = NULL]
  /\ UNCHANGED <<cas, made>>

Punctuation(t, op) ==
  /\ Serves(op) /\ At(t, "idle") /\ op \in Feeds[t] /\ controls > 0
  /\ controls' = controls - 1
  /\ updateLock[op] = NULL
  /\ updateLock' = [updateLock EXCEPT ![op] = t]
  /\ thread' = [thread EXCEPT ![t] = [Idle EXCEPT !.at = "uninstall", !.op = op]]
  /\ destroyAnalysisEngine(op)
  /\ wanted' = [wanted EXCEPT ![op] = pearFile[op]]
  /\ refused' = [refused EXCEPT ![op] = {}]
  /\ UNCHANGED <<pe, controlPortDefined, phase, settings, installDir,
                 documents, replacements, defect, interrupted>>

uninstallPearFile(op) == installDir' = [installDir EXCEPT ![op] = {}]

Uninstall(t) ==
  /\ pe # "terminated" /\ At(t, "uninstall")
  /\ uninstallPearFile(Op(t))
  /\ GoTo(t, "install")
  /\ UNCHANGED <<pe, controlPortDefined, phase, settings, engines, updateLock, inputs, history>>

\* Mutant of LoadFails: the second attempt is made with the same file.
LoadFailsAgain(t, file) ==
  /\ refused' = [refused EXCEPT ![Op(t)] = @ \union {file}]
  /\ \/ /\ ~thread[t].second
        /\ thread' = [thread EXCEPT ![t].at = "install", ![t].second = TRUE]
        /\ UNCHANGED <<pe, pearFile>>
     \/ /\ thread[t].second
        /\ Throws /\ UNCHANGED <<pearFile, thread>>

\* The first exception makes the initial file the one to load, the second leaves
\* the handler.
LoadFails(t, file) ==
  /\ refused' = [refused EXCEPT ![Op(t)] = @ \union {file}]
  /\ \/ /\ ~thread[t].second
        /\ pearFile' = [pearFile EXCEPT ![Op(t)] = initialPearFile[Op(t)]]
        /\ thread' = [thread EXCEPT ![t].at = "install", ![t].second = TRUE]
        /\ UNCHANGED pe
     \/ /\ thread[t].second
        /\ Throws /\ UNCHANGED <<pearFile, thread>>

installPearFile(t) ==
  /\ pe # "terminated" /\ At(t, "install")
  /\ LET file == pearFile[Op(t)]
     IN  \/ /\ Passes(file, "install")
            /\ instPear' = [instPear EXCEPT ![Op(t)] = file]
            /\ installDir' = [installDir EXCEPT ![Op(t)] = @ \union {file}]
            /\ GoTo(t, "prepare")
            /\ UNCHANGED <<pe, pearFile, refused>>
         \/ /\ ~Passes(file, "install")
            /\ LoadFails(t, file)
            /\ UNCHANGED <<instPear, installDir>>
  /\ UNCHANGED <<controlPortDefined, phase, initialPearFile, engines, updateLock, inputs,
                 wanted, interrupted>>

\* prepareAnalysisEngine and prepareRutaAnalysisEngine: ae is assigned before the
\* CAS is made, and the engine needs the installed files.
prepareAnalysisEngine(t) ==
  /\ pe # "terminated" /\ At(t, "prepare")
  /\ LET op   == Op(t)
         file == instPear[op]
         e    == Engine(op, file, Passes(file, "cas"))
         produced == file \in installDir[op] /\ Passes(file, "engine")
     IN  /\ \/ /\ produced
               /\ ae' = [ae EXCEPT ![op] = e]
               /\ live' = live \union {e} /\ made' = made + 1
            \/ ~produced /\ UNCHANGED <<ae, live, made>>
         /\ \/ /\ produced /\ e.hasCas
               /\ cas' = [cas EXCEPT ![op] = e]
               /\ updateLock' = Released(t)
               /\ thread' = [thread EXCEPT ![t] = Idle]
               /\ UNCHANGED <<pe, pearFile, refused>>
            \/ /\ ~(produced /\ e.hasCas)
               /\ LoadFails(t, file)
               /\ UNCHANGED <<cas, updateLock>>
  /\ UNCHANGED <<controlPortDefined, phase, initialPearFile, instPear, installDir, inputs,
                 wanted, interrupted>>

-----------------------------------------------------------------------------
(* shutdown(), which does not take updateLock.                             *)

Updating(op) == \E t \in ControlThreads : Op(t) = op

StopPE ==
  /\ pe = "running" /\ AllReady /\ pe' = "stopping"
  /\ UNCHANGED <<controlPortDefined, phase, settings, installDir, engines, updateLock, thread,
                 inputs, history>>

ShutdownEngine(op) ==
  /\ pe = "stopping" /\ phase[op] = "ready"
  /\ destroyAnalysisEngine(op)
  /\ phase' = [phase EXCEPT ![op] = "destroyed"]
  /\ interrupted' = IF Updating(op) THEN interrupted \union {op} ELSE interrupted
  /\ UNCHANGED <<pe, controlPortDefined, settings, installDir, updateLock, thread, inputs,
                 wanted, refused>>

ShutdownDirectory(op) ==
  /\ pe = "stopping" /\ phase[op] = "destroyed"
  /\ uninstallPearFile(op)
  /\ phase' = [phase EXCEPT ![op] = "gone"]
  /\ UNCHANGED <<pe, controlPortDefined, settings, engines, updateLock, thread, inputs, history>>

\* A PEAR file on disk is replaced.
Replace(file, d) ==
  /\ pe = "running" /\ AllReady /\ replacements > 0 /\ defect[file] # d
  /\ replacements' = replacements - 1
  /\ defect' = [defect EXCEPT ![file] = d]
  /\ UNCHANGED <<pe, controlPortDefined, phase, settings, installDir, engines, updateLock, thread,
                 documents, controls, history>>

-----------------------------------------------------------------------------
Init ==
  /\ pe = "running" /\ controlPortDefined = FALSE
  /\ phase = [op \in Operators |-> "new"]
  /\ pearFile = [op \in Operators |-> NULL] /\ initialPearFile = pearFile
  /\ instPear = pearFile /\ ae = pearFile /\ cas = pearFile
  /\ updateLock = pearFile /\ wanted = pearFile
  /\ installDir = [op \in Operators |-> {}] /\ refused = installDir
  /\ live = {} /\ made = 0 /\ interrupted = {}
  /\ thread = [t \in Threads |-> Idle]
  /\ defect \in [Files -> Defects]
  /\ documents = MaxDocuments /\ controls = MaxControls /\ replacements = MaxReplacements

Next ==
  \/ StopPE
  \/ \E op \in Operators : \/ checkParameters(op) \/ initialize(op)
                           \/ ShutdownEngine(op) \/ ShutdownDirectory(op)
  \/ \E t \in DocumentThreads :
       \/ ProcessDocument(t) \/ SubmitDocument(t)
       \/ \E op \in Operators : PutDocument(t, op)
  \/ \E t \in ControlThreads :
       \/ Uninstall(t) \/ installPearFile(t) \/ prepareAnalysisEngine(t)
       \/ \E op \in Operators : \/ Punctuation(t, op)
                                \/ \E file \in Files : setPearFilename(t, op, file)
  \/ \E file \in Files, d \in Defects : Replace(file, d)

Spec == Init /\ [][Next]_vars

-----------------------------------------------------------------------------
\* updateLock is there "to synchronize PEAR file update and document processing":
\* from the text to the submission a document is alone in the CAS, which is of the
\* engine that processes it, and that is not destroyed nor are its files removed;
\* before the shutdown, and if the last operator checked has a control port.
OneEnginePerDocument ==
  controlPortDefined =>
    \A t \in DocumentThreads :
      LET op == Op(t)
      IN  ~At(t, "idle") /\ phase[op] = "ready" =>
            /\ thread[t].text = cas[op] /\ ae[op] = cas[op] /\ ae[op] \in live
            /\ ae[op].file \in installDir[op]
            /\ At(t, "processed") => thread[t].engine = ae[op]
            /\ \A u \in Threads \ {t} : Op(u) # op

\* After an update the operator works with the file the control tuple before it
\* named, or with the initial file when that one could not be loaded; only when
\* the initial file of an operator cannot be loaded either does the processing
\* element end, and never for a document.
FallsBackToInitial ==
  controlPortDefined =>
    /\ \A op \in HasControlPort :
         Serves(op) /\ ~Updating(op) /\ wanted[op] # NULL =>
           \/ ae[op].file = wanted[op]
           \/ ae[op].file = initialPearFile[op] /\ wanted[op] \in refused[op]
    /\ pe = "terminated" /\ (\A op \in Operators : phase[op] = "ready") =>
         \E op \in HasControlPort : initialPearFile[op] \in refused[op]

\* The shutdown of an operator leaves neither an installed file nor an engine,
\* whatever its updates and fallbacks have installed side by side; except for
\* engines without a CAS, to which the fallback drops the reference, and for an
\* update the shutdown has not waited for.
ShutdownLeavesNothing ==
  \A op \in Operators \ interrupted :
    phase[op] = "gone" =>
      /\ installDir[op] = {}
      /\ \A e \in live : e.op = op => ~e.hasCas
==============================================================================
