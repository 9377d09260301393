# A TLA+ model of the Streams NLP toolkit

The toolkit `com.ibm.streamsx.nlp` is a set of operators for IBM Streams.  Most of them are
thin functions of one tuple; the hard part is in the operators that run something beside the
operator: a shell command behind pipes, an analysis engine that is replaced at run time, a
tagger all operators share, a corpus that is written while it is read.  This directory models
that part, checks it with TLC and proves what matters most of it with TLAPS.

Paths below are relative to `src/com.ibm.streamsx.nlp/`.

## 1. Inventory

| Component | State | Operations | Hard behaviour | What makes it correct | Here |
|---|---|---|---|---|---|
| **LinuxShell** `impl/include/streamsx.shell/LinuxShell.h` | pipe descriptors, `child_`, text buffers, `stdoutClosed_`, `shutdown_`, `terminated_`, exit reason and code, `mutex_` | `setup`, `writeLine`, `readLine`, `shutdown`, `terminate`, destructor | called from four threads; blocking pipes; the command may end at any moment; 100 ms then `SIGKILL` | input intact and in order, output complete, one close per descriptor, the command always reaped, a regular end told from a failure | modelled |
| **ShellPipe** `.../internal/ShellPipe` | `mutex_`, `drainMutex_`, `drainCV_`, `drained_`, `firstTuple_`, `inputTuple` | `process(tuple)`, `process(punct)`, reader thread `process(idx)`, `prepareToShutdown` | writer, reader, runtime and command run concurrently; the FinalMarker waits for the reader | each printed line submitted once before the final punctuation; no hang; no spurious abort | modelled |
| **Descriptor inheritance** `LinuxShell::setup` | the file table of the PE | `pipe`, `fcntl`, `fork`, `close`, `exec` | several operators fork in one process | a shell holds its own ends only, so every reader sees its end of file | modelled |
| **ShellSource** `.../internal/ShellSource` | as ShellPipe, plus iteration state | `executeShell`, `process(idx)`, `process(tuple)`, `process(punct)`, `prepareToShutdown` | a new shell per iteration or command tuple on one LinuxShell; shutdown during `setup`; `drained_` never reset | each command's output and exit code complete and its own; failures abort; the shutdown and the FinalMarker complete | modelled |
| **Classification pipelines** `LinearClassification.spl`, `ContentRanking.spl` | the gate's count of unacknowledged documents | gate, ShellPipe, script, acknowledgement | the reader copies attributes without a lock; several threads bring the first document; the script may die | each result belongs to its document; one shell; the gate opens again | modelled, but for the parsing of the result line |
| **UIMA operators** `impl/java/...` | `ae`, `cas`, `pearFile`, `installDir`, `updateLock`, the static `controlPortDefined` | documents on port 0, PEAR name and punctuation on port 1, `shutdown` | update against processing against shutdown; a load that fails at any step, and the fallback; several operators of one virtual machine | a document is processed by one complete engine; after an update the new file or the initial one is in use; nothing is left behind | modelled, but for the conversion of annotations |
| **gposttl** `impl/src/gposttl-0.9.3-mod/src` | arrays, registries, the loaded lexicon, rules and bigrams: globals of the process | `initialize_tagger`, `tag`, `DestroyPosTagger`, and the functions of its library | manual memory in every step; storage that moves; rules of many kinds | array and registry are what their headers say; each block is freed once; tags follow the rules | modelled |
| **Lemmatizer** `Lemmatizer_cpp.cgt` | none of its own | constructor, `process`, destructor | several operators share one tagger | the tagger lives as long as its users | modelled |
| **NgramBasic, Ngrams, textutils** | hash tables | n-gram generation, rolling hash, `lemmatize` | unsigned arithmetic, hash updated in place | all and only the n-grams | modelled as functions |
| **TfIdfWeight, IdfCorpusBuilder** | `_termsMap`, `_numDocuments`, `_idfDefault`, `_termsInCurrentDocument`, `_tuple`, `_mutex`; the trainer's counts and its file | the constructor reads the file; documents on port 0; control tuples on port 1, which are ignored; training and writing | a file that is absent, being written or cut within a line when it is read; several threads on port 0; counting and weighing in one pass | the corpus is what was trained, or a part of it; the lists of a document are of its own terms, as the formula says | modelled |
| **DictionaryFilter** | `_dict`, `_dictUpdate` | text on port 0, `add`/`clear` and punctuation on port 1 | no lock between the ports | - | not modelled (section 6) |
| Model builders, code generators, microservices, samples, tests, setup | - | - | batch jobs, Perl at compile time, wiring | - | not modelled (section 6) |

How they interact: LinearClassification and ContentRanking contain a ShellPipe; ShellPipe and
ShellSource embed a LinuxShell; all shells of a PE share its file table; IdfCorpusBuilder writes
the file TfIdfWeight reads; Lemmatizer calls gposttl through textutils, and all
Lemmatizers of a PE call the same one.  Everything else is independent.

The hazards, each at its line, are in `PROJECT.json`.

## 2. Modules

    LinePipe               what a shell operator promises downstream (abstract)
       ^ implemented by
    ShellPipe              the operator: writers, reader, runtime
       | extends
    LinuxShell             one shell object, its pipes, its command
       ^ extends
    ShellSource            runs commands in a row (implements LinePipe, too)
    ClassificationPipeline extends ShellPipe: Gate before it, acknowledgement behind it
    ShellFork              setup() of several shells in one file table

    UimaUpdate             the UIMA operators of one virtual machine
    TfIdf                  IdfCorpusBuilder, its file, and TfIdfWeight

    Deque, Dictionary      what darray.h and registry.h promise (abstract)
       ^ implemented by
    Darray, Registry       darray.c and registry.c
    GposttlText            the text functions of gposttl (operators only)
       ^ extended by
    TextUtils              lemmatize, n-grams, rolling hash, noun phrases
    BrillRules             what lexicon and rule files mean (operators only)
       ^ extended by
    Lemmatizer             operators, shared tagger, and every block it allocates

    MCShellPipe, MCClassificationPipeline, MCShellSource, MCUimaUpdate, MCTfIdf,
    MCLibrary (Registry and TextUtils side by side), MCLemmatizer
                           instances for TLC

    LinuxShell_proofs, ShellPipe_proofs (with the pipelines), ShellSource_proofs,
    ShellFork_proofs, UimaUpdate_proofs, TfIdf_proofs, TextUtils_proofs,
    Gposttl_proofs (Darray, Registry, Lemmatizer)
                           theorems (section 4)

### LinuxShell

The variables are the members of the C++ object (`shutdown`, `terminated`, `exitReason`,
`exitCode`, `mutex`, `fd`, `buffer`, `closed`), the kernel's side (`inPipe`, `outPipe`, `outEnd`,
`inWrite`), the command (`proc`, `status`, `heard`, `work`) and a few history variables.
Operators correspond to code as `PROJECT.json` "map" lists.  Points a reader may trip over:

* **Tokens.**  A line is a sequence of tokens: pieces of text, the newline, the NUL byte.  Pipes hold
  `PipeSize` tokens and a read returns at most `ChunkSize`, so partial lines, several lines in a
  chunk and full pipes all occur with very short lines.  One `write()` transfers one token: the
  kernel may split a write anywhere.
* **terminate()** is two steps, `TerminateBegin` and one of `Reap`, `Kill`, `WaitFails`, `WaitForeign`,
  with `mutex_` held in between and the rest of the system running: that is where the races are.
  Its polling is abstracted to its outcome: the command is found ended, or it is killed.  A
  command that ends between the last poll and the kill counts as killed; the code reports the same.
* **Descriptors** are "garbage" before the first `setup()`, "open" or "closed".  A use of a
  descriptor that is not open goes into `stray`; the properties are about this set.
* **The command** is a relation `Program` of lines read and text printed.  Beyond
  that, it may exit or die with any status in `QuitStatus` at any time (`ChildQuit`), and close any
  stream in `Closers` (`ChildClose`).  `faulty` records that it did.  Its exit closes its streams
  and makes it a zombie in one step; the kernel closes the files first, and the difference only
  adds a wait inside `terminate()`.

### ShellPipe

One program counter per thread names the next statement; a writer is an upstream thread, `Reader` is
`process(uint32_t)`, `PE` is the runtime that calls `prepareToShutdown()`, joins the threads and
runs the destructor.  Labels and code:

| Label | Statement in `ShellPipe_cpp.cgt` |
|---|---|
| `check`, `setup`, `fork`, `mark` | 228, 230 (`SetupBegin`, then `SetupFork`), 235 (with initOnFirstTuple) |
| `enter`, `store`, `write`, `writeFail` | 239-242, 242-246, 247 (writeLine), 247-251 |
| `shut`, `drain`, `waiting` | 265, 266-269, inside `drainCV_.wait` |
| `spin`, `test` | 151-153, 158 |
| `read`, `select`, `readOut`, `readErr`, `fail` | inside `readLine()` |
| `copy`, `submit` | 164-170, 171-187 |
| `caught`, `drain`, `finish` | 189-196, 198-202, 205 |

`inputTuple` is a pair, its first and its last attribute, so that a half-finished assignment is
visible.  An abort ends the PE: no action is enabled after it except the final stuttering.

### ShellSource

`executeShell()` and the three handlers that lead to it, on the threads that call them.  Whether there is an input
port is decided when the operator is compiled; `hasInput` is chosen in `Init`, so one run covers both.  `setup()` is
two steps (`BeginRun`: the reset of the members, `Run`: pipes and fork) because `prepareToShutdown()` can come
between them: `setup()` takes no lock.  Labels: `setup`, `fork` (253), `test` (261), `read` ... `fail` (readLine),
`submit` (267-292), `caught` (294-301), `drain` (303-307), `finish` (310), `report` (311-330), `punct` (333),
`loop` (174-190), `shut`, `await` (229-231).  A command prints one of the outputs in `Program` and exits; its
input is not used by this operator.  The initial delay and the interval are blocking waits that a shutdown cuts
short: they are the time a thread spends at `loop`.

### LinePipe and the refinement

LinePipe prints, delivers whole lines in the order of their stream, and finishes only when both
streams have ended and everything was delivered, or a shutdown was requested.  `KeepsPromise` is
`Promise!Spec` under the mapping at the end of `ShellPipe`: `printed` is what the command wrote,
`taken` counts the printed tokens that submitted lines account for, `delivered` is
`emitted` without the copied attributes.  For ShellSource `delivered` is the output of the current command, the
punctuation is one window marker, and `Start` may follow it (`Repeats`).  That the pipes, the buffers and the reader's local variables hold
exactly what is neither delivered nor lost is what TLC checks, and what section 4 proves.

No run's program prints a NUL byte; section 5 says what the code does with one.

### ShellFork

The same `setup()` cut into its system calls, for several operators in one file table, because a child
inherits every descriptor of the process.  `Sequential` says whether setups exclude each other, as the
constructors of a PE do.

### ClassificationPipeline

The variables of ShellPipe and one more, `unacked`, the count in the Gate.  `PipelineNext` is ShellPipe's
next-state relation with the Gate on the steps of the upstream threads and the acknowledgement on those of the
reader.  Operators of one PE call each other, so the Custom operator and the Gate run inside the reader's
`submit()`: acknowledgement and submission are one step.  `ContentRanking.spl` has the same graph.  The script is a `Program`
that prints one line per line it reads, and may exit, fail, or close its standard output at any time.  A script that has closed it and goes on is `Mute`:
the reader goes round `readLine()` until the other stream ends, too, no answer can come any more, and the Gate stays shut.

### UimaUpdate

Each operator has its members (`pearFile`, `initialPearFile`, `instPear`, `installDir`, `ae`, `cas`,
`updateLock`), and each thread the step of the handler it is in.  A load is `Uninstall`, `installPearFile`,
`prepareAnalysisEngine`; each step fails if the file has that `defect`, and the file on disk may be replaced between them.
The second attempt of `processWindowPunctuationPort1` with the initial file is the flag `second`.
`checkParameters` sets the static `controlPortDefined` for all operators, so the last one decides whether documents
take the lock; the model keeps that, and the properties name the case.  `Feeds` says which operators a control thread serves.  `shutdown()` is two steps, engine and directory, and waits for
nobody.  `live`, `wanted`, `refused` and `interrupted` are history.

### TfIdf

Three actors.  The trainer is `OpenSink`, `Train`, `EndTraining`, and for each term `WriteTerm`, before which the file may end within its line (`CutTerm`):
the FileSink empties its buffer when it is full.  The constructor is one step, `ReadCorpus`, or `ReadFails`; the file only grows, so
what is read is what is in it at the moment the end of the file is met.  A cut line is read as a frequency with too few digits, or as
a name, possibly a shortened one, without a frequency, for which `tokens[1]` is whatever lies behind the list.  A cut first line changes no
weight of the model: the map is empty then.  `_numDocuments` is never initialised, so without a file it is any number.

The threads that call port 0 are `ReceiveDocument`, `WeighTerm` for each term, and `SubmitLists`.  They share the
members of the operator; `Enter` is the `AutoMutex` on `_mutex`, which the generated code has only if there is a control port.
`ReceiveControl` changes nothing (section 5).  The punctuation handler keeps no state.  The divisor all weights of a
list share, the length of the document, is left out, and the logarithm is a constant function `Idf`.  `whole` and `lists` are history.

### Darray, Registry, Deque, Dictionary

`Darray_...` and `Registry_...` are the C functions as operators on a representation (storage, offset, length; table of
chains); the actions apply them to one array and one registry.  Freshly allocated memory holds `Junk`.
`call` and `asked` hold the function called last with its arguments, and a bit that changes with every call, so that no call is a stutter, not even one
that changes nothing.  `ImplementsDeque` and `ImplementsDictionary` are refinements in which the call is mapped to itself: each function has to do
what the abstract one of the same name does *for the same arguments*, and to answer the same.  `items` is what `Darray_values` returns, and the map is what
the chains hold, read with the comparison function; results map to themselves.

### GposttlText, TextUtils

Functions of a text, a sequence of characters, and `TextUtils` grows that text by one character at a time, so that a
run sees every text up to a length.  Each is compared with a definition of its own kind: tokens are separated whatever overlaps
(`TokenizerSeparates`), n-grams are all windows of each size (`NgramsAsDefined`), the hash updated in place counts what a
hash of each window counts (`NgramsCounted`).  `lemmatize` and `FindNounPhrase` cut the tagger's print in two ways, one by lines and
tabs, the other at every blank with each third piece a lemma; `NounPhrasesAreMaximal` says that they agree: the noun phrases are the
lemmas of the maximal runs of nouns in the lists of `lemmatize`.
The rows of the tokenizer's and the tag tables are data: a few of each shape are kept.

### BrillRules, Lemmatizer

`BrillRules` says which words each lexical and contextual rule applies to and what it changes.  `Lemmatizer` is the program
around it: constructors open and load four files, `tag()` goes through its stages rule by rule, destructors
destroy.  Every block has a name; `Memory` allocates and frees, and sets `fault` when a block is used or freed that is
not there.  The tagger's globals are one set of variables, whatever the number of operators, as in the code.

## 3. Runs

| Run | Instance | Checks | States |
|---|---|---|---|
| `pipe_safety` | 2 writers, 2 tuples, pipes of 2 tokens, every fault of the command, shutdown at any time | `TypeOK`, `LinesIntact`, `InputConsumed`, `NoSpuriousAbort`, `AbortHasCause`, `OwnDescriptors`, `NothingLeft` | 735 k |
| `pipe_promise` | initOnFirstTuple, 1 writer, a command that prints no, several and unfinished lines, pipes of 1 token, both output ports | `KeepsPromise` | 884 k |
| `pipe_live` | 1 writer, pipes of 1 token, early exit, closed streams, a window marker | `FinalCompletes`, `ShutdownCompletes` | 172 k |
| `pipeline` | 2 upstream threads, 3 documents, 1 unacknowledged, initOnFirstTuple, a script that may exit, fail or close its stdout, shutdown at any time, pipes of 1 token | `ResultsBelong`, `OneShell`, `GateReopens` | 316 k |
| `source` | 2 callers, 2 commands on one shell object, every fault, a shutdown at any time, with and without input port | `ReportsOwnCode`, `AbortsOnFailure`, `OwnDescriptorsOnceStarted`, `KeepsPromise`, `FinalCompletes`, `ShutdownCompletes` | 210 k |
| `fork_sequential` | 3 operators, 1 shell each | `OwnEndsOnly`, `EachDrains` | 9 k |
| `library` | arrays of up to 3 elements in up to 4 slots, 3 keys of which 2 compare equal, all texts of up to 4 of 8 characters | `InvariantConditions`, `ChainsWellFormed`, `SplitFits`, `TokenizerSeparates`, `ListsAligned`, `NounPhrasesAreMaximal`, `NgramsAsDefined`, `NgramsCounted`, `ImplementsDeque`, `ImplementsDictionary` | 15 k |
| `tagging` | 1 operator, 5 sets of data files, 2 texts of up to 3 of 9 words | `LastUse`, `NothingLeft`, `KnownWordsKeepListedTags`, `StartTagsAsDefined` | 112 k |
| `uima` | 2 operators, 1 with a control port, 2 document threads, 1 control thread, 2 files, 2 documents, 3 control inputs, 1 replacement on disk | `OneEnginePerDocument`, `FallsBackToInitial`, `ShutdownLeavesNothing` | 4.4 M |
| `tfidf` | 3 terms, one a beginning of another, 2 documents to train with, 3 to weigh and 2 weighed, 2 threads, counts of two digits, a file read before, while or after it is written | `CorpusAsTrained`, `ListsByFormula` | 101 k |
| `find_shared_tagger` | 2 Lemmatizers | `LastUse`, violated (section 5) | - |
| `find_top_terms` | `tfidf` without a limit | `AllTermsListed`, violated (section 5) | - |

**Why these bounds are enough.**  Shells: two tuples of two tokens (text, newline) overrun pipes of one or two
tokens, so writers do block, the command blocks on its output, and a read ends in the middle of a line.  Two
writers are the least that can compete for `mutex_`; they are interchangeable, so symmetry is used where
no liveness is checked.  Each fault can hit at each point of the few lines there are.  More tuples would repeat the
same interleavings; the theorems of section 4 cover all bounds for the safety properties.
`pipe_promise` and `pipe_live` use one writer: the property is about the reader, and liveness
checking is exponential in the rest.  `pipe_promise` starts the shell on the first tuple: from there on its
behaviours are those of a shell that was started before, and the late start is checked with them.  `pipeline` has three documents, so that one can be answered, one be in the shell and one at the
gate; one of them is empty, and a line with its end fills a pipe twice.  Library: four slots let a block grow at both ends and move; a table of one, two or three chains has keys that collide and
keys that do not; four characters hold two words and what is between them, overlapping patterns and tags.
A hash of six bits collides for some n-grams and not for others, and 8-bit unsigned numbers wrap like 32-bit ones.
Tagging: five sets of data files use every kind of rule between them, three words are a start, a middle and an end, and a second
text finds what the first one left.  UIMA: three control inputs are a name, its punctuation and one of the next pair;
a replacement makes a file that loaded once fail; two document threads compete for one CAS.  TfIdf: one count has two digits, so a cut
line can shorten it, and one term is a beginning of another, so a cut name can be taken for it; documents repeat terms, so the order of counting and weighing shows,
and what one document leaves is seen in the second one.  Library: the view leaves the last call out of the states, since no call depends on the one
before it; TLC checks the refinement on each step it computes, with its call, also where the state it leads to has been seen before.

**Deadlock.**  Switched off where the modelled input ends or the program stops for good: `library` (storage and
text reach their bound), `tagging` and `find_shared_tagger` (the operators are destroyed), `uima` (the processing element has ended),
`tfidf` and `find_top_terms` (the documents run out), `source` (a FinalMarker without a command waits for ever, section 5).  It is
checked in all runs of ShellPipe, the pipeline and ShellFork.

**Fairness.**  The operating system schedules every thread, so each writer, the reader and the runtime
get weak fairness on their own steps; locks need no strong fairness with the few competitors for
`mutex_` there are, and a thread that is signalled on `drainCV_` finds `drained_` set.  The command is
assumed to go on reading, printing and, at the end of its input, to exit (`WF_vars(CommandStep)`).
Nothing makes the upstream send anything, the runtime shut down, or the command fail.  `pipe_live` fails
without any one of these: for instance a command that ignores the end of its input keeps
`select()`, which has no timeout, and with it the shutdown, waiting for ever.  `PipelineFairness` is the same, with the Gate's
count.  The other modules state no fairness: nothing in them waits but for a lock whose holder only computes.

## 4. Proofs

`tlapm` checks every theorem for all values of the constants allowed by the named assumptions of the
modules (`TokenAssumption`, `SizeAssumption`, `ProgramAssumption`, `FaultAssumption`,
`ThreadAssumption`, `BoundAssumption`, `ParamAssumption`, `PayloadAssumption`; `GateAssumption`; `OperatorAssumption`,
`ModeAssumption`; `UimaAssumption`; `ValueAssumption`, `GrowAssumption`, `RegistryAssumption`; `TermAssumption`, `FileAssumption`, `LimitAssumption`; `LemmatizerAssumption`, `TextAssumption`), all of which TLC evaluates on its runs.
`LemmatizerAssumption` says of the data files what those the toolkit ships (`etc/gposttl`) fulfil: a tag is neither the mark
`STAART` nor the slash that separates it from its word, and each line of the lexicon lists a tag.  `TextAssumption` says that the
length of a text fits into an unsigned number.

Loops are recursive functions in the model, and the proofs show what they compute by induction over natural numbers, without the
library's induction theorems: `FromZero` rests on the well-foundedness of `<`, `Loop` says that the series of states of a loop exists, and
`AlongLoop` that what each pass keeps holds at the end (`TextUtils_proofs`, first part).

**Shells** (`LinuxShell_proofs`, `ShellPipe_proofs`, `ShellSource_proofs`, `ShellFork_proofs`)

* `TypeCorrect`: `Spec => []TypeOK`, with or without initOnFirstTuple.  `LinuxShell_proofs` has
  one lemma per step of the shell, so that another operator that embeds a LinuxShell can use them.
* `Inductive`: without initOnFirstTuple, `Spec => []IInv`.  `IInv` adds to `TypeOK`
  - *WriteSide*: a writer inside its line holds `portMutex` and no other one does (`Exclusion`);
    only that writer has a `write()` under way (`WritingAt`); nobody is in the part of `process(tuple)`
    that starts a shell late (`NeverLate`); and, the heart of it, **accepted = consumed, then the stdin
    pipe, then the rest of the line in progress** (`Accounted`);
  - *ShellSide*: which descriptors are open is determined by `shutdown`, `terminated` and `mutex`
    (`Owned`), and no stray use has happened (`OnlyOwn`);
  - *Deserted*: once the destructor's turn has come, no thread is in the operator.

  None of the safety properties is inductive alone: whether a line stays whole depends on who holds the mutex,
  and whether a close is legal on which of `shutdown()` and `terminate()` came first.
* `LinesStayIntact`, `OnlyItsOwn`, `LeavesNothing` follow from it: `LinesIntact`,
  `OwnDescriptors` and `NothingLeft` for any number of writers, any payload, every fault.
* `EndInductive` adds `EndSide`, what holds around the end of the command: what precedes and follows the FinalMarker
  (`AfterFinal`, `Forwarding`), what the object has recorded of the end (`Recorded`), that the reader is where it learns of it
  (`AtReader`), and that a command nobody disturbs only ends after `shutdown()`, with its input read and status 0 (`Undisturbed`).
  From it follow `AbortsForCause`, `NeverAbortsUndisturbed` and `FinalAfterInput`: `AbortHasCause`, `NoSpuriousAbort` and
  `InputConsumed`.
* The start and the output of ShellPipe, with initOnFirstTuple, too: `StartsOneShell` is `OneShell`, and `LinesDelivered` is
  `KeepsPromise`, that ShellPipe implements LinePipe.  The invariant, `Relaying`, says who brings the final punctuation and what
  precedes it (`FinalOnce`), how far the start of the shell is (`Startup`), and that what a stream has printed is in one of the places
  between the command and downstream (`Relay`, see ShellSource below).
  - The hypothesis is `[]OneAtATime`: no two threads are in the part of `process(tuple)` that starts the shell.  The code cannot
    ensure that itself, since it looks at `firstTuple_` before it takes any lock, and without it two shells are started (section 5).
    `OneStarterOneShell` and `OneStarterDelivers` have it from `OneStarter`: initOnFirstTuple is off, or there is
    one upstream thread; the pipelines have it from their Gate.
  - `LinesDelivered` takes `PlainProgram`, the command prints no NUL byte, as for ShellSource.
* The pipelines, with `MaxUnacked = 1`, the value both composites give the Gate, and any number of upstream threads.  `GateKeepsApart`:
  a second thread is not let through while the first document is unacknowledged, and it is so until the shell has
  answered (`FirstAlone`), so `OneAtATime` holds.  `GateStartsOneShell` and `GateDelivers` follow from the theorems of ShellPipe.
* `ResultsBelongToDocuments` is `ResultsBelong`.  The reader copies attributes of whatever tuple was stored last, without
  a lock, and nothing in the text says which document a line answers; the invariant `InFlight` says why it
  is right all the same.  As many results came out as documents went in, but for the one under way (`Counting`).
  That one is either with the one writer that has something to write (`OneBusy`), or in the pipe and in what the command has read of it,
  or is being answered (`Answering`), and in each case what the command and the pipes hold is known
  exactly (`Fed`).  From the moment it is stored, the attributes are its own (`Stored`), and no other document is stored before its
  line has been submitted.  That an incomplete answer means a command that failed needs that nobody closes or kills one
  that works as it should (`Steady`).  Hypotheses, each of them needed (section 5): `LineByLine`, documents have no
  newline and the script answers each by one line, without a NUL byte; and one output port, as in the composites.
* ShellSource: `Inductive`, with no hypothesis.  One shell object serves many commands, so the invariant is about the life of
  each: who is in the operator (`OneCaller`), whether the command runs, has ended or was reaped by the terminate() whose
  step is under way (`Life`), which descriptors are open (`Closing`), and what a command that nobody disturbs ends with (`Undisturbed`).
  `ExitCodeIsItsOwn`, `AbortsForFailure` and `OwnDescriptors` are `ReportsOwnCode`, `AbortsOnFailure` and `OwnDescriptorsOnceStarted`.
* `LinesDelivered`: ShellSource implements LinePipe, `Spec => KeepsPromise`.  The argument is in `LinuxShell_proofs`, once for
  every operator: what a stream has printed is, at each moment, what submitted lines account for, then the line `readLine()` has just
  cut, then the buffer, then the pipe (`Flow`, from `Track` and `IsLine`), and the steps of the command and of `readLine()` keep it
  (`FlowPrinted`, `FlowRead`, `FlowTaken`, `FlowEnds`).  ShellSource adds where that holds (`Relay`), and each of its steps is a step of
  LinePipe or a stutter.  The hypothesis `PlainProgram` says that the command prints no NUL byte: `buffer += buf` cuts a
  chunk at one, and the promise is broken then (section 5).
* `NoForeignEnds` (ShellFork): under `Sequential`, `Spec => []OwnEndsOnly` for any number of operators.

**UIMA** (`UimaUpdate_proofs`): `DocumentMeetsOneEngine`, `Spec => []OneEnginePerDocument` for any number of operators, threads
and files.  That an engine is complete when a document arrives depends on every step of every update since the start.  The invariant says
which steps belong to which thread and hold `updateLock` (`AtWork`, `AfterStart`, `Locked`), that engines belong to the operator that
made them (`Owned`), that an operator which is ready and not being updated has a complete engine with its files installed
(`Complete`), and what a document has found so far (`Begun`).  What concerns documents, a part of `Locked` and `Begun`, holds
under `controlPortDefined`.
`ShutdownCleansUp` is `ShutdownLeavesNothing`: an operator has at most one engine with a CAS, the one it works with (`OneComplete`), and after
a shutdown outside an update nothing is made or installed for it (`ShutDown`).  `UpdatesFallBack` is
`FallsBackToInitial`, under `OneFeeder`: each control port is fed by one thread.  Its invariant says what each attempt of an update is
about to load and what was refused before it (`Attempt`), and what is loaded when no update is under way (`Loaded`, `Ended`).  Without
`OneFeeder` it is false: a name that another thread brings between the two attempts is loaded by the second one.

**Arrays and registries** (`Gposttl_proofs`): `ConditionsHold`, `ArraySpec => []InvariantConditions` for arrays and blocks of any size and any step of growth.  The invariant
`IsArray` is about the representation alone: the block has the size it says (`IsBlock`, `Sized`), and each element has been stored
(`Filled`).  There is one lemma for each C function and each way a block grows, and the actions follow from these.
`DequeRefined` is `ArraySpec => ImplementsDeque`: each call does to `Darray_values` what the call of the same name and arguments does to the queue, and
returns the same.  `Darray_copy` adds
the elements one by one; that the result has the same values is shown by induction over their number (`CopyLoop`).
`TableWellFormed` is `RegistrySpec => []ChainsWellFormed`, for any keys, comparison, hashes and sizes.  The invariant `RegistryInv` is about the chains
(`Hashed`, `Single`) and the set of records they hold (`Counted`); that `Registry_traverse` lists that set, each record once, is
a lemma about `FlattenSeq` (`Flattened`, `TraversalLists`).  Each change of a chain is an element more, less or exchanged in the set (`Pushed`,
`Unlinks`, `Replaces`), and so an association more, less or exchanged in the map: `DictionaryRefined` is
`RegistrySpec => ImplementsDictionary`, again call by call, so that `Registry_get` of a key answers for this key and with NULL only if there is none.  It rests on the arrays, too, into which the contents are fetched (`AddedAll`).

**Lemmatizer** (`Gposttl_proofs`): for any data files that fulfil `LemmatizerAssumption`, any rules and texts, through failing constructors, all stages of
`tag()` and the destructors.  `LastUseHolds` and `NothingStays` are `LastUse` and `NothingLeft`.  Neither is inductive: whether a block may be
freed depends on all blocks there are.  The invariant `Owned` names them: in each phase the heap is exactly the loaded data and what
the present text has allocated so far (`Account`), where the steps of the operators say whether the data is loaded (`Control`), the stage of
the text what it consists of (`Text`), and the rules applied so far which tags were handed to words (`Handed`).  The hypothesis is
`OneOperator`: with two, the globals of the tagger are released twice (`find_shared_tagger`).
`KnownWordsHold` and `StartTagsHold` have no hypothesis: `KnownWordsKeepListedTags` follows from `Answered` (the words stay in their places,
and a contextual rule gives a known word listed tags only), `StartTagsAsDefined` from `ByRules` (after each lexical rule every unknown
word has the tag it would have had alone, whatever rules did to other words and earlier texts).

**Text functions** (`TextUtils_proofs`): for texts of any length.  Words are of any length, too, in the model; `TokenizerHolds` and
`ListsHold` speak of the code as long as each word fits into its buffers (section 6).

* `CountsHold` is `NgramsCounted`, for any alphabet, table of hashes and width.  Hashes are compared modulo 2^wordsize (`Congruent`); the hash that is
  rolled on is the hash of the window (`RollsOn`), which is the sum the definition has (`SumIsEaten`); and the
  loop that moves counts to the first place of a hash leaves each n-gram its number of occurrences there (`CountedOnce`).
* `TermsHold` is `NgramsAsDefined`: `TermIsJoined` for one term, `SizesInOrder` for the sizes in either order.
* `SplitsHold` is `SplitFits`.  Words are counted by their first characters (`TokensCounted`), and so are they by the two nested loops of `num_words`, unwound from the
  end of the text (`WordsBehind`); each first character but one has a space before it, for the table adds no tab (`TabsStay`, `SlotsSuffice`).
* `TokenizerHolds` is `TokenizerSeparates`.  Counting and copying agree for each row (`RoomForRow`); what is left of a text without its spaces
  is put together from its parts, so a row that only moves spaces leaves it (`ReplaceKeeps`, `RetokenizedKeeps`); and a separator stands alone after its own row
  (`SetApart`) and is kept apart by the later ones, none of which has it or takes a space away at its ends (`AloneKept`).
* `ListsHold` is `ListsAligned`.  The print is a line for each word, since none has both brackets (`WordsTaggable`, from the tokenizer), and what is
  put together with separators is taken apart into the same parts (`TokensOfPart`, `TokensOfLines`, `FieldsOfLine`, `AlignedLists`).
* `NounPhrasesHold` is `NounPhrasesAreMaximal`.  The pieces of the print are word, tag and lemma in turn (`PiecesOfLines`), `WithFinalSpace` is
  about the end of the text, and the loop over the tags finds each maximal run of nouns once (`AllSeriesFound`; the invariant is
  `FoundAt`: the runs that have ended, and the beginning of the one that has not).
* The last two take two hypotheses, and the print is ambiguous without them: the text has no newline, and no tag is a blank or a
  newline.  The tags are those of the lexicon and the rules, which are read as words between blanks.

**Corpus** (`TfIdf_proofs`): for any terms, documents, defaults, limit and number of threads.  `ReadAsTrained` is `CorpusAsTrained`.  Its invariant,
`CorpusInv`, says which lines of the counts are on disk, and that at most one is cut (`Stored`), and that what was read is one of these lines or a
misreading of the cut one (`Loaded`).
`ListsAreByFormula` is `ListsByFormula`, under `hasCommandPort`: without a control port there is no lock, and it is false
(section 5).  Its invariant, `ListsInv`, says that only the holder of `_mutex` is inside a document (`Turn`), that its terms so far are counted
and weighed, and nothing else is (`Weighed`, from `Follows`), and that nobody weighs before the corpus is read (`Started`).

Only model-checked: all liveness (`FinalCompletes`, `ShutdownCompletes`, `GateReopens`, `EachDrains`), which is out of the prover's reach.
Every other property of a passing run is stated by a theorem, under the hypotheses named above.

## 5. Where code and documentation disagree

* `find_shared_tagger`: "Calling this routine should be the last use of the dynamic_array" (`darray.h:71`).  The tagger is global, each
  Lemmatizer initialises it, and each destructor destroys it: the second one frees everything again.
* `find_top_terms`: "If this parameter is not specified, then all terms are in the output list" (`TfIdfWeight.xml:97`).  After
  the first term, one is listed once for each entry it is not lighter than: never, if it is lighter than all of them, and
  several times otherwise.

Seen while modelling, and described here without a run:

* ShellSource: "The ShellSource operator emits punctuation on all configured output ports after each shell command exits" (`ShellSource.xml:33-34`),
  and, with a second port, a tuple with its exit code (138-155, 402-404).  A code other than 0, outside a shutdown, aborts the PE before
  either (`ShellSource_cpp.cgt:294-297`).  `AbortsOnFailure` states what the code does.
* TfIdfWeight: "You can also change the defaultIDF value with this control port tuple" (`TfIdfWeight.xml:116`), and the corpus with
  its `corpusFile` attribute.  The port is declared non-mutating (117), so its tuples go to the `process()` for non-mutating ports, which is empty
  (`TfIdfWeight_cpp.cgt:346-350`); the code that handles them (313-343) is in the one for mutating ports.  Which of the two is called is up
  to the Streams runtime, which is not in this repository; the other operators agree with it (ShellPipe is non-mutating and has its
  code in the first one, DictionaryFilter is declared mutating).
* TfIdfWeight: the term frequency is the "number of times term appears in a document" (`TfIdfWeight_h.cgt:64-67`).  `process()` counts
  in a member and takes `_mutex` only if there is a control port (`TfIdfWeight_cpp.cgt:221-223`); otherwise two threads on port 0 mix
  their documents: `tfidf` with `hasCommandPort = FALSE` violates `ListsByFormula`.
* ShellPipe with initOnFirstTuple: two upstream threads that bring the first tuples together both start a shell
  (`ShellPipe.xml:248`; `OneShell` holds behind a Gate only); the FinalMarker is stuck if no tuple came before it; setups of two
  operators can overlap, and then (ShellFork with `Sequential = FALSE`) a shell can inherit another one's stdin end
  and keep that command waiting for its end of file until it ends itself.
* ShellPipe without a Gate: an output tuple can mix the attributes of two input tuples (`ShellPipe.xml:93`;
  `ResultsBelong` holds behind a Gate).
* Window punctuation is not preserved in its place among the lines (`ShellPipe.xml:297`).
* A command that exits early with status 0 brings down the PE instead of yielding punctuation; one that closes its
  streams and works on is killed after 100 ms; one that ignores the end of its input blocks a shutdown.
* Text after a NUL byte in a chunk is dropped with its newlines.  No run's program prints one.
* Pipelines: a document with a newline is read as two, and an array that `str()` breaks over several lines is printed as
  several; from then on results belong to the wrong documents.  A script that exits with 0 after the FinalMarker, before it has
  answered the last document, leaves it unanswered without an error, and one that closes its stdout and reads on keeps the Gate shut for
  ever (`GateReopens` names both cases, the end of the stream and `Mute`).
* ShellSource: a FinalMarker without any command before it waits for `drained_` for ever (the properties are stated for an input with
  a command); a shutdown before or inside the first `setup()` closes an
  uninitialised descriptor; a shell started after `shutdown_` was set leaves its stdin descriptor open.
* UIMA: when the operator checked last has no control port, documents of the others meet half-made engines; with several threads on
  the control port, a name that arrives between a fallback and its second load makes that load a file nobody asked for.
* The idf is documented as "divided by the number of documents where the specific term appears" (`TfIdfWeight_h.cgt:52-57`); the builder counts
  occurrences, several per document.  A second window marker in the training writes a header in the middle
  of the file, which the reader takes for a term without a frequency: `tokens[1]` does not exist there.  A file read while its last
  line is half written yields a frequency with fewer digits, or a name without one: `CorpusAsTrained` admits this one term.
* Tagger: rules named `addpref` and `faddpref` never apply.  `start-state-tagger.c:432-455` looks only at words that have the
  new tag of the rule already (`== 0`, where the other rules have `!= 0`), so a prefix never gives a word another tag; the model does the same.
* A shutdown that interrupts the writing of a line leaves its beginning in the pipe, which a command may take for a whole last line.

## 6. What the model leaves out

* Shells.  Failures of `pipe()`, `fork()` and `exec()` in `setup()`: the exception leaves a half-built object
  and the PE fails to start.  SIGPIPE is taken to be ignored, as in a Streams PE, so that a write to a dead command fails
  with `EPIPE`; EINTR is a repeated call.  The runtime joins all threads before the destructor and calls no handler after it.
  Text, logging, attributes beyond the two halves of `inputTuple`, counters.  A reuse of a closed descriptor's number by another file.
  `shutdown(true)`, which no caller uses.  Commands of ShellSource that never end: `readLine()` then blocks a shutdown
  until they print a line.  Two shells in one object: the model has room for one, and `OneShell` is what excludes a second.
* Pipelines.  The parsing of a result line, `NamesStream` and `LookupKBArticle`, which are functions of one tuple.
* UIMA.  The conversion of annotations, views and XMI; a `deleteDir()` that fails half-way; the order of context checks across virtual machines.
* gposttl.  The hash functions of `registry.c` are arbitrary; the table of `mersennetwister.h` is vendored and arbitrary; words that carry
  the tag STAART in the text; the output format without `enhance`; edge cases of data files (no final newline, an
  empty lexicon and the size hint 0, a word shorter than the suffix a rule deletes); the static state of `strtok`, for
  calls are not nested; failing `malloc`; the length of words: those of more than 255 characters overrun the buffers of `enhance_penntag.c:74-75` and
  `final-state-tagger.c:69-71, 182-183`, and the text properties say nothing of such texts.
* TfIdf.  The divisor and the logarithm, see above; a file left by an earlier run; a second window marker in the training, see section 5; terms with a colon.

**Not modelled**

* DictionaryFilter: port 1 clears and assigns a hash map while port 0 searches it, with no lock.  This is a data race, after
  which any answer or a crash is possible; each port alone is a set and a test of membership.  There is
  no property of both that the code keeps and a model could check.
* Model builders: batch jobs, graphs around ShellPipe and ShellSource with no protocol of their own.
* Code generators: Perl at compile time.  Microservices, samples, tests, setup: wiring, drivers and scripts.
* The Streams runtime, the Gate, UIMA, the kernel and the C library appear as far as the code uses them.

## 7. Plan

Done: the shells, ShellSource and the pipelines with their proofs; the UIMA operators with their proof; gposttl with the proofs
of its array, its registry and the Lemmatizer; the text functions with theirs; the corpus with its proofs.

Left, in order of worth:

1. Models: the conversion of UIMA annotations to lists; data files of the tagger with defects.
