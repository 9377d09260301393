-------------------------------- MODULE TfIdf --------------------------------
(***************************************************************************)
(* A corpus of term frequencies and its use: the composite                 *)
(* IdfCorpusBuilder counts the terms of training documents and writes them *)
(* to a file; the operator TfIdfWeight (TfIdfWeight_cpp.cgt) reads that    *)
(* file when it is constructed, which may be before, while or after it is  *)
(* written, and then weighs the terms of the documents on port 0.          *)
(*                                                                         *)
(* Port 0 may be called by several threads of the operators before it.     *)
(* They share all members of the operator; _mutex keeps them apart, but    *)
(* only if the operator has a control port.                                *)
(*                                                                         *)
(* All weights of a list have the number of its terms as a divisor; it is  *)
(* left out.  The logarithm is the constant Idf.                           *)
(***************************************************************************)
EXTENDS Integers, Sequences, FiniteSets

CONSTANTS
  Threads,           \* threads that call process() for port 0
  hasCommandPort,    \* is there a port 1?
  Terms,
  Trainings,         \* documents to train with, as sequences of terms
  Documents,         \* documents to weigh
  Idf(_, _),         \* log of documents over frequency, as an integer that orders them
  Defaults,          \* values of defaultIDF
  NTop,              \* nTopWeightedTerms; 0 if the parameter is not set
  Stumps,            \* Stumps[t]: terms whose name is t, or a beginning of t
  Garbage,           \* numbers found in memory that nobody has written
  Digits,            \* digits of the largest frequency: a bound
  MaxTraining,       \* documents in the training: a bound
  MaxDocuments       \* documents weighed: a bound

Frequencies == [Terms -> Nat]
Untrained   == [t \in Terms |-> 0]
NoHeader    == -1
Empty       == [documents |-> NoHeader, of |-> Untrained]

ASSUME TermAssumption   == IsFiniteSet(Terms) /\ Trainings \cup Documents \subseteq Seq(Terms)
ASSUME FileAssumption   == /\ Stumps \in [Terms -> SUBSET Terms] /\ Digits \in Nat
                           /\ Garbage \subseteq Nat /\ Garbage # {}
ASSUME ThreadAssumption == hasCommandPort \in BOOLEAN /\ "nobody" \notin Threads
ASSUME LimitAssumption  ==
  NTop \in Nat /\ Defaults \subseteq Int /\ MaxTraining \in Nat /\ MaxDocuments \in Nat

VARIABLES
  \* ---- IdfCorpusBuilder and its FileSink
  numDocs, counted,  \* documents so far; its termsMap, with 0 for absent
  unwritten,         \* terms whose lines are not on disk, or not to their end
  cut,               \* the term whose line is there in part, if there is one
  trained,           \* is the training over?
  present,           \* does the file exist?
  disk,              \* the whole lines in it: number of documents and frequencies
  \* ---- TfIdfWeight
  stage,             \* of the operator: "new", "ready", "crashed"
  termsMap,          \* _termsMap, with 0 for absent
  numDocuments,      \* _numDocuments
  idfDefault,        \* _idfDefault
  mutex,             \* _mutex: the thread that holds it, or "nobody"
  inDocument,        \* _termsInCurrentDocument, with 0 for absent
  weighted, top,     \* the two lists of _tuple
  document,          \* the document each thread has in process()
  next,              \* index of its next term, or 0 if there is no document
  \* ---- history
  whole,             \* was the file whole when it was read?
  lists              \* lists submitted, with their documents

builderVars == <<numDocs, counted, unwritten, cut, trained, present, disk>>
corpusVars  == <<stage, termsMap, numDocuments, idfDefault, whole>>
tupleVars   == <<mutex, inDocument, weighted, top, document, next, lists>>
vars        == <<builderVars, corpusVars, tupleVars>>

-----------------------------------------------------------------------------
(* The memory of the operator is there, but for _termsMap nothing is in it *)
(* yet: the constructor never sets _numDocuments.                          *)
Init ==
  /\ numDocs = 0 /\ counted = Untrained /\ unwritten = {} /\ cut = {} /\ trained = FALSE
  /\ present = FALSE /\ disk = Empty
  /\ stage = "new" /\ termsMap = Untrained /\ numDocuments \in Garbage
  /\ idfDefault \in Defaults
  /\ mutex = "nobody" /\ inDocument = Untrained /\ weighted = <<>> /\ top = <<>>
  /\ document = [th \in Threads |-> <<>>] /\ next = [th \in Threads |-> 0]
  /\ whole = FALSE /\ lists = <<>>

-----------------------------------------------------------------------------
(* IdfCorpusBuilder                                                        *)

(* The FileSink opens its file, which is empty then.                       *)
OpenSink ==
  /\ ~present
  /\ present' = TRUE
  /\ UNCHANGED <<numDocs, counted, unwritten, cut, trained, disk>>

Occurrences(t, doc) == Cardinality({i \in DOMAIN doc : doc[i] = t})

(* A training document.                                                    *)
Train(doc) ==
  /\ present /\ ~trained /\ numDocs < MaxTraining
  /\ numDocs' = numDocs + 1
  /\ counted' = [t \in Terms |-> counted[t] + Occurrences(t, doc)]
  /\ UNCHANGED <<unwritten, cut, trained, present, disk>>

(* The window marker: the number of documents, and a line for each term,   *)
(* in any order.                                                           *)
EndTraining ==
  /\ present /\ ~trained
  /\ trained' = TRUE
  /\ unwritten' = {t \in Terms : counted[t] # 0}
  /\ disk' = [disk EXCEPT !.documents = numDocs]
  /\ UNCHANGED <<numDocs, counted, cut, present>>

(* The FileSink flushes on punctuation, and its buffer may be full in the  *)
(* middle of a line.                                                       *)
CutTerm(t) ==
  /\ t \in unwritten /\ cut = {}
  /\ cut' = {t}
  /\ UNCHANGED <<numDocs, counted, unwritten, trained, present, disk>>

WriteTerm(t) ==
  /\ t \in unwritten /\ cut \subseteq {t}
  /\ unwritten' = unwritten \ {t} /\ cut' = {}
  /\ disk' = [disk EXCEPT !.of[t] = counted[t]]
  /\ UNCHANGED <<numDocs, counted, trained, present>>

-----------------------------------------------------------------------------
(* TfIdfWeight: the constructor                                            *)

(* Mutant of Kept: terms of frequency 1 are ignored, too.                  *)
KeptIfMore(f) == IF f <= 1 THEN 0 ELSE f

(* A frequency less than 1 is ignored.                                     *)
Kept(f) == IF f < 1 THEN 0 ELSE f

(* A number whose last digits are missing.                                 *)
Beginnings(n) == {m \in 1..(n \div 10) : \E k \in 1..Digits : m = n \div 10^k}

(* What the last line may be read as if it ends early: a frequency that is *)
(* too short, or a name without one, for which tokens[1] is whatever lies  *)
(* behind the list.                                                        *)
Cut(t) == {<<t, f>> : f \in Beginnings(counted[t])} \cup (Stumps[t] \X Garbage)

(* A term that is in the map already stays as it is.                       *)
Add(map, entry) ==
  IF map[entry[1]] # 0 THEN map ELSE [map EXCEPT ![entry[1]] = Kept(entry[2])]

(* readCorpusFile(): a file that is not there, or empty, leaves the map    *)
(* empty and _numDocuments as it is.                                       *)
ReadCorpus ==
  /\ stage = "new"
  /\ LET map == [t \in Terms |-> Kept(disk.of[t])]
     IN \/ termsMap' = map
        \/ \E t \in cut : \E entry \in Cut(t) : termsMap' = Add(map, entry)
  /\ numDocuments' = IF disk.documents = NoHeader THEN numDocuments ELSE disk.documents
  /\ whole' = (trained /\ unwritten = {})
  /\ stage' = "ready"
  /\ UNCHANGED idfDefault

(* Or the read behind the list fails.                                      *)
ReadFails ==
  /\ stage = "new" /\ cut # {}
  /\ stage' = "crashed"
  /\ UNCHANGED <<termsMap, numDocuments, idfDefault, whole>>

-----------------------------------------------------------------------------
(* TfIdfWeight: documents                                                  *)

(* Mutant of Enter: no AutoMutex in process().                             *)
EnterUnguarded(th) == UNCHANGED mutex

(* The AutoMutex of process().                                             *)
Enter(th) ==
  IF hasCommandPort THEN mutex = "nobody" /\ mutex' = th ELSE UNCHANGED mutex

ReceiveDocument(th, doc) ==
  /\ stage = "ready" /\ next[th] = 0 /\ Len(lists) < MaxDocuments
  /\ Enter(th)
  /\ document' = [document EXCEPT ![th] = doc] /\ next' = [next EXCEPT ![th] = 1]
  /\ weighted' = <<>> /\ top' = <<>>
  /\ UNCHANGED <<inDocument, lists>>

(* The weight of one occurrence.                                           *)
getIDF(t) == IF termsMap[t] = 0 THEN idfDefault ELSE Idf(numDocuments, termsMap[t])

(* The loop over the list of top terms, whose length is taken before it    *)
(* begins: a term is appended once for each entry it is not lighter than,  *)
(* as long as there is room.                                               *)
PushTop(entry, first) ==
  LET beaten == Cardinality({i \in DOMAIN top : entry.tfidf >= top[i].tfidf})
      room   == IF NTop = 0 THEN beaten ELSE IF NTop > Len(top) THEN NTop - Len(top) ELSE 0
  IN top \o (IF first THEN <<entry>>
             ELSE [i \in 1..(IF beaten < room THEN beaten ELSE room) |-> entry])

(* The next term is counted, weighed by its count so far, and listed.      *)
WeighTerm(th) ==
  /\ next[th] \in DOMAIN document[th]
  /\ LET t     == document[th][next[th]]
         entry == [term |-> t, tfidf |-> (inDocument[t] + 1) * getIDF(t)]
     IN /\ inDocument' = [inDocument EXCEPT ![t] = @ + 1]
        /\ weighted' = Append(weighted, entry)
        /\ top' = PushTop(entry, next[th] = 1)
  /\ next' = [next EXCEPT ![th] = @ + 1]
  /\ UNCHANGED <<mutex, document, lists>>

(* The tuple is submitted and the terms of the document are forgotten.     *)
SubmitLists(th) ==
  /\ next[th] = Len(document[th]) + 1
  /\ lists' = Append(lists, [document |-> document[th], weighted |-> weighted, top |-> top])
  /\ inDocument' = Untrained
  /\ next' = [next EXCEPT ![th] = 0] /\ mutex' = "nobody"
  /\ UNCHANGED <<document, weighted, top>>

-----------------------------------------------------------------------------
(* TfIdfWeight: a control tuple, which asks for another default or corpus. *)
(* Port 1 does not allow mutation, so its tuples come to the process() for *)
(* non-mutating ports, which does nothing.                                 *)
ReceiveControl == stage = "ready" /\ hasCommandPort /\ UNCHANGED vars

-----------------------------------------------------------------------------
Builder ==
  \/ OpenSink \/ EndTraining
  \/ \E doc \in Trainings : Train(doc)
  \/ \E t \in Terms : CutTerm(t) \/ WriteTerm(t)

Constructor == ReadCorpus \/ ReadFails

Port0 ==
  \/ \E th \in Threads, doc \in Documents : ReceiveDocument(th, doc)
  \/ \E th \in Threads : WeighTerm(th) \/ SubmitLists(th)

Next ==
  \/ Builder /\ UNCHANGED <<corpusVars, tupleVars>>
  \/ Constructor /\ UNCHANGED <<builderVars, tupleVars>>
  \/ Port0 /\ UNCHANGED <<builderVars, corpusVars>>
  \/ ReceiveControl

Spec == Init /\ [][Next]_vars

-----------------------------------------------------------------------------
TypeOK ==
  /\ numDocs \in 0..MaxTraining /\ counted \in Frequencies
  /\ unwritten \subseteq Terms /\ cut \subseteq Terms /\ trained \in BOOLEAN
  /\ present \in BOOLEAN
  /\ disk \in [documents : Nat \cup {NoHeader}, of : Frequencies]
  /\ stage \in {"new", "ready", "crashed"}
  /\ termsMap \in Frequencies /\ numDocuments \in Nat /\ idfDefault \in Defaults
  /\ mutex \in Threads \cup {"nobody"} /\ inDocument \in Frequencies
  /\ document \in [Threads -> Seq(Terms)] /\ next \in [Threads -> Nat]
  /\ \A th \in Threads : next[th] <= Len(document[th]) + 1
  /\ DOMAIN lists = 1..Len(lists) /\ Len(lists) \in Nat
  /\ whole \in BOOLEAN

(* The terms whose frequency is neither what was counted nor missing.      *)
Misread == {t \in Terms : termsMap[t] \notin {0, counted[t]}}

(* Whenever the constructor reads the file, the corpus in use is the one   *)
(* that was counted, with the right number of documents, if the file was   *)
(* whole, and otherwise a part of it, in which the line the file ended in  *)
(* is the only one that may have been misread.                             *)
CorpusAsTrained ==
  stage = "ready" =>
    /\ termsMap # Untrained => trained /\ numDocuments = numDocs
    /\ \A t, u \in Misread : t = u
    /\ whole => termsMap = counted

(* The count of the i-th term among the first i.                           *)
CountAt(doc, i) == Cardinality({j \in 1..i : doc[j] = doc[i]})

(* The list of weights, as the formula says: each term by its count up to  *)
(* there, so that the last entry of a term is its tf-idf.                  *)
Weight(doc, i) == [term |-> doc[i], tfidf |-> CountAt(doc, i) * getIDF(doc[i])]

(* Whatever the threads that call port 0, the lists submitted with a       *)
(* document are those of its own terms: nothing is left in them, or in the *)
(* counts, of the documents before it or of one in another thread.  The    *)
(* list of top terms holds entries of the full list, and not more than it  *)
(* may.                                                                    *)
ListsByFormula ==
  \A k \in DOMAIN lists :
    LET sent == lists[k]
    IN /\ sent.weighted = [i \in DOMAIN sent.document |-> Weight(sent.document, i)]
       /\ \A i \in DOMAIN sent.top : \E j \in DOMAIN sent.weighted : sent.top[i] = sent.weighted[j]
       /\ NTop # 0 => Len(sent.top) <= NTop

-----------------------------------------------------------------------------
(* What the documentation says and the code does not do                    *)

(* "If this parameter is not specified, then all terms are in the output   *)
(* list" (TfIdfWeight.xml:97).                                             *)
AllTermsListed ==
  NTop = 0 => \A k \in DOMAIN lists : \A i \in DOMAIN lists[k].document :
                \E j \in DOMAIN lists[k].top : lists[k].top[j].term = lists[k].document[i]
==============================================================================
