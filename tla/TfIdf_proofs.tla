----------------------------- MODULE TfIdf_proofs -----------------------------
(***************************************************************************)
(* Proofs about TfIdf.  One invariant says what of the counts is on disk   *)
(* and what can have been read of it.  The other, of an operator with a    *)
(* control port, says who holds _mutex and how far the document in         *)
(* process() has been counted and weighed.                                 *)
(***************************************************************************)
EXTENDS TfIdf, FiniteSetTheorems, TLAPS

(* What is on disk is what was counted, as far as it has been written.     *)
Stored ==
  /\ ~trained => disk = Empty /\ unwritten = {}
  /\ trained => /\ disk.documents = numDocs
                /\ \A t \in Terms : disk.of[t] = IF t \in unwritten THEN 0 ELSE counted[t]
  /\ cut \subseteq unwritten
  /\ \A t, u \in cut : t = u

(* And what is in the map was on disk, but for one line.                   *)
Loaded ==
  /\ stage = "new" => termsMap = Untrained
  /\ termsMap # Untrained => trained /\ numDocuments = numDocs
  /\ \A t, u \in Misread : t = u
  /\ whole => trained /\ termsMap = counted

CorpusInv == TypeOK /\ Stored /\ Loaded

(* Only the thread that is in process() holds _mutex.                      *)
Turn == \A th \in Threads : mutex = th <=> next[th] # 0

CountTo(doc, i, t) == Cardinality({j \in 1..i : doc[j] = t})

(* The terms of a document before the n-th have been counted and weighed   *)
(* ...                                                                     *)
Follows(doc, n) ==
  /\ inDocument = [t \in Terms |-> CountTo(doc, n - 1, t)]
  /\ weighted = [i \in 1..(n - 1) |-> Weight(doc, i)]
  /\ top \in Seq({weighted[j] : j \in 1..(n - 1)})
  /\ NTop # 0 => Len(top) <= NTop

(* ... of the one document there is.                                       *)
Weighed ==
  /\ mutex = "nobody" => inDocument = Untrained
  /\ \A th \in Threads, doc \in Seq(Terms), n \in Nat :
       mutex = th /\ document[th] = doc /\ next[th] = n => Follows(doc, n)

(* No document is weighed before the corpus has been read.                 *)
Started == stage # "ready" => mutex = "nobody" /\ lists = <<>>

ListsInv == TypeOK /\ Turn /\ Weighed /\ Started /\ ListsByFormula

-----------------------------------------------------------------------------
(* Lemmas on counting.                                                     *)

(* A part of an interval is finite, and its size a natural number.         *)
LEMMA PartOfInterval ==
  ASSUME NEW i \in Int, NEW places \in SUBSET (1..i)
  PROVE  IsFiniteSet(places) /\ Cardinality(places) \in Nat
<1>1. IsFiniteSet(1..i)
  BY FS_Interval
<1>2. IsFiniteSet(places)
  BY <1>1, FS_Subset
<1> QED
  BY <1>2, FS_CardinalityType

(* Nothing is counted before the first term.                               *)
LEMMA CountOfNone ==
  ASSUME NEW doc, NEW i \in Int, i < 1, NEW t
  PROVE  CountTo(doc, i, t) = 0
<1>1. {j \in 1..i : doc[j] = t} = {}
  OBVIOUS
<1> QED
  BY <1>1, FS_EmptySet DEF CountTo

(* One more term is counted, and no other one.                             *)
LEMMA CountNext ==
  ASSUME NEW doc, NEW i \in Nat \ {0}, NEW t
  PROVE  CountTo(doc, i, t) = CountTo(doc, i - 1, t) + (IF doc[i] = t THEN 1 ELSE 0)
<1> DEFINE before == {j \in 1..(i - 1) : doc[j] = t}
           upTo   == {j \in 1..i : doc[j] = t}
<1>1. i - 1 \in Int
  OBVIOUS
<1>2. IsFiniteSet(before) /\ Cardinality(before) \in Nat
  <2>1. before \in SUBSET (1..(i - 1))
    OBVIOUS
  <2> HIDE DEF before
  <2> QED
    BY <1>1, <2>1, PartOfInterval
<1>3. CASE doc[i] = t
  <2>1. upTo = before \cup {i} /\ i \notin before
    BY <1>3
  <2> HIDE DEF before, upTo
  <2>2. Cardinality(upTo) = Cardinality(before) + 1
    BY <1>2, <2>1, FS_AddElement
  <2>3. CountTo(doc, i, t) = Cardinality(before) + 1
    BY <2>2 DEF CountTo, upTo
  <2> QED
    BY <1>3, <2>3 DEF CountTo, before
<1>4. CASE doc[i] # t
  <2>1. upTo = before
    BY <1>4
  <2>2. CountTo(doc, i, t) = Cardinality(before)
    BY <2>1 DEF CountTo
  <2> HIDE DEF before
  <2>3. Cardinality(before) = Cardinality(before) + 0
    BY <1>2
  <2> QED
    BY <1>4, <2>2, <2>3 DEF CountTo, before
<1> QED
  BY <1>3, <1>4

(* Documents are sequences, so their terms can be counted.                 *)
LEMMA OccurrencesIsNat ==
  ASSUME NEW doc \in Seq(Terms), NEW t
  PROVE  Occurrences(t, doc) \in Nat
<1>1. DOMAIN doc = 1..Len(doc) /\ Len(doc) \in Int
  OBVIOUS
<1>2. Occurrences(t, doc) = Cardinality({j \in 1..Len(doc) : doc[j] = t})
  BY <1>1 DEF Occurrences
<1> DEFINE places == {j \in 1..Len(doc) : doc[j] = t}
<1>3. places \in SUBSET (1..Len(doc)) /\ Occurrences(t, doc) = Cardinality(places)
  BY <1>2
<1> HIDE DEF places
<1> QED
  BY <1>1, <1>3, PartOfInterval

(* However many entries a term beats, only some of its copies are added to *)
(* the list of top terms, and never more than there is room for.           *)
LEMMA PushedTop ==
  ASSUME NEW S, NEW first \in BOOLEAN, first => top = <<>>, top \in Seq(S), NEW entry \in S, NTop \in Nat,
         NTop # 0 => Len(top) <= NTop
  PROVE  PushTop(entry, first) \in Seq(S) /\ (NTop # 0 => Len(PushTop(entry, first)) <= NTop)
<1> DEFINE beaten == Cardinality({i \in DOMAIN top : entry.tfidf >= top[i].tfidf})
           room   == IF NTop = 0 THEN beaten ELSE IF NTop > Len(top) THEN NTop - Len(top) ELSE 0
           copies == IF beaten < room THEN beaten ELSE room
           more   == [i \in 1..copies |-> entry]
<1>1. beaten \in Nat
  <2>1. DOMAIN top = 1..Len(top) /\ Len(top) \in Int
    OBVIOUS
  <2>2. IsFiniteSet(DOMAIN top)
    BY <2>1, FS_Interval
  <2>3. {i \in DOMAIN top : entry.tfidf >= top[i].tfidf} \subseteq DOMAIN top
    OBVIOUS
  <2>4. IsFiniteSet({i \in DOMAIN top : entry.tfidf >= top[i].tfidf})
    BY <2>2, <2>3, FS_Subset
  <2> QED
    BY <2>4, FS_CardinalityType
<1> HIDE DEF beaten
<1>2. copies \in Nat /\ (NTop # 0 => Len(top) + copies <= NTop)
  BY <1>1
<1> HIDE DEF copies
<1>3. more \in Seq(S) /\ Len(more) = copies
  BY <1>2
<1> HIDE DEF more
<1>4. top \o more \in Seq(S) /\ Len(top \o more) = Len(top) + copies
  BY <1>3, <1>2
<1>5. first => top \o <<entry>> = <<entry>> /\ <<entry>> \in Seq(S) /\ Len(<<entry>>) = 1
  OBVIOUS
<1>6. PushTop(entry, first) = top \o (IF first THEN <<entry>> ELSE more)
  BY DEF PushTop, more, copies, room, beaten
<1> QED
  BY <1>2, <1>4, <1>5, <1>6

-----------------------------------------------------------------------------
(* Type correctness.                                                       *)

(* What the assumptions say of a corpus.                                   *)
LEMMA CorpusFacts ==
  /\ Untrained \in Frequencies
  /\ Empty \in [documents : Nat \cup {NoHeader}, of : Frequencies]
  /\ Garbage \subseteq Nat
BY FileAssumption DEF Frequencies, Untrained, Empty, NoHeader

(* A cut line is read as a frequency of some term.                         *)
LEMMA CutLine ==
  ASSUME NEW t \in Terms, NEW entry \in Cut(t)
  PROVE  entry[1] \in Terms /\ entry[2] \in Nat
<1>1. Beginnings(counted[t]) \subseteq Nat
  BY DEF Beginnings
<1>2. Stumps[t] \subseteq Terms /\ Garbage \subseteq Nat
  BY FileAssumption
<1>3. entry \in {<<t, f>> : f \in Beginnings(counted[t])} \/ entry \in Stumps[t] \X Garbage
  BY DEF Cut
<1>4. CASE entry \in {<<t, f>> : f \in Beginnings(counted[t])}
  BY <1>1, <1>4
<1>5. CASE entry \in Stumps[t] \X Garbage
  BY <1>2, <1>5
<1> QED
  BY <1>3, <1>4, <1>5

(* What the whole lines leave in the map is what is in them.               *)
LEMMA WholeLines ==
  ASSUME TypeOK
  PROVE  [t \in Terms |-> Kept(disk.of[t])] = disk.of
<1>1. disk.of \in [Terms -> Nat]
  BY DEF TypeOK, Frequencies
<1>2. \A t \in Terms : Kept(disk.of[t]) = disk.of[t]
  BY <1>1 DEF Kept
<1> QED
  BY <1>1, <1>2

(* The cut line adds at most one term to them.                             *)
LEMMA ReadMap ==
  ASSUME TypeOK, ReadCorpus
  PROVE  /\ termsMap' \in Frequencies
         /\ cut = {} => termsMap' = disk.of
         /\ \/ termsMap' = disk.of
            \/ \E v \in Terms : \A t \in Terms \ {v} : termsMap'[t] = disk.of[t]
<1>1. disk.of \in [Terms -> Nat]
  BY DEF TypeOK, Frequencies
<1>2. CASE termsMap' = [t \in Terms |-> Kept(disk.of[t])]
  BY <1>1, <1>2, WholeLines DEF Frequencies
<1>3. ASSUME NEW c \in cut, NEW entry \in Cut(c), termsMap' = Add(disk.of, entry)
      PROVE  /\ termsMap' \in Frequencies
             /\ \E v \in Terms : \A t \in Terms \ {v} : termsMap'[t] = disk.of[t]
  <2>1. entry[1] \in Terms /\ entry[2] \in Nat
    BY <1>3, CutLine DEF TypeOK
  <2>2. Kept(entry[2]) \in Nat
    BY <2>1 DEF Kept
  <2>3. termsMap' = disk.of \/ termsMap' = [disk.of EXCEPT ![entry[1]] = Kept(entry[2])]
    BY <1>3 DEF Add
  <2> QED
    BY <1>1, <2>1, <2>2, <2>3 DEF Frequencies
<1> QED
  BY <1>2, <1>3, WholeLines DEF ReadCorpus

(* The count of the next term grows by one, and no other one.              *)
LEMMA CountsOneMore ==
  ASSUME TypeOK, NEW th \in Threads, WeighTerm(th)
  PROVE  /\ inDocument' \in Frequencies
         /\ \A t \in Terms : inDocument'[t] = inDocument[t] + (IF document[th][next[th]] = t THEN 1 ELSE 0)
<1> DEFINE term == document[th][next[th]]
<1>1. inDocument \in [Terms -> Nat]
  BY DEF TypeOK, Frequencies
<1>2. term \in Terms
  BY DEF TypeOK, WeighTerm
<1>3. inDocument' = [inDocument EXCEPT ![term] = inDocument[term] + 1]
  BY DEF WeighTerm
<1> HIDE DEF term
<1>4. \A t \in Terms : inDocument[t] \in Nat /\ inDocument[t] + 1 \in Nat /\ inDocument[t] + 0 = inDocument[t]
  BY <1>1
<1>5. /\ inDocument' \in Frequencies
      /\ \A t \in Terms : inDocument'[t] = inDocument[t] + (IF term = t THEN 1 ELSE 0)
  BY <1>1, <1>2, <1>3, <1>4 DEF Frequencies
<1> QED
  BY <1>5 DEF term

(* Every step of the trainer and of the operator keeps the types.          *)
LEMMA Types == TypeOK /\ [Next]_vars => TypeOK'
<1> SUFFICES ASSUME TypeOK, [Next]_vars
             PROVE  TypeOK'
  OBVIOUS
<1> USE CorpusFacts, LimitAssumption
<1>1. CASE OpenSink /\ UNCHANGED <<corpusVars, tupleVars>>
  BY <1>1 DEF TypeOK, OpenSink, corpusVars, tupleVars
<1>2. CASE EndTraining /\ UNCHANGED <<corpusVars, tupleVars>>
  <2>1. numDocs \in Nat
    BY DEF TypeOK
  <2>2. disk' \in [documents : Nat \cup {NoHeader}, of : Frequencies]
    BY <1>2, <2>1 DEF TypeOK, EndTraining
  <2> QED
    BY <1>2, <2>2 DEF TypeOK, EndTraining, corpusVars, tupleVars
<1>3. ASSUME NEW doc \in Trainings, Train(doc), UNCHANGED <<corpusVars, tupleVars>>
      PROVE  TypeOK'
  <2>1. counted' \in Frequencies
    <3>1. \A t \in Terms : Occurrences(t, doc) \in Nat
      BY OccurrencesIsNat, TermAssumption
    <3>2. \A t \in Terms : counted[t] \in Nat
      BY DEF TypeOK, Frequencies
    <3>3. \A t \in Terms : counted[t] + Occurrences(t, doc) \in Nat
      BY <3>1, <3>2
    <3> QED
      BY <1>3, <3>3 DEF Train, Frequencies
  <2> QED
    BY <1>3, <2>1 DEF TypeOK, Train, corpusVars, tupleVars
<1>4. ASSUME NEW t \in Terms, CutTerm(t) \/ WriteTerm(t), UNCHANGED <<corpusVars, tupleVars>>
      PROVE  TypeOK'
  <2>1. counted[t] \in Nat
    BY DEF TypeOK, Frequencies
  <2>2. [disk.of EXCEPT ![t] = counted[t]] \in Frequencies
    BY <2>1 DEF TypeOK, Frequencies
  <2>3. disk' \in [documents : Nat \cup {NoHeader}, of : Frequencies]
    BY <1>4, <2>2 DEF TypeOK, CutTerm, WriteTerm
  <2> QED
    BY <1>4, <2>3 DEF TypeOK, CutTerm, WriteTerm, corpusVars, tupleVars
<1>5. CASE Constructor /\ UNCHANGED <<builderVars, tupleVars>>
  <2>1. CASE ReadCorpus
    <3>1. termsMap' \in Frequencies
      BY <2>1, ReadMap
    <3>2. numDocuments' \in Nat /\ whole' \in BOOLEAN
      BY <2>1 DEF TypeOK, ReadCorpus
    <3> QED
      BY <1>5, <2>1, <3>1, <3>2 DEF TypeOK, ReadCorpus, builderVars, tupleVars
  <2>2. CASE ReadFails
    BY <1>5, <2>2 DEF TypeOK, ReadFails, builderVars, tupleVars
  <2> QED
    BY <1>5, <2>1, <2>2 DEF Constructor
<1>6. ASSUME NEW th \in Threads, NEW doc \in Documents, ReceiveDocument(th, doc),
             UNCHANGED <<builderVars, corpusVars>>
      PROVE  TypeOK'
  <2>1. doc \in Seq(Terms)
    BY TermAssumption
  <2>2. /\ document' \in [Threads -> Seq(Terms)] /\ next' \in [Threads -> Nat]
        /\ \A u \in Threads : next'[u] <= Len(document'[u]) + 1
    BY <1>6, <2>1 DEF TypeOK, ReceiveDocument
  <2>3. mutex' \in Threads \cup {"nobody"}
    BY <1>6 DEF TypeOK, ReceiveDocument, Enter
  <2> QED
    BY <1>6, <2>2, <2>3 DEF TypeOK, ReceiveDocument, builderVars, corpusVars
<1>7. ASSUME NEW th \in Threads, WeighTerm(th), UNCHANGED <<builderVars, corpusVars>>
      PROVE  TypeOK'
  <2>1. inDocument' \in Frequencies
    BY <1>7, CountsOneMore
  <2>2. next' \in [Threads -> Nat] /\ \A u \in Threads : next'[u] <= Len(document[u]) + 1
    <3>1. next' = [next EXCEPT ![th] = next[th] + 1] /\ next \in [Threads -> Nat]
      BY <1>7 DEF TypeOK, WeighTerm
    <3>2. next[th] <= Len(document[th])
      BY <1>7 DEF TypeOK, WeighTerm
    <3>3. \A u \in Threads : next[u] <= Len(document[u]) + 1
      BY DEF TypeOK
    <3> QED
      BY <3>1, <3>2, <3>3
  <2> QED
    BY <1>7, <2>1, <2>2 DEF TypeOK, WeighTerm, builderVars, corpusVars
<1>8. ASSUME NEW th \in Threads, SubmitLists(th), UNCHANGED <<builderVars, corpusVars>>
      PROVE  TypeOK'
  <2>1. next' \in [Threads -> Nat] /\ \A u \in Threads : next'[u] <= Len(document[u]) + 1
    BY <1>8 DEF TypeOK, SubmitLists
  <2>2. DOMAIN lists' = 1..Len(lists') /\ Len(lists') \in Nat
    BY <1>8 DEF TypeOK, SubmitLists
  <2> QED
    BY <1>8, <2>1, <2>2 DEF TypeOK, SubmitLists, builderVars, corpusVars
<1>9. CASE UNCHANGED vars
  BY <1>9 DEF TypeOK, vars, builderVars, corpusVars, tupleVars
<1> QED
  BY <1>1, <1>2, <1>3, <1>4, <1>5, <1>6, <1>7, <1>8, <1>9 DEF Next, Builder, Port0, ReceiveControl

-----------------------------------------------------------------------------
(* The corpus                                                              *)

(* The trainer alone writes, only what it has counted, and one line at a   *)
(* time.                                                                   *)
LEMMA BuilderStores ==
  ASSUME TypeOK, Stored, Builder
  PROVE  /\ Stored' /\ (trained => trained' /\ numDocs' = numDocs /\ counted' = counted)
<1> USE DEF Stored, TypeOK
<1>1. CASE OpenSink
  BY <1>1 DEF OpenSink
<1>2. CASE EndTraining
  <2>1. disk'.documents = numDocs /\ disk'.of = Untrained
    BY <1>2 DEF EndTraining, Empty
  <2>2. \A t \in Terms : counted[t] = 0 \/ t \in unwritten'
    BY <1>2 DEF EndTraining
  <2> QED
    BY <1>2, <2>1, <2>2 DEF EndTraining, Untrained
<1>3. ASSUME NEW doc \in Trainings, Train(doc)
      PROVE  Stored' /\ ~trained
  BY <1>3 DEF Train
<1>4. ASSUME NEW t \in Terms, CutTerm(t)
      PROVE  Stored' /\ UNCHANGED <<trained, numDocs, counted>>
  BY <1>4 DEF CutTerm
<1>5. ASSUME NEW t \in Terms, WriteTerm(t)
      PROVE  Stored' /\ UNCHANGED <<trained, numDocs, counted>>
  <2>1. trained
    BY <1>5 DEF WriteTerm
  <2>2. disk'.documents = numDocs /\ disk'.of = [disk.of EXCEPT ![t] = counted[t]]
    BY <1>5, <2>1 DEF WriteTerm
  <2>3. \A u \in Terms : disk'.of[u] = IF u = t THEN counted[t] ELSE disk.of[u]
    BY <2>2 DEF Frequencies
  <2> QED
    BY <1>5, <2>1, <2>2, <2>3 DEF WriteTerm
<1> QED
  BY <1>1, <1>2, <1>3, <1>4, <1>5 DEF Builder

(* What the trainer does later leaves the map as right as it was.          *)
LEMMA BuilderLeavesMap ==
  ASSUME CorpusInv, Builder, UNCHANGED corpusVars
  PROVE  Loaded'
<1>1. trained => trained' /\ numDocs' = numDocs /\ counted' = counted
  BY BuilderStores DEF CorpusInv
<1>2. CASE trained
  BY <1>1, <1>2 DEF CorpusInv, Loaded, Misread, corpusVars
<1>3. CASE ~trained
  <2>1. termsMap' = Untrained /\ ~whole'
    BY <1>3 DEF CorpusInv, Loaded, corpusVars
  <2>2. Misread' = {}
    BY <2>1 DEF Misread, Untrained
  <2> QED
    BY <2>1, <2>2 DEF Loaded
<1> QED
  BY <1>2, <1>3

(* What the constructor reads is what is on disk, and it misreads only the *)
(* line that is not whole.                                                 *)
LEMMA ReadsCorpus ==
  ASSUME CorpusInv, ReadCorpus, UNCHANGED builderVars
  PROVE  Loaded'
<1> USE DEF CorpusInv
<1>1. UNCHANGED <<trained, numDocs, counted, unwritten, cut, disk>>
  BY DEF builderVars
<1>2. CASE ~trained
  <2>1. disk.of = Untrained /\ cut = {}
    BY <1>2 DEF Stored, Empty
  <2>2. termsMap' = Untrained /\ ~whole'
    BY <1>2, <2>1, ReadMap DEF ReadCorpus
  <2>3. Misread' = {}
    BY <2>2 DEF Misread, Untrained
  <2> QED
    BY <2>2, <2>3 DEF Loaded
<1>3. CASE trained
  <2>1. numDocs # NoHeader
    BY DEF TypeOK, NoHeader
  <2>2. numDocuments' = numDocs /\ stage' = "ready"
    BY <1>3, <2>1 DEF ReadCorpus, Stored
  <2>3. \A t \in Terms : disk.of[t] \in {0, counted[t]}
    BY <1>3 DEF Stored
  <2>4. \A t, u \in Misread' : t = u
    BY <1>1, <2>3, ReadMap DEF Misread
  <2>5. ASSUME whole'
        PROVE  termsMap' = counted
    <3>1. unwritten = {} /\ cut = {}
      BY <2>5 DEF ReadCorpus, Stored
    <3>2. termsMap' = disk.of
      BY <3>1, ReadMap
    <3>3. \A t \in Terms : disk.of[t] = counted[t]
      BY <1>3, <3>1 DEF Stored
    <3>4. disk.of \in Frequencies /\ counted \in Frequencies
      BY DEF TypeOK
    <3> QED
      BY <3>2, <3>3, <3>4 DEF Frequencies
  <2> QED
    BY <1>1, <1>3, <2>2, <2>4, <2>5 DEF Loaded
<1> QED
  BY <1>2, <1>3

(* Nothing else touches the file or the map.                               *)
LEMMA CorpusKept ==
  ASSUME CorpusInv, [Next]_vars
  PROVE  CorpusInv'
<1>1. TypeOK'
  BY Types DEF CorpusInv
<1>2. CASE UNCHANGED <<builderVars, corpusVars>>
  BY <1>1, <1>2 DEF CorpusInv, Stored, Loaded, Misread, builderVars, corpusVars
<1>3. CASE Builder /\ UNCHANGED <<corpusVars, tupleVars>>
  BY <1>1, <1>3, BuilderStores, BuilderLeavesMap DEF CorpusInv
<1>4. CASE Constructor /\ UNCHANGED <<builderVars, tupleVars>>
  <2>1. Stored'
    BY <1>4 DEF CorpusInv, Stored, builderVars
  <2>2. CASE ReadCorpus
    BY <1>1, <1>4, <2>1, <2>2, ReadsCorpus DEF CorpusInv
  <2>3. CASE ReadFails
    BY <1>1, <1>4, <2>1, <2>3 DEF CorpusInv, Loaded, Misread, ReadFails, builderVars
  <2> QED
    BY <1>4, <2>2, <2>3 DEF Constructor
<1> QED
  BY <1>2, <1>3, <1>4 DEF Next, ReceiveControl, vars

(* At first nothing has been counted, written or read.                     *)
LEMMA Initially == Init => TypeOK /\ Stored /\ Loaded
<1> SUFFICES ASSUME Init
             PROVE  TypeOK /\ Stored /\ Loaded
  OBVIOUS
<1> USE CorpusFacts, LimitAssumption DEF Init
<1>1. TypeOK
  <2>1. /\ document \in [Threads -> Seq(Terms)] /\ next \in [Threads -> Nat]
        /\ \A th \in Threads : next[th] <= Len(document[th]) + 1
    OBVIOUS
  <2>2. /\ numDocs \in 0..MaxTraining /\ unwritten \subseteq Terms /\ cut \subseteq Terms
        /\ DOMAIN lists = 1..Len(lists) /\ Len(lists) \in Nat
    OBVIOUS
  <2>3. trained \in BOOLEAN /\ present \in BOOLEAN /\ whole \in BOOLEAN
    BY Zenon
  <2>4. /\ stage \in {"new", "ready", "crashed"} /\ mutex \in Threads \cup {"nobody"}
        /\ idfDefault \in Defaults /\ numDocuments \in Nat
    OBVIOUS
  <2>5. /\ disk \in [documents : Nat \cup {NoHeader}, of : Frequencies]
        /\ counted \in Frequencies /\ termsMap \in Frequencies /\ inDocument \in Frequencies
    OBVIOUS
  <2> HIDE DEF Init
  <2> QED
    BY <2>1, <2>2, <2>3, <2>4, <2>5 DEF TypeOK
<1>2. Stored
  BY DEF Stored
<1>3. Misread = {}
  BY DEF Misread, Untrained
<1> QED
  BY <1>1, <1>2, <1>3 DEF Loaded

(* The invariant of the corpus holds in every reachable state.             *)
THEOREM CorpusInductive == Spec => []CorpusInv
<1>1. Init => CorpusInv
  BY Initially DEF CorpusInv
<1>2. CorpusInv /\ [Next]_vars => CorpusInv'
  BY CorpusKept
<1> QED
  BY <1>1, <1>2, PTL DEF Spec

(* Whenever the file is read, what is in use is what was trained, all of   *)
(* it if the file was whole, and a part of it with at most one misread     *)
(* line if it was not, for any terms, training documents and order of      *)
(* training, writing and reading.                                          *)
THEOREM ReadAsTrained == Spec => []CorpusAsTrained
<1>1. CorpusInv => CorpusAsTrained
  BY DEF CorpusInv, Loaded, CorpusAsTrained
<1> QED
  BY <1>1, CorpusInductive, PTL

-----------------------------------------------------------------------------
(* The document                                                            *)

(* Weights are those of the corpus that was read.                          *)
LEMMA SameWeights ==
  ASSUME UNCHANGED corpusVars
  PROVE  \A doc, i : Weight(doc, i)' = Weight(doc, i)
BY DEF corpusVars, Weight, getIDF

(* The weight of the next term, by its count so far, is the one of the     *)
(* formula.                                                                *)
LEMMA NextWeight ==
  ASSUME NEW doc \in Seq(Terms), NEW n \in DOMAIN doc,
         inDocument = [t \in Terms |-> CountTo(doc, n - 1, t)]
  PROVE  [term |-> doc[n], tfidf |-> (inDocument[doc[n]] + 1) * getIDF(doc[n])] = Weight(doc, n)
<1>1. n \in Nat \ {0} /\ doc[n] \in Terms
  OBVIOUS
<1>2. inDocument[doc[n]] = CountTo(doc, n - 1, doc[n])
  BY <1>1
<1>3. CountTo(doc, n, doc[n]) = CountTo(doc, n - 1, doc[n]) + 1
  BY <1>1, CountNext
<1>4. CountAt(doc, n) = inDocument[doc[n]] + 1
  BY <1>2, <1>3 DEF CountAt, CountTo
<1> QED
  BY <1>4 DEF Weight

(* The counts and the lists follow the document term by term.              *)
LEMMA WeighFollows ==
  ASSUME TypeOK, NEW th \in Threads, NEW doc, NEW n, document[th] = doc, next[th] = n,
         Follows(doc, n), WeighTerm(th), UNCHANGED corpusVars
  PROVE  Follows(doc, n + 1)'
<1>1. /\ doc \in Seq(Terms) /\ n \in DOMAIN doc /\ n \in Nat \ {0} /\ doc[n] \in Terms
  BY DEF TypeOK, WeighTerm
<1> DEFINE entry   == Weight(doc, n)
           entries == {weighted'[j] : j \in 1..n}
<1>2. inDocument = [t \in Terms |-> CountTo(doc, n - 1, t)]
  BY DEF Follows
<1>3. /\ weighted' = Append(weighted, entry)
      /\ top' = PushTop(entry, n = 1)
  <2>1. [term |-> doc[n], tfidf |-> (inDocument[doc[n]] + 1) * getIDF(doc[n])] = Weight(doc, n)
    BY <1>1, <1>2, NextWeight
  <2> QED
    BY <2>1 DEF WeighTerm
<1>4. /\ inDocument' \in Frequencies
      /\ \A t \in Terms : inDocument'[t] = inDocument[t] + (IF doc[n] = t THEN 1 ELSE 0)
  BY CountsOneMore
<1>5. /\ weighted = [i \in 1..(n - 1) |-> Weight(doc, i)]
      /\ top \in Seq({weighted[j] : j \in 1..(n - 1)}) /\ (NTop # 0 => Len(top) <= NTop)
  BY DEF Follows
<1>6. inDocument' = [t \in Terms |-> CountTo(doc, n, t)]
  <2>1. \A t \in Terms : CountTo(doc, n, t) = CountTo(doc, n - 1, t) + (IF doc[n] = t THEN 1 ELSE 0)
    BY <1>1, CountNext
  <2>2. \A t \in Terms : inDocument[t] = CountTo(doc, n - 1, t)
    BY <1>2
  <2>3. \A t \in Terms : inDocument'[t] = CountTo(doc, n, t)
    BY <1>4, <2>1, <2>2
  <2> QED
    BY <1>4, <2>3 DEF Frequencies
<1>7. weighted' = [i \in 1..n |-> Weight(doc, i)]
  BY <1>1, <1>3, <1>5
<1>8. {weighted[j] : j \in 1..(n - 1)} \subseteq entries /\ entry \in entries
  <2>1. weighted'[n] = entry /\ \A j \in 1..(n - 1) : weighted'[j] = weighted[j]
    BY <1>1, <1>5, <1>7
  <2> QED
    BY <1>1, <2>1
<1> HIDE DEF entry
<1>9. top' \in Seq(entries) /\ (NTop # 0 => Len(top') <= NTop)
  <2> HIDE DEF entries
  <2>1. top \in Seq(entries)
    BY <1>5, <1>8
  <2>2. n = 1 => top = <<>>
    <3>1. n = 1 => {weighted[j] : j \in 1..(n - 1)} = {}
      OBVIOUS
    <3> QED
      BY <1>5, <3>1
  <2> QED
    BY <1>3, <1>5, <1>8, <2>1, <2>2, PushedTop, LimitAssumption
<1>10. \A i : Weight(doc, i)' = Weight(doc, i)
  BY SameWeights
<1>11. (n + 1) - 1 = n
  BY <1>1
<1>12. weighted' = [i \in 1..n |-> Weight(doc, i)']
  BY <1>7, <1>10
<1> QED
  BY <1>6, <1>9, <1>11, <1>12 DEF Follows, entries

(* What ListsByFormula says of one submitted tuple.                        *)
ListsAreRight(sent) ==
  /\ sent.weighted = [i \in DOMAIN sent.document |-> Weight(sent.document, i)]
  /\ \A i \in DOMAIN sent.top : \E j \in DOMAIN sent.weighted : sent.top[i] = sent.weighted[j]
  /\ NTop # 0 => Len(sent.top) <= NTop

(* The lists of a document that has been weighed to its end are right.     *)
LEMMA SubmitsRightLists ==
  ASSUME TypeOK, NEW th \in Threads, NEW doc, NEW n, document[th] = doc, next[th] = n,
         Follows(doc, n), SubmitLists(th)
  PROVE  ListsAreRight([document |-> document[th], weighted |-> weighted, top |-> top])
<1>1. n - 1 = Len(doc) /\ DOMAIN doc = 1..Len(doc)
  BY DEF SubmitLists, TypeOK
<1>2. weighted = [i \in DOMAIN doc |-> Weight(doc, i)]
  BY <1>1 DEF Follows
<1>3. top \in Seq({weighted[j] : j \in DOMAIN doc}) /\ (NTop # 0 => Len(top) <= NTop)
  BY <1>1 DEF Follows
<1>4. \A i \in DOMAIN top : \E j \in DOMAIN weighted : top[i] = weighted[j]
  <2>1. DOMAIN weighted = DOMAIN doc
    BY <1>2
  <2>2. \A i \in DOMAIN top : top[i] \in {weighted[j] : j \in DOMAIN doc}
    BY <1>3
  <2> QED
    BY <2>1, <2>2
<1> QED
  BY <1>2, <1>3, <1>4 DEF ListsAreRight

(* Lists that have been submitted stay right.                              *)
LEMMA SubmitKeepsLists ==
  ASSUME TypeOK, NEW th \in Threads, NEW doc, NEW n, document[th] = doc, next[th] = n,
         Follows(doc, n), SubmitLists(th), ListsByFormula, UNCHANGED corpusVars
  PROVE  ListsByFormula'
<1> DEFINE sent == [document |-> document[th], weighted |-> weighted, top |-> top]
<1>1. lists' = Append(lists, sent) /\ ListsAreRight(sent)
  BY SubmitsRightLists DEF SubmitLists
<1>2. \A k \in DOMAIN lists : ListsAreRight(lists[k])
  BY DEF ListsByFormula, ListsAreRight
<1> HIDE DEF sent
<1>3. \A k \in DOMAIN lists' : ListsAreRight(lists'[k])
  <2>1. DOMAIN lists = 1..Len(lists) /\ Len(lists) \in Nat
    BY DEF TypeOK
  <2>2. DOMAIN lists' = 1..(Len(lists) + 1) /\ lists'[Len(lists) + 1] = sent
    BY <1>1, <2>1
  <2>3. \A k \in 1..Len(lists) : lists'[k] = lists[k]
    BY <1>1, <2>1
  <2> QED
    BY <1>1, <1>2, <2>1, <2>2, <2>3
<1>4. \A k \in DOMAIN lists' : ListsAreRight(lists[k])'
  BY <1>3, SameWeights DEF ListsAreRight
<1> QED
  BY <1>4 DEF ListsByFormula, ListsAreRight

-----------------------------------------------------------------------------
(* The threads of port 0                                                   *)

(* A thread that enters finds nothing of the document before.              *)
LEMMA EnterKeeps ==
  ASSUME hasCommandPort, ListsInv, NEW th \in Threads, NEW doc \in Documents,
         ReceiveDocument(th, doc), UNCHANGED corpusVars
  PROVE  Turn' /\ Weighed'
<1> USE DEF ListsInv
<1>1. mutex = "nobody" /\ mutex' = th /\ inDocument' = Untrained /\ "nobody" \notin Threads
  BY ThreadAssumption DEF ReceiveDocument, Enter, Weighed
<1>2. Turn'
  BY <1>1 DEF Turn, ReceiveDocument, TypeOK
<1>3. next'[th] = 1 /\ weighted' = <<>> /\ top' = <<>>
  BY DEF ReceiveDocument, TypeOK
<1>4. ASSUME NEW d \in Seq(Terms)
      PROVE  Follows(d, 1)'
  <2>1. \A t \in Terms : CountTo(d, 0, t) = 0
    BY CountOfNone
  <2>2. inDocument' = [t \in Terms |-> CountTo(d, 1 - 1, t)]
    BY <1>1, <2>1 DEF Untrained
  <2>3. weighted' = [i \in 1..(1 - 1) |-> Weight(d, i)']
    BY <1>3
  <2>4. top' \in Seq({weighted'[j] : j \in 1..(1 - 1)}) /\ (NTop # 0 => Len(top') <= NTop)
    BY <1>3, LimitAssumption
  <2> QED
    BY <2>2, <2>3, <2>4 DEF Follows
<1> QED
  BY <1>1, <1>2, <1>3, <1>4 DEF Weighed

(* Documents are weighed one at a time.                                    *)
LEMMA DocumentKeeps ==
  ASSUME hasCommandPort, ListsInv, Port0, UNCHANGED corpusVars
  PROVE  Turn' /\ Weighed' /\ Started' /\ ListsByFormula'
<1> USE DEF ListsInv
<1>0. "nobody" \notin Threads
  BY ThreadAssumption
<1>1. ASSUME NEW th \in Threads, NEW doc \in Documents, ReceiveDocument(th, doc)
      PROVE  Turn' /\ Weighed' /\ Started' /\ ListsByFormula'
  <2>1. Started'
    BY <1>1 DEF Started, ReceiveDocument, corpusVars
  <2>2. ListsByFormula'
    BY <1>1, SameWeights DEF ListsByFormula, ReceiveDocument
  <2> QED
    BY <1>1, <2>1, <2>2, EnterKeeps
<1>2. ASSUME NEW th \in Threads, next[th] # 0
      PROVE  /\ mutex = th /\ stage = "ready"
             /\ Follows(document[th], next[th])
             /\ document[th] \in Seq(Terms) /\ next[th] \in Nat
  BY <1>0, <1>2 DEF Turn, Weighed, Started, TypeOK
<1>3. ASSUME NEW th \in Threads, WeighTerm(th)
      PROVE  Turn' /\ Weighed' /\ Started' /\ ListsByFormula'
  <2> DEFINE doc == document[th]
             n   == next[th]
  <2>1. n # 0 /\ next'[th] = n + 1 /\ document' = document /\ mutex' = mutex /\ lists' = lists
    BY <1>3 DEF WeighTerm, TypeOK
  <2>2. mutex = th /\ stage = "ready"
    BY <1>2, <2>1
  <2>3. Turn'
    BY <1>3, <2>1, <2>2 DEF Turn, WeighTerm, TypeOK
  <2>4. ASSUME NEW d, NEW m, document[th] = d, next[th] = m
        PROVE  Follows(d, m + 1)'
    BY <1>2, <1>3, <2>1, <2>4, WeighFollows
  <2>5. Weighed'
    <3> SUFFICES ASSUME NEW u \in Threads, NEW d \in Seq(Terms), NEW m \in Nat,
                        mutex' = u, document'[u] = d, next'[u] = m
                 PROVE  Follows(d, m)'
      BY <1>0, <2>1, <2>2 DEF Weighed
    <3>1. u = th /\ document[th] = d /\ next[th] = m - 1 /\ (m - 1) + 1 = m
      BY <2>1, <2>2 DEF TypeOK
    <3> QED
      BY <2>4, <3>1
  <2>6. Started'
    BY <2>2 DEF Started, corpusVars
  <2>7. ListsByFormula'
    BY <2>1, SameWeights DEF ListsByFormula
  <2> QED
    BY <2>3, <2>5, <2>6, <2>7
<1>4. ASSUME NEW th \in Threads, SubmitLists(th)
      PROVE  Turn' /\ Weighed' /\ Started' /\ ListsByFormula'
  <2>1. next[th] # 0 /\ mutex' = "nobody" /\ inDocument' = Untrained
    BY <1>4 DEF SubmitLists, TypeOK
  <2>2. mutex = th /\ stage = "ready"
    BY <1>2, <2>1
  <2>3. Turn'
    BY <1>0, <1>4, <2>1, <2>2 DEF Turn, SubmitLists, TypeOK
  <2>4. Weighed'
    BY <1>0, <2>1 DEF Weighed
  <2>5. Started'
    BY <2>2 DEF Started, corpusVars
  <2>6. ASSUME NEW d, NEW m, document[th] = d, next[th] = m
        PROVE  ListsByFormula'
    BY <1>2, <1>4, <2>1, <2>6, SubmitKeepsLists
  <2> QED
    BY <2>3, <2>4, <2>5, <2>6
<1> QED
  BY <1>1, <1>3, <1>4 DEF Port0

(* The constructor runs before any document comes.                         *)
LEMMA ConstructorKeeps ==
  ASSUME ListsInv, Constructor, UNCHANGED tupleVars
  PROVE  Turn' /\ Weighed' /\ Started' /\ ListsByFormula'
<1>1. mutex = "nobody" /\ lists = <<>> /\ inDocument = Untrained
  BY DEF ListsInv, Started, Weighed, Constructor, ReadCorpus, ReadFails
<1>2. mutex' = "nobody" /\ lists' = <<>> /\ inDocument' = Untrained /\ next' = next
  BY <1>1 DEF tupleVars
<1> QED
  BY <1>1, <1>2, ThreadAssumption DEF ListsInv, Turn, Weighed, Started, ListsByFormula

(* The trainer and the control port share none of this.                    *)
LEMMA OthersKeep ==
  ASSUME ListsInv, UNCHANGED <<corpusVars, tupleVars>>
  PROVE  Turn' /\ Weighed' /\ Started' /\ ListsByFormula'
<1> USE DEF ListsInv, corpusVars, tupleVars
<1>1. Turn' /\ Started'
  BY DEF Turn, Started
<1>2. \A doc, n : Follows(doc, n)' <=> Follows(doc, n)
  BY SameWeights DEF Follows
<1>3. Weighed'
  BY <1>2 DEF Weighed
<1>4. ListsByFormula'
  BY SameWeights DEF ListsByFormula
<1> QED
  BY <1>1, <1>3, <1>4

(* If the operator has a control port, and thus uses _mutex, the invariant *)
(* of the lists holds in every reachable state.                            *)
THEOREM ListsInductive == ASSUME hasCommandPort PROVE Spec => []ListsInv
<1>1. Init => ListsInv
  <2> SUFFICES ASSUME Init
               PROVE  ListsInv
    OBVIOUS
  <2>1. Turn /\ Weighed /\ Started /\ ListsByFormula
    BY ThreadAssumption DEF Init, Turn, Weighed, Started, ListsByFormula
  <2> QED
    BY <2>1, Initially DEF ListsInv
<1>2. ListsInv /\ [Next]_vars => ListsInv'
  <2> SUFFICES ASSUME ListsInv, [Next]_vars
               PROVE  ListsInv'
    OBVIOUS
  <2>1. TypeOK'
    BY Types DEF ListsInv
  <2>2. Turn' /\ Weighed' /\ Started' /\ ListsByFormula'
    <3>1. CASE UNCHANGED <<corpusVars, tupleVars>>
      BY <3>1, OthersKeep
    <3>2. CASE Constructor /\ UNCHANGED <<builderVars, tupleVars>>
      BY <3>2, ConstructorKeeps
    <3>3. CASE Port0 /\ UNCHANGED <<builderVars, corpusVars>>
      BY <3>3, DocumentKeeps
    <3> QED
      BY <3>1, <3>2, <3>3 DEF Next, ReceiveControl, vars
  <2> QED
    BY <2>1, <2>2 DEF ListsInv
<1> QED
  BY <1>1, <1>2, PTL DEF Spec

(* If the operator has a control port, the lists of each document are      *)
(* those of its own terms, term by term as the formula says, for any       *)
(* number of threads that call port 0, all documents and any limit of the  *)
(* list of top terms.                                                      *)
THEOREM ListsAreByFormula == ASSUME hasCommandPort PROVE Spec => []ListsByFormula
<1>1. ListsInv => ListsByFormula
  BY DEF ListsInv
<1> QED
  BY <1>1, ListsInductive, PTL
===============================================================================
