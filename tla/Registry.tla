------------------------------ MODULE Registry ------------------------------
(***************************************************************************)
(* registry.c: the hash table the tagger keeps its lexicon, its lemmas and *)
(* its bigrams in.  A table of chains; a record is put at the head of the  *)
(* chain its key hashes to, and found by walking that chain with the       *)
(* comparison function.  Keys and objects are pointers of the caller.      *)
(***************************************************************************)
EXTENDS Darray

CONSTANTS
  Object,           \* the objects callers associate with keys
  Class,            \* comp_fun(k, l) = 0 iff Class[k] = Class[l]
  HashOf,           \* HashOf[Class[k]]: what hash_fun computes before it takes the remainder
  DEFAULT_HT_SIZE,  \* chains of a new table
  Hints,            \* sizes callers hint at: a bound
  Bool_TRUE, Bool_FALSE

ASSUME RegistryAssumption ==
  /\ Object \subseteq Value
  /\ HashOf \in [{Class[k] : k \in Value} -> Nat]   \* so equal keys have equal hashes
  /\ DEFAULT_HT_SIZE \in Nat \ {0}
  /\ Hints \subseteq Nat \ {0}

VARIABLES
  hash_table,   \* the chains, numbered from 0, or <<>> without a registry
  record_count, \* records in them
  asked,        \* the last call: a bit that changes with every call, and what was called with what
  answer        \* what it returned

rvars == <<hash_table, record_count, asked, answer>>

-----------------------------------------------------------------------------
(* Lookup.                                                                 *)

Created == hash_table # <<>>
Chains  == DOMAIN hash_table

Table(ht_size) == [i \in 0..(ht_size - 1) |-> <<>>]

comp_fun(k, l) == Class[k] = Class[l]
hash_fun(k)    == HashOf[Class[k]] % Cardinality(Chains)

Chain(k) == hash_table[hash_fun(k)]

\* The position of the first record with key k in its chain, 0 without one.
Position(k) == SelectInSeq(Chain(k), LAMBDA r : comp_fun(k, r.name))
Found(k)    == Position(k) # 0
Record(k)   == Chain(k)[Position(k)]

\* Mutant of Registry_get_original_key.
KeyAskedFor(k) == IF Found(k) THEN k ELSE NULL

Registry_get(k)              == IF Found(k) THEN Record(k).obj ELSE NULL
Registry_get_original_key(k) == IF Found(k) THEN Record(k).name ELSE NULL
Registry_entry_count         == record_count

\* The records in the order of Registry_traverse.
Traversal == FlattenSeq([i \in 1..Cardinality(Chains) |-> hash_table[i - 1]])

\* add_to_darrays: keys or objects at the high end of an empty array.
add_to_darrays(d, s) ==
  LET added[n \in 0..Len(s)] == IF n = 0 THEN d ELSE Darray_addh(added[n - 1], s[n])
  IN  added[Len(s)]
Names(s)   == [i \in DOMAIN s |-> s[i].name]
Objects(s) == [i \in DOMAIN s |-> s[i].obj]

-----------------------------------------------------------------------------
(* The operations on one registry.                                         *)

Asked(op) == asked' = <<1 - asked[1], op>>
Answer(r) == Created /\ answer' = r /\ UNCHANGED <<hash_table, record_count>>

SetChain(k, chain, count, r) ==
  /\ hash_table' = [hash_table EXCEPT ![hash_fun(k)] = chain]
  /\ record_count' = count
  /\ answer' = r

Push(k, x, r) ==
  SetChain(k, <<[name |-> k, obj |-> x]>> \o Chain(k), record_count + 1, r)

Registry_create ==
  /\ Asked(<<"create">>) /\ ~Created
  /\ hash_table' = Table(DEFAULT_HT_SIZE) /\ record_count' = 0
  /\ answer' = NULL

\* Mutant of Registry_size_hint: a hint makes a new table whatever the old one holds.
ResizeAlways(n) ==
  /\ Asked(<<"hint", n>>) /\ Created
  /\ hash_table' = Table(n) /\ answer' = NULL
  /\ UNCHANGED record_count

\* Ignored once there are records.
Registry_size_hint(n) ==
  /\ Asked(<<"hint", n>>) /\ Created
  /\ hash_table' = IF record_count # 0 THEN hash_table ELSE Table(n)
  /\ answer' = NULL
  /\ UNCHANGED record_count

Registry_add(k, x) ==
  /\ Asked(<<"add", k, x>>) /\ Created
  /\ \/ Found(k) /\ Answer(Bool_FALSE)
     \/ ~Found(k) /\ Push(k, x, Bool_TRUE)

Unlinked(k) == SubSeq(Chain(k), 1, Position(k) - 1)
                 \o SubSeq(Chain(k), Position(k) + 1, Len(Chain(k)))

Registry_remove(k) ==
  /\ Asked(<<"remove", k>>) /\ Created
  /\ \/ Found(k) /\ SetChain(k, Unlinked(k), record_count - 1, Bool_TRUE)
     \/ ~Found(k) /\ Answer(Bool_FALSE)

Registry_replace_value(k, x) ==
  /\ Asked(<<"replace", k, x>>) /\ Created
  /\ \/ /\ Found(k)
        /\ SetChain(k, [Chain(k) EXCEPT ![Position(k)].obj = x], record_count, Record(k).obj)
     \/ ~Found(k) /\ Push(k, x, NULL)

\* Into two new arrays, as the tagger does: what they hold side by side.
Registry_fetch_contents ==
  LET keys   == Darray_values(add_to_darrays(Darray_create, Names(Traversal)))
      values == Darray_values(add_to_darrays(Darray_create, Objects(Traversal)))
  IN  /\ Asked(<<"fetch">>)
      /\ Answer([i \in DOMAIN keys |-> [name |-> keys[i], obj |-> values[i]]])

GetObject(k)      == Asked(<<"get", k>>) /\ Answer(Registry_get(k))
GetOriginalKey(k) == Asked(<<"original_key", k>>) /\ Answer(Registry_get_original_key(k))

Registry_destroy ==
  /\ Asked(<<"destroy">>) /\ Created
  /\ hash_table' = <<>> /\ record_count' = 0
  /\ answer' = NULL

RegistryInit ==
  /\ hash_table = <<>> /\ record_count = 0
  /\ asked = <<0, <<"destroy">>>> /\ answer = NULL

RegistryNext ==
  \/ Registry_create \/ Registry_destroy \/ Registry_fetch_contents
  \/ \E n \in Hints : Registry_size_hint(n)
  \/ \E k \in Value : GetObject(k) \/ GetOriginalKey(k) \/ Registry_remove(k)
  \/ \E k \in Value, x \in Object : Registry_add(k, x) \/ Registry_replace_value(k, x)

RegistrySpec == RegistryInit /\ [][RegistryNext]_rvars

-----------------------------------------------------------------------------
\* Every record is in the chain its key hashes to, no chain holds two records
\* with equal keys, and the count is that of the records: without the first a
\* get misses what is there, without the second a remove brings an old
\* association back, without the third a size hint drops the table.
ChainsWellFormed ==
  /\ Created =>
       \A i \in Chains : \A p, q \in DOMAIN hash_table[i] :
         /\ hash_fun(hash_table[i][p].name) = i
         /\ comp_fun(hash_table[i][p].name, hash_table[i][q].name) => p = q
  /\ Registry_entry_count = Len(Traversal)

\* Whatever the hashes and the order of operations, each call has the effect on
\* the map registry.h describes, and the answer, that Dictionary gives for its
\* name and its arguments.
Associated(c) == {r \in ToSet(Traversal) : Class[r.name] = c}

AbstractMap == INSTANCE Dictionary
                 WITH map <- [c \in {Class[k] : k \in Value} |-> Associated(c)],
                      call <- asked, result <- answer

ImplementsDictionary == AbstractMap!Spec
==============================================================================
