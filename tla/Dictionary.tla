----------------------------- MODULE Dictionary -----------------------------
(***************************************************************************)
(* What registry.h promises: a finite map from keys to objects, where two  *)
(* keys are the same key when the comparison function says so, and the key *)
(* an association was made with can be had back.                           *)
(***************************************************************************)
EXTENDS Integers, SequencesExt

CONSTANTS
  Value,   \* the keys
  Object,  \* the objects
  Class,   \* Class[k]: keys of one class compare as equal
  Hints,   \* sizes a caller may hint at: a bound
  NULL,    \* "not found"
  Bool_TRUE, Bool_FALSE

Classes == {Class[k] : k \in Value}

VARIABLES
  map,    \* the association of each class of keys: a set of [name, obj], at most one
  call,   \* the last call: a bit that changes with every call, and what was called with what
  result  \* what it returned

Associations == UNION {map[c] : c \in Classes}

Empty == [c \in Classes |-> {}]

Calls(op)       == call' = <<1 - call[1], op>>
Return(r)       == result' = r /\ UNCHANGED map
Becomes(f, r)   == map' = f /\ result' = r
Found(k, c)     == map[Class[k]] = {c}
Missing(k)      == map[Class[k]] = {}
Associate(k, x) == [map EXCEPT ![Class[k]] = {[name |-> k, obj |-> x]}]

Create      == Calls(<<"create">>) /\ Becomes(Empty, NULL)
Destroy     == Calls(<<"destroy">>) /\ Becomes(Empty, NULL)
SizeHint(n) == Calls(<<"hint", n>>) /\ Return(NULL)

\* Every association once, in no particular order.
Fetch == Calls(<<"fetch">>) /\ \E s \in SetToSeqs(Associations) : Return(s)

Get(k) ==
  /\ Calls(<<"get", k>>)
  /\ \/ Missing(k) /\ Return(NULL)
     \/ \E c \in Associations : Found(k, c) /\ Return(c.obj)

OriginalKey(k) ==
  /\ Calls(<<"original_key", k>>)
  /\ \/ Missing(k) /\ Return(NULL)
     \/ \E c \in Associations : Found(k, c) /\ Return(c.name)

Forget(k) ==
  /\ Calls(<<"remove", k>>)
  /\ \/ ~Missing(k) /\ Becomes([map EXCEPT ![Class[k]] = {}], Bool_TRUE)
     \/ Missing(k) /\ Return(Bool_FALSE)

Add(k, x) ==
  /\ Calls(<<"add", k, x>>)
  /\ \/ Missing(k) /\ Becomes(Associate(k, x), Bool_TRUE)
     \/ ~Missing(k) /\ Return(Bool_FALSE)

Replace(k, x) ==
  /\ Calls(<<"replace", k, x>>)
  /\ \/ Missing(k) /\ Becomes(Associate(k, x), NULL)
     \/ \E c \in Associations :
          Found(k, c) /\ Becomes([map EXCEPT ![Class[k]] = {[c EXCEPT !.obj = x]}], c.obj)

Init == map = Empty /\ call = <<0, <<"destroy">>>> /\ result = NULL

Next ==
  \/ Create \/ Destroy \/ Fetch
  \/ \E n \in Hints : SizeHint(n)
  \/ \E k \in Value : Get(k) \/ OriginalKey(k) \/ Forget(k)
  \/ \E k \in Value, x \in Object : Add(k, x) \/ Replace(k, x)

Spec == Init /\ [][Next]_<<map, call, result>>
==============================================================================
