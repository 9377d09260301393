-------------------------------- MODULE Deque --------------------------------
(***************************************************************************)
(* What darray.h promises: a sequence that grows and shrinks at both ends, *)
(* indexed from 0, with insertion and removal in the middle.  Nothing is   *)
(* said of storage; hints change nothing.                                  *)
(***************************************************************************)
EXTENDS Integers, Sequences

CONSTANTS
  Value,    \* the objects held
  Amounts,  \* what a caller may expect to add: a bound
  NULL      \* returned by the operations that return nothing

VARIABLES
  items,  \* the elements, lowest first
  call,   \* the last call: a bit that changes with every call, and what was called with what
  result  \* what it returned

Upper(i) == SubSeq(items, i + 1, Len(items))  \* the elements from index i on

Indices == 0..(Len(items) - 1)

Calls(op)      == call' = <<1 - call[1], op>>
Return(r)      == result' = r /\ UNCHANGED items
Becomes(s)     == items' = s /\ result' = NULL

AddHigh(x)     == Calls(<<"addh", x>>) /\ Becomes(Append(items, x))
AddLow(x)      == Calls(<<"addl", x>>) /\ Becomes(<<x>> \o items)
Hint(l, h)     == Calls(<<"hint", l, h>>) /\ Becomes(items)
Clear          == Calls(<<"clear">>) /\ Becomes(<<>>)
Recreate       == Calls(<<"create">>) /\ Becomes(<<>>)
Values         == Calls(<<"values">>) /\ Return(items)
Copy           == Calls(<<"copy">>) /\ Return(items)
Get(i)         == Calls(<<"get", i>>) /\ i \in Indices /\ Return(items[i + 1])
Set(i, x)      == Calls(<<"set", i, x>>) /\ i \in Indices /\ Becomes([items EXCEPT ![i + 1] = x])

RemoveIndex(i) ==
  /\ Calls(<<"remove", i>>) /\ i \in Indices
  /\ Becomes(SubSeq(items, 1, i) \o Upper(i + 1))

\* An index outside the sequence means the nearer end.
Insert(i, x) ==
  LET at == IF i <= 0 THEN 0 ELSE IF i >= Len(items) THEN Len(items) ELSE i
  IN  /\ Calls(<<"insert", i, x>>)
      /\ Becomes(SubSeq(items, 1, at) \o <<x>> \o Upper(at))

RemoveHigh ==
  /\ Calls(<<"remh">>) /\ items # <<>>
  /\ items' = SubSeq(items, 1, Len(items) - 1) /\ result' = items[Len(items)]

RemoveLow ==
  /\ Calls(<<"reml">>) /\ items # <<>>
  /\ items' = Tail(items) /\ result' = Head(items)

Init == items = <<>> /\ call = <<0, <<"create">>>> /\ result = NULL

Next ==
  \/ RemoveHigh \/ RemoveLow \/ Clear \/ Recreate \/ Values \/ Copy
  \/ \E x \in Value : AddHigh(x) \/ AddLow(x)
  \/ \E l, h \in Amounts : Hint(l, h)
  \/ \E i \in Indices : Get(i) \/ RemoveIndex(i)
  \/ \E i \in Indices, x \in Value : Set(i, x)
  \/ \E i \in -1..(Len(items) + 1), x \in Value : Insert(i, x)

Spec == Init /\ [][Next]_<<items, call, result>>
==============================================================================
