------------------------------- MODULE Darray -------------------------------
(***************************************************************************)
(* darray.c: the dynamic array every list of the tagger is kept in.  The   *)
(* elements lie in the middle of a block of storage and grow towards both  *)
(* of its ends; a full end makes the block grow.                           *)
(*                                                                         *)
(* The operators named Darray_... are the C functions on a representation, *)
(* and other modules build on them; the actions apply them to one array,   *)
(* by callers that keep to the assertions of the code.                     *)
(***************************************************************************)
EXTENDS Integers, SequencesExt

CONSTANTS
  Value,          \* the objects held
  NULL,           \* the null pointer, and what functions returning void return
  Junk,           \* what freshly allocated memory holds
  MAX_GROW_STEP,  \* largest growth on demand
  MaxLength,      \* elements in the array: a bound
  MaxStorage      \* slots of the storage: a bound

ASSUME ValueAssumption == NULL \notin Value /\ Junk \notin Value /\ Junk # NULL
ASSUME GrowAssumption  == MAX_GROW_STEP \in Nat \ {0}
ASSUME BoundAssumption == MaxLength \in Nat /\ MaxStorage \in Nat \ {0}

VARIABLES
  dar,    \* the representation: length, storage, storage_offset, storage_length
  call,   \* the last call: a bit that changes with every call, and what was called with what
  result  \* what it returned

-----------------------------------------------------------------------------
(* Memory.  Outside the block there is no object to be found.              *)

Block(n) == [i \in 0..(n - 1) |-> Junk]

Slot(d, i) == IF i \in DOMAIN d.storage THEN d.storage[i] ELSE Junk

Store(d, i, x) == [d EXCEPT !.storage = [j \in DOMAIN @ |-> IF j = i THEN x ELSE @[j]]]

-----------------------------------------------------------------------------
(* The functions of darray.c.                                              *)

GrowStep(d, amount) ==
  IF amount # 0 THEN amount
  ELSE IF MAX_GROW_STEP < d.storage_length THEN MAX_GROW_STEP ELSE d.storage_length

\* grow(GROW_HIGH): realloc() keeps the old slots.
GrowHigh(d, amount) ==
  LET n == d.storage_length + GrowStep(d, amount)
  IN  [d EXCEPT !.storage        = [i \in DOMAIN Block(n) |-> Slot(d, i)],
                !.storage_length = n]

\* grow(GROW_LOW): a new block, of which only the slots of the elements are
\* filled.
GrowLow(d, amount) ==
  LET g == GrowStep(d, amount)
      n == d.storage_length + g
      live == (g + d.storage_offset)..(g + d.storage_offset + d.length - 1)
  IN  [d EXCEPT !.storage        = [i \in DOMAIN Block(n) |->
                                      IF i \in live THEN Slot(d, i - g) ELSE Junk],
                !.storage_length = n,
                !.storage_offset = @ + g]

Darray_create ==
  [length |-> 0, storage |-> Block(1), storage_offset |-> 0, storage_length |-> 1]

Darray_hint(d, addl_hint, addh_hint) ==
  LET high == addh_hint - (d.storage_length - d.storage_offset - d.length)
      e    == IF high > 0 THEN GrowHigh(d, high) ELSE d
      low  == addl_hint - e.storage_offset
  IN  IF low > 0 THEN GrowLow(e, low) ELSE e

\* Mutant of Darray_addh: the block grows one element too late.
AddhTooLate(d, x) ==
  LET posn == d.storage_offset + d.length
      e    == IF posn > d.storage_length THEN GrowHigh(d, 0) ELSE d
  IN  [Store(e, posn, x) EXCEPT !.length = @ + 1]

Darray_addh(d, x) ==
  LET posn == d.storage_offset + d.length
      e    == IF posn >= d.storage_length THEN GrowHigh(d, 0) ELSE d
  IN  [Store(e, posn, x) EXCEPT !.length = @ + 1]

Darray_addl(d, x) ==
  LET e == IF d.storage_offset = 0 THEN GrowLow(d, 0) ELSE d
  IN  [Store(e, e.storage_offset - 1, x) EXCEPT !.storage_offset = @ - 1, !.length = @ + 1]

Darray_valid_index(d, index) == index \in 0..(d.length - 1)

Darray_get(d, index)    == Slot(d, d.storage_offset + index)
Darray_set(d, index, x) == Store(d, d.storage_offset + index, x)

DropHigh(d) == [d EXCEPT !.length = @ - 1]
DropLow(d)  == [d EXCEPT !.length = @ - 1, !.storage_offset = @ + 1]

Darray_values(d) == [i \in 1..d.length |-> Darray_get(d, i - 1)]

\* Darray_copy and Darray_duplicate: a new array with room for the elements, to
\* which they are added one after the other.
Darray_copy(d) ==
  LET copied[n \in 0..d.length] ==
        IF n = 0 THEN Darray_hint(Darray_create, 0, d.length)
        ELSE Darray_addh(copied[n - 1], Darray_get(d, n - 1))
  IN  copied[d.length]

\* The elements above index move down by one.
MoveDown(d, index) ==
  LET from == d.storage_offset + index
      last == d.storage_offset + d.length - 1
  IN  [d EXCEPT !.storage = [i \in DOMAIN @ |-> IF i \in from..(last - 1) THEN @[i + 1] ELSE @[i]]]

Darray_remove(d, index) ==
  IF index = d.length - 1 THEN DropHigh(d)
  ELSE IF index = 0 THEN DropLow(d)
  ELSE DropHigh(MoveDown(d, index))

\* Mutant of MoveUp: the first of them is left out.
MoveUpTooFew(d, index) ==
  LET from == d.storage_offset + index
      last == d.storage_offset + d.length - 1
  IN  [d EXCEPT !.storage = [i \in DOMAIN @ |-> IF i \in (from + 2)..last THEN @[i - 1] ELSE @[i]]]

\* The elements from index on move up by one, into a slot added at the end.
MoveUp(d, index) ==
  LET from == d.storage_offset + index
      last == d.storage_offset + d.length - 1
  IN  [d EXCEPT !.storage = [i \in DOMAIN @ |-> IF i \in (from + 1)..last THEN @[i - 1] ELSE @[i]]]

Darray_insert(d, index, x) ==
  IF index <= 0 THEN Darray_addl(d, x)
  ELSE IF index >= d.length THEN Darray_addh(d, x)
  ELSE Darray_set(MoveUp(Darray_addh(d, NULL), index), index, x)

Darray_clear(d) == [d EXCEPT !.storage_offset = 0, !.length = 0]

-----------------------------------------------------------------------------
arrayVars == <<dar, call, result>>

Indices == 0..(dar.length - 1)

Within(d) == d.length <= MaxLength /\ d.storage_length <= MaxStorage

Called(op) == call' = <<1 - call[1], op>>
Becomes(d) == /\ Within(d)
              /\ dar' = d /\ result' = NULL
Return(r)  == result' = r /\ UNCHANGED dar

ArrayInit == dar = Darray_create /\ call = <<0, <<"create">>>> /\ result = NULL

AddHigh(x)     == Called(<<"addh", x>>) /\ Becomes(Darray_addh(dar, x))
AddLow(x)      == Called(<<"addl", x>>) /\ Becomes(Darray_addl(dar, x))
Hint(l, h)     == Called(<<"hint", l, h>>) /\ Becomes(Darray_hint(dar, l, h))
Clear          == Called(<<"clear">>) /\ Becomes(Darray_clear(dar))
Recreate       == Called(<<"create">>) /\ Becomes(Darray_create)  \* after Darray_destroy
Values         == Called(<<"values">>) /\ Return(Darray_values(dar))
Copy           == Called(<<"copy">>) /\ Return(Darray_values(Darray_copy(dar)))
Insert(i, x)   == Called(<<"insert", i, x>>) /\ Becomes(Darray_insert(dar, i, x))

Get(i) ==
  /\ Called(<<"get", i>>) /\ Darray_valid_index(dar, i)
  /\ Return(Darray_get(dar, i))

Set(i, x) ==
  /\ Called(<<"set", i, x>>) /\ Darray_valid_index(dar, i)
  /\ Becomes(Darray_set(dar, i, x))

RemoveIndex(i) ==
  /\ Called(<<"remove", i>>) /\ Darray_valid_index(dar, i)
  /\ Becomes(Darray_remove(dar, i))

RemHigh ==
  /\ Called(<<"remh">>) /\ dar.length > 0
  /\ dar' = DropHigh(dar) /\ result' = Darray_get(dar, dar.length - 1)

RemLow ==
  /\ Called(<<"reml">>) /\ dar.length > 0
  /\ dar' = DropLow(dar) /\ result' = Darray_get(dar, 0)

ArrayNext ==
  \/ RemHigh \/ RemLow \/ Clear \/ Recreate \/ Values \/ Copy
  \/ \E x \in Value : AddHigh(x) \/ AddLow(x)
  \/ \E l, h \in 0..MaxLength : Hint(l, h)
  \/ \E i \in Indices : Get(i) \/ RemoveIndex(i)
  \/ \E i \in Indices, x \in Value : Set(i, x)
  \/ \E i \in -1..(dar.length + 1), x \in Value : Insert(i, x)

ArraySpec == ArrayInit /\ [][ArrayNext]_arrayVars

-----------------------------------------------------------------------------
\* The invariant conditions of darrayP.h: storage_length is the size of the
\* block, and at least 1; the elements lie inside the block, wherever growth,
\* removal and clearing have moved them; and each of them is an object that was
\* put there, never what the memory held before.
InvariantConditions ==
  /\ DOMAIN dar.storage = 0..(dar.storage_length - 1)
  /\ dar.storage_offset + dar.length <= dar.storage_length
  /\ \A i \in Indices : dar.storage[dar.storage_offset + i] \in Value

\* However the storage grows and its elements move, a caller sees the sequence
\* darray.h describes: each call has the effect and the result that Deque gives
\* for its name and its arguments.
Abstract == INSTANCE Deque WITH items <- Darray_values(dar), Amounts <- 0..MaxLength

ImplementsDeque == Abstract!Spec
==============================================================================
