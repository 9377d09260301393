---------------------------- MODULE Gposttl_proofs --------------------------
(***************************************************************************)
(* Proofs about the tagger: Darray and Registry, for arrays and tables of  *)
(* any size, and Lemmatizer, for any data files, texts and words.          *)
(***************************************************************************)
EXTENDS TextUtils_proofs, Registry, Lemmatizer

(* What a representation holds.                                            *)
Slots == Value \union {NULL, Junk}

Sized(d) ==
  /\ d.length \in Nat /\ d.storage_offset \in Nat /\ d.storage_length \in Nat \ {0}
  /\ d.storage_offset + d.length <= d.storage_length

IsBlock(d) ==
  /\ d = [length |-> d.length, storage |-> d.storage,
          storage_offset |-> d.storage_offset, storage_length |-> d.storage_length]
  /\ Sized(d)
  /\ d.storage \in [0..(d.storage_length - 1) -> Slots]

(* The elements are objects that were put there.                           *)
Elem(d, i) == d.storage[d.storage_offset + i]
Filled(d)  == \A i \in 0..(d.length - 1) : Elem(d, i) \in Value

IsArray(d) == IsBlock(d) /\ Filled(d)

(* A new array is an array of no elements in a block of one slot.          *)
LEMMA NewArray == IsArray(Darray_create)
BY DEF IsArray, IsBlock, Sized, Filled, Elem, Darray_create, Block, Slots

(* A store changes one slot.                                               *)
LEMMA StoreSets ==
  ASSUME NEW d, IsBlock(d), NEW i \in 0..(d.storage_length - 1), NEW x \in Slots
  PROVE  /\ IsBlock(Store(d, i, x))
         /\ Store(d, i, x).length = d.length
         /\ Store(d, i, x).storage_offset = d.storage_offset
         /\ Store(d, i, x).storage_length = d.storage_length
         /\ \A j \in 0..(d.storage_length - 1) :
              Store(d, i, x).storage[j] = IF j = i THEN x ELSE d.storage[j]
BY DEF Store, IsBlock, Sized

(* Growth is by one slot at least.                                         *)
LEMMA Grows ==
  ASSUME NEW d, IsBlock(d), NEW amount \in Nat
  PROVE  GrowStep(d, amount) \in Nat \ {0}
BY GrowAssumption DEF GrowStep, IsBlock, Sized

(* Growth at the high end leaves every old slot where it is.               *)
LEMMA GrownHigh ==
  ASSUME NEW d, IsBlock(d), NEW amount \in Nat
  PROVE  /\ IsBlock(GrowHigh(d, amount))
         /\ GrowHigh(d, amount).length = d.length
         /\ GrowHigh(d, amount).storage_offset = d.storage_offset
         /\ GrowHigh(d, amount).storage_length = d.storage_length + GrowStep(d, amount)
         /\ \A j \in 0..(d.storage_length - 1) : GrowHigh(d, amount).storage[j] = d.storage[j]
<1> DEFINE g == GrowStep(d, amount)
           n == d.storage_length + g
           block == [i \in 0..(n - 1) |-> Slot(d, i)]
           e == GrowHigh(d, amount)
<1>1. g \in Nat \ {0} /\ d.storage_length \in Nat /\ n \in Nat
  BY Grows DEF IsBlock, Sized
<1>2. DOMAIN Block(n) = 0..(n - 1)
  BY DEF Block
<1>3. e = [d EXCEPT !.storage = block, !.storage_length = n]
  BY <1>2 DEF GrowHigh
<1>4. /\ e = [length |-> d.length, storage |-> block,
              storage_offset |-> d.storage_offset, storage_length |-> n]
  BY <1>3 DEF IsBlock, Sized
<1>5. \A i \in 0..(n - 1) : Slot(d, i) \in Slots
  BY DEF Slot, Slots, IsBlock, Sized
<1>6. block \in [0..(n - 1) -> Slots]
  BY <1>5
<1>7. \A j \in 0..(d.storage_length - 1) : block[j] = d.storage[j]
  BY <1>1 DEF Slot, IsBlock, Sized
<1> HIDE DEF e, block, n, g
<1>8. /\ e.length = d.length /\ e.storage = block /\ e.storage_offset = d.storage_offset
      /\ e.storage_length = n
  BY <1>4
<1>9. n >= d.storage_length /\ n \in Nat \ {0}
  BY <1>1 DEF n
<1>10. IsBlock(e)
  BY <1>4, <1>6, <1>8, <1>9 DEF IsBlock, Sized
<1>11. QED
  BY <1>7, <1>8, <1>10 DEF e, n, g
(* Growth keeps the elements, at either end.                               *)
SameElements(d, e) ==
  e.length = d.length /\ \A i \in 0..(d.length - 1) : Elem(e, i) = Elem(d, i)

(* So the elements are the same.                                           *)
LEMMA HighKeeps ==
  ASSUME NEW d, IsBlock(d), NEW amount \in Nat
  PROVE  SameElements(d, GrowHigh(d, amount))
<1> DEFINE e == GrowHigh(d, amount)
<1>1. /\ e.length = d.length /\ e.storage_offset = d.storage_offset
      /\ \A j \in 0..(d.storage_length - 1) : e.storage[j] = d.storage[j]
  BY GrownHigh
<1> HIDE DEF e
<1>2. \A i \in 0..(d.length - 1) : d.storage_offset + i \in 0..(d.storage_length - 1)
  BY DEF IsBlock, Sized
<1>3. SameElements(d, e)
  BY <1>1, <1>2 DEF SameElements, Elem
<1>4. QED
  BY <1>3 DEF e

(* Growth at the low end moves the elements up by as much as it adds.      *)
LEMMA GrownLow ==
  ASSUME NEW d, IsBlock(d), NEW amount \in Nat
  PROVE  /\ IsBlock(GrowLow(d, amount)) /\ SameElements(d, GrowLow(d, amount))
         /\ GrowLow(d, amount).storage_offset = d.storage_offset + GrowStep(d, amount)
         /\ GrowLow(d, amount).storage_length = d.storage_length + GrowStep(d, amount)
<1> DEFINE g == GrowStep(d, amount)
           n == d.storage_length + g
           live == (g + d.storage_offset)..(g + d.storage_offset + d.length - 1)
           block == [i \in 0..(n - 1) |-> IF i \in live THEN Slot(d, i - g) ELSE Junk]
           e == GrowLow(d, amount)
<1>1. g \in Nat \ {0} /\ d.storage_length \in Nat /\ n \in Nat
  BY Grows DEF IsBlock, Sized
<1>2. DOMAIN Block(n) = 0..(n - 1)
  BY DEF Block
<1>3. e = [d EXCEPT !.storage = block, !.storage_length = n, !.storage_offset = @ + g]
  BY <1>2 DEF GrowLow
<1>4. e = [length |-> d.length, storage |-> block,
           storage_offset |-> d.storage_offset + g, storage_length |-> n]
  BY <1>3 DEF IsBlock, Sized
<1>5. \A i \in 0..(n - 1) : (IF i \in live THEN Slot(d, i - g) ELSE Junk) \in Slots
  BY DEF Slot, Slots, IsBlock, Sized
<1>6. block \in [0..(n - 1) -> Slots]
  BY <1>5
<1>7. \A i \in 0..(d.length - 1) : block[d.storage_offset + g + i] = Elem(d, i)
  <2> SUFFICES ASSUME NEW i \in 0..(d.length - 1)
               PROVE  block[d.storage_offset + g + i] = Elem(d, i)
    OBVIOUS
  <2> DEFINE j == d.storage_offset + g + i
  <2>1. j \in 0..(n - 1) /\ j \in live /\ j - g = d.storage_offset + i
    BY <1>1, SMTT(30) DEF IsBlock, Sized
  <2>2. d.storage_offset + i \in DOMAIN d.storage
    BY DEF IsBlock, Sized
  <2> HIDE DEF j, live, n, g
  <2>3. block[j] = Slot(d, j - g)
    BY <2>1
  <2>4. QED
    BY <2>1, <2>2, <2>3 DEF Slot, Elem, j
<1> HIDE DEF e, block, n, g, live
<1>8. /\ e.length = d.length /\ e.storage = block /\ e.storage_offset = d.storage_offset + g
      /\ e.storage_length = n
  BY <1>4
<1>9. n \in Nat \ {0} /\ d.storage_offset + g \in Nat /\ d.storage_offset + g + d.length <= n
  BY <1>1 DEF n, IsBlock, Sized
<1>10. IsBlock(e)
  BY <1>4, <1>6, <1>8, <1>9 DEF IsBlock, Sized
<1>11. SameElements(d, e)
  BY <1>7, <1>8 DEF SameElements, Elem
<1>12. QED
  BY <1>8, <1>10, <1>11 DEF e, n, g

(* Room at the ends: for a hint, and for one element more.                 *)
LEMMA Hinted ==
  ASSUME NEW d, IsBlock(d), NEW l \in Nat, NEW h \in Nat
  PROVE  IsBlock(Darray_hint(d, l, h)) /\ SameElements(d, Darray_hint(d, l, h))
<1> DEFINE high == h - (d.storage_length - d.storage_offset - d.length)
           e    == IF high > 0 THEN GrowHigh(d, high) ELSE d
           low  == l - e.storage_offset
<1>1. high > 0 => high \in Nat
  BY DEF IsBlock, Sized
<1>2. IsBlock(e) /\ SameElements(d, e)
  BY <1>1, GrownHigh, HighKeeps DEF SameElements
<1> HIDE DEF e
<1>3. low > 0 => low \in Nat
  BY <1>2 DEF IsBlock, Sized
<1>4. CASE low > 0
  BY <1>2, <1>3, <1>4, GrownLow DEF Darray_hint, SameElements, e
<1>5. CASE ~(low > 0)
  BY <1>2, <1>5 DEF Darray_hint, e
<1>6. QED
  BY <1>4, <1>5

(* The element added is the last one.                                      *)
LEMMA AddedHigh ==
  ASSUME NEW d, IsBlock(d), NEW x \in Slots
  PROVE  LET f == Darray_addh(d, x)
         IN  /\ IsBlock(f) /\ f.length = d.length + 1
             /\ \A i \in 0..(d.length - 1) : Elem(f, i) = Elem(d, i)
             /\ Elem(f, d.length) = x
<1> DEFINE posn == d.storage_offset + d.length
           e == IF posn >= d.storage_length THEN GrowHigh(d, 0) ELSE d
           s == Store(e, posn, x)
           f == Darray_addh(d, x)
<1>1. GrowStep(d, 0) \in Nat \ {0}
  BY Grows
<1>2. /\ IsBlock(e) /\ SameElements(d, e) /\ e.storage_offset = d.storage_offset
      /\ posn \in Nat /\ posn < e.storage_length
  <2>1. CASE posn >= d.storage_length
    <3>1. e = GrowHigh(d, 0)
      BY <2>1
    <3>2. /\ IsBlock(e) /\ SameElements(d, e) /\ e.storage_offset = d.storage_offset
          /\ e.storage_length = d.storage_length + GrowStep(d, 0)
      BY <3>1, GrownHigh, HighKeeps
    <3>3. QED
      BY <1>1, <3>2 DEF IsBlock, Sized
  <2>2. CASE ~(posn >= d.storage_length)
    BY <2>2 DEF SameElements, IsBlock, Sized
  <2>3. QED
    BY <2>1, <2>2
<1> HIDE DEF e
<1>3. /\ IsBlock(s) /\ s.length = d.length /\ s.storage_offset = d.storage_offset
      /\ s.storage_length = e.storage_length
      /\ \A j \in 0..(e.storage_length - 1) : s.storage[j] = IF j = posn THEN x ELSE e.storage[j]
  <2>1. posn \in 0..(e.storage_length - 1)
    BY <1>2 DEF IsBlock, Sized
  <2>2. QED
    BY <1>2, <2>1, StoreSets DEF SameElements
<1>4. f = [s EXCEPT !.length = @ + 1]
  BY DEF Darray_addh, e
<1> HIDE DEF s, f
<1>5. f = [length |-> d.length + 1, storage |-> s.storage,
           storage_offset |-> d.storage_offset, storage_length |-> e.storage_length]
  BY <1>3, <1>4 DEF IsBlock, Sized
<1>6. /\ f.length = d.length + 1 /\ f.storage = s.storage
      /\ f.storage_offset = d.storage_offset /\ f.storage_length = e.storage_length
  BY <1>5
<1>7. IsBlock(f)
  BY <1>2, <1>3, <1>5, <1>6 DEF IsBlock, Sized
<1>8. \A i \in 0..(d.length - 1) : Elem(f, i) = Elem(d, i)
  <2> SUFFICES ASSUME NEW i \in 0..(d.length - 1) PROVE Elem(f, i) = Elem(d, i)
    OBVIOUS
  <2>1. d.storage_offset + i \in 0..(e.storage_length - 1) /\ d.storage_offset + i # posn
    BY <1>2 DEF IsBlock, Sized
  <2>2. QED
    BY <1>2, <1>3, <1>6, <2>1 DEF Elem, SameElements
<1>9. Elem(f, d.length) = x
  BY <1>2, <1>3, <1>6 DEF Elem, IsBlock, Sized
<1>10. QED
  BY <1>6, <1>7, <1>8, <1>9 DEF f

(* The element added is the first one.                                     *)
LEMMA AddedLow ==
  ASSUME NEW d, IsBlock(d), NEW x \in Slots
  PROVE  LET f == Darray_addl(d, x)
         IN  /\ IsBlock(f) /\ f.length = d.length + 1
             /\ \A i \in 0..(d.length - 1) : Elem(f, i + 1) = Elem(d, i)
             /\ Elem(f, 0) = x
<1> DEFINE e == IF d.storage_offset = 0 THEN GrowLow(d, 0) ELSE d
           posn == e.storage_offset - 1
           s == Store(e, posn, x)
           f == Darray_addl(d, x)
<1>1. GrowStep(d, 0) \in Nat \ {0}
  BY Grows
<1>2. IsBlock(e) /\ SameElements(d, e) /\ e.storage_offset > 0
  BY <1>1, GrownLow, SMTT(30) DEF SameElements, IsBlock, Sized
<1> HIDE DEF e
<1>3. posn \in 0..(e.storage_length - 1) /\ posn + 1 = e.storage_offset
  BY <1>2 DEF IsBlock, Sized
<1>4. /\ IsBlock(s) /\ s.length = d.length /\ s.storage_offset = e.storage_offset
      /\ s.storage_length = e.storage_length
      /\ \A j \in 0..(e.storage_length - 1) : s.storage[j] = IF j = posn THEN x ELSE e.storage[j]
  BY <1>2, <1>3, StoreSets DEF SameElements
<1>5. f = [s EXCEPT !.storage_offset = @ - 1, !.length = @ + 1]
  BY DEF Darray_addl, e
<1> HIDE DEF s, f
<1>6. f = [length |-> d.length + 1, storage |-> s.storage,
           storage_offset |-> posn, storage_length |-> e.storage_length]
  BY <1>4, <1>5 DEF IsBlock, Sized
<1>7. /\ f.length = d.length + 1 /\ f.storage = s.storage
      /\ f.storage_offset = posn /\ f.storage_length = e.storage_length
  BY <1>6
<1>8. d.length = e.length /\ d.length \in Nat
  BY <1>2 DEF SameElements, IsBlock, Sized
<1> HIDE DEF posn
<1>9. IsBlock(f)
  BY <1>2, <1>3, <1>4, <1>6, <1>7, <1>8 DEF IsBlock, Sized
<1>10. \A i \in 0..(d.length - 1) : Elem(f, i + 1) = Elem(d, i)
  <2> SUFFICES ASSUME NEW i \in 0..(d.length - 1) PROVE Elem(f, i + 1) = Elem(d, i)
    OBVIOUS
  <2>1. posn + (i + 1) = e.storage_offset + i /\ e.storage_offset + i \in 0..(e.storage_length - 1)
        /\ e.storage_offset + i # posn
    <3>1. Sized(e)
      BY <1>2 DEF IsBlock
    <3>2. QED
      BY <1>3, <1>8, <3>1 DEF Sized
  <2>2. QED
    BY <1>2, <1>4, <1>7, <2>1 DEF Elem, SameElements
<1>11. Elem(f, 0) = x
  BY <1>3, <1>4, <1>7 DEF Elem
<1>12. QED
  BY <1>7, <1>9, <1>10, <1>11 DEF f
-----------------------------------------------------------------------------
(* The functions on arrays: what callers may do keeps an array an array.   *)

(* Filled only grows or shrinks with the elements.                         *)
LEMMA SameFilled ==
  ASSUME NEW d, NEW e, IsArray(d), IsBlock(e), SameElements(d, e)
  PROVE  IsArray(e)
BY DEF IsArray, Filled, SameElements

(* Adding an object at the high end.                                       *)
LEMMA HighArray ==
  ASSUME NEW d, IsArray(d), NEW x \in Value
  PROVE  IsArray(Darray_addh(d, x))
<1> DEFINE f == Darray_addh(d, x)
<1>1. /\ IsBlock(f) /\ f.length = d.length + 1
      /\ \A i \in 0..(d.length - 1) : Elem(f, i) = Elem(d, i)
      /\ Elem(f, d.length) = x
  BY AddedHigh DEF IsArray, Slots
<1> HIDE DEF f
<1>2. \A i \in 0..(f.length - 1) : i \in 0..(d.length - 1) \/ i = d.length
  BY <1>1, SMTT(30) DEF IsArray, IsBlock, Sized
<1>3. IsArray(f)
  BY <1>1, <1>2 DEF IsArray, Filled
<1>4. QED
  BY <1>3 DEF f

(* Adding an object at the low end.                                        *)
LEMMA LowArray ==
  ASSUME NEW d, IsArray(d), NEW x \in Value
  PROVE  IsArray(Darray_addl(d, x))
<1> DEFINE f == Darray_addl(d, x)
<1>1. /\ IsBlock(f) /\ f.length = d.length + 1
      /\ \A i \in 0..(d.length - 1) : Elem(f, i + 1) = Elem(d, i)
      /\ Elem(f, 0) = x
  BY AddedLow DEF IsArray, Slots
<1> HIDE DEF f
<1>2. \A i \in 0..(f.length - 1) : i = 0 \/ (i - 1 \in 0..(d.length - 1) /\ i = (i - 1) + 1)
  BY <1>1, SMTT(30) DEF IsArray, IsBlock, Sized
<1>3. \A i \in 0..(f.length - 1) : Elem(f, i) \in Value
  <2> SUFFICES ASSUME NEW i \in 0..(f.length - 1) PROVE Elem(f, i) \in Value
    OBVIOUS
  <2>1. CASE i = 0
    BY <1>1, <2>1
  <2>2. CASE i - 1 \in 0..(d.length - 1) /\ i = (i - 1) + 1
    <3>1. Elem(f, (i - 1) + 1) = Elem(d, i - 1)
      BY <1>1, <2>2
    <3>2. QED
      BY <2>2, <3>1 DEF IsArray, Filled
  <2>3. QED
    BY <1>2, <2>1, <2>2
<1>4. IsArray(f)
  BY <1>1, <1>3 DEF IsArray, Filled
<1>5. QED
  BY <1>4 DEF f

(* Setting an element changes that element.                                *)
LEMMA SetElem ==
  ASSUME NEW d, IsBlock(d), NEW index \in 0..(d.length - 1), NEW x \in Slots
  PROVE  LET f == Darray_set(d, index, x)
         IN  /\ IsBlock(f) /\ f.length = d.length
             /\ \A i \in 0..(d.length - 1) : Elem(f, i) = IF i = index THEN x ELSE Elem(d, i)
<1> DEFINE posn == d.storage_offset + index
           f == Darray_set(d, index, x)
<1>1. posn \in 0..(d.storage_length - 1)
  BY DEF IsBlock, Sized
<1>2. /\ IsBlock(f) /\ f.length = d.length /\ f.storage_offset = d.storage_offset
      /\ \A j \in 0..(d.storage_length - 1) : f.storage[j] = IF j = posn THEN x ELSE d.storage[j]
  BY <1>1, StoreSets DEF Darray_set
<1> HIDE DEF f
<1>3. \A i \in 0..(d.length - 1) : /\ d.storage_offset + i \in 0..(d.storage_length - 1)
                                   /\ d.storage_offset + i = posn <=> i = index
  BY DEF IsBlock, Sized
<1>4. \A i \in 0..(d.length - 1) : Elem(f, i) = IF i = index THEN x ELSE Elem(d, i)
  BY <1>2, <1>3 DEF Elem
<1>5. QED
  BY <1>2, <1>4 DEF f

(* Setting an element to an object.                                        *)
LEMMA SetArray ==
  ASSUME NEW d, IsArray(d), NEW index \in 0..(d.length - 1), NEW x \in Value
  PROVE  IsArray(Darray_set(d, index, x))
BY SetElem DEF IsArray, Filled, Slots

(* Elements that move inside the block leave the rest as it is.            *)
LEMMA Rewritten ==
  ASSUME NEW d, IsBlock(d), NEW block \in [0..(d.storage_length - 1) -> Slots]
  PROVE  LET f == [d EXCEPT !.storage = block]
         IN  /\ IsBlock(f) /\ f.length = d.length /\ f.storage_offset = d.storage_offset
             /\ f.storage = block
<1> DEFINE f == [d EXCEPT !.storage = block]
<1>1. f = [length |-> d.length, storage |-> block,
           storage_offset |-> d.storage_offset, storage_length |-> d.storage_length]
  BY DEF IsBlock
<1> HIDE DEF f
<1>2. QED
  BY <1>1 DEF IsBlock, Sized, f

(* The elements above an index move up.                                    *)
LEMMA MovedUp ==
  ASSUME NEW d, IsBlock(d), NEW index \in 0..(d.length - 1)
  PROVE  LET f == MoveUp(d, index)
         IN  /\ IsBlock(f) /\ f.length = d.length
             /\ \A i \in 0..(d.length - 1) : Elem(f, i) = IF i > index THEN Elem(d, i - 1) ELSE Elem(d, i)
<1> DEFINE from == d.storage_offset + index
           last == d.storage_offset + d.length - 1
           block == [i \in DOMAIN d.storage |-> IF i \in (from + 1)..last THEN d.storage[i - 1] ELSE d.storage[i]]
           f == MoveUp(d, index)
<1>1. Sized(d) /\ d.storage \in [0..(d.storage_length - 1) -> Slots]
  BY DEF IsBlock
<1>2. \A i \in (from + 1)..last : i - 1 \in 0..(d.storage_length - 1)
  BY <1>1 DEF Sized
<1>3. block \in [0..(d.storage_length - 1) -> Slots]
  BY <1>1, <1>2
<1>4. f = [d EXCEPT !.storage = block]
  BY DEF MoveUp, IsBlock
<1> HIDE DEF f
<1>5. IsBlock(f) /\ f.length = d.length /\ f.storage_offset = d.storage_offset /\ f.storage = block
  BY <1>3, <1>4, Rewritten
<1>6. \A i \in 0..(d.length - 1) :
        /\ d.storage_offset + i \in 0..(d.storage_length - 1)
        /\ d.storage_offset + i \in (from + 1)..last <=> i > index
        /\ d.storage_offset + i - 1 = d.storage_offset + (i - 1)
  BY <1>1, SMTT(30) DEF Sized
<1> HIDE DEF from, last
<1>7. \A i \in 0..(d.length - 1) : Elem(f, i) = IF i > index THEN Elem(d, i - 1) ELSE Elem(d, i)
  <2> SUFFICES ASSUME NEW i \in 0..(d.length - 1)
               PROVE  Elem(f, i) = IF i > index THEN Elem(d, i - 1) ELSE Elem(d, i)
    OBVIOUS
  <2> DEFINE j == d.storage_offset + i
  <2>1. /\ j \in DOMAIN d.storage
        /\ j \in (from + 1)..last <=> i > index
        /\ j - 1 = d.storage_offset + (i - 1)
    <3>1. DOMAIN d.storage = 0..(d.storage_length - 1)
      BY <1>1
    <3>2. QED
      <4>1. i \in Int /\ d.storage_offset \in Int
        BY <1>1 DEF Sized
      <4>2. j - 1 = d.storage_offset + (i - 1)
        BY <4>1
      <4>3. j \in DOMAIN d.storage
        BY <1>6, <3>1
      <4>4. j \in (from + 1)..last <=> i > index
        BY <1>6
      <4>5. QED
        BY <4>2, <4>3, <4>4
  <2> HIDE DEF j
  <2>2. block[j] = IF i > index THEN d.storage[j - 1] ELSE d.storage[j]
    BY <2>1
  <2>3. QED
    BY <1>5, <2>1, <2>2 DEF Elem, j
<1>8. QED
  BY <1>5, <1>7 DEF f

(* The elements above an index move down.                                  *)
LEMMA MovedDown ==
  ASSUME NEW d, IsBlock(d), NEW index \in 0..(d.length - 1)
  PROVE  LET f == MoveDown(d, index)
         IN  /\ IsBlock(f) /\ f.length = d.length
             /\ \A i \in 0..(d.length - 2) : Elem(f, i) = IF i >= index THEN Elem(d, i + 1) ELSE Elem(d, i)
<1> DEFINE from == d.storage_offset + index
           last == d.storage_offset + d.length - 1
           block == [i \in DOMAIN d.storage |-> IF i \in from..(last - 1) THEN d.storage[i + 1] ELSE d.storage[i]]
           f == MoveDown(d, index)
<1>1. Sized(d) /\ d.storage \in [0..(d.storage_length - 1) -> Slots]
  BY DEF IsBlock
<1>2. \A i \in from..(last - 1) : i + 1 \in 0..(d.storage_length - 1)
  BY <1>1, SMTT(30) DEF Sized
<1>3. block \in [0..(d.storage_length - 1) -> Slots]
  BY <1>1, <1>2
<1>4. f = [d EXCEPT !.storage = block]
  BY DEF MoveDown, IsBlock
<1> HIDE DEF f
<1>5. IsBlock(f) /\ f.length = d.length /\ f.storage_offset = d.storage_offset /\ f.storage = block
  BY <1>3, <1>4, Rewritten
<1>6. \A i \in 0..(d.length - 2) :
        /\ d.storage_offset + i \in 0..(d.storage_length - 1)
        /\ d.storage_offset + i \in from..(last - 1) <=> i >= index
        /\ d.storage_offset + i + 1 = d.storage_offset + (i + 1)
  <2> SUFFICES ASSUME NEW i \in 0..(d.length - 2)
               PROVE  /\ d.storage_offset + i \in 0..(d.storage_length - 1)
                      /\ d.storage_offset + i \in from..(last - 1) <=> i >= index
                      /\ d.storage_offset + i + 1 = d.storage_offset + (i + 1)
    OBVIOUS
  <2>1. d.length \in Nat /\ d.storage_offset \in Nat /\ d.storage_length \in Nat
        /\ d.storage_offset + d.length <= d.storage_length
    BY <1>1 DEF Sized
  <2>2. i \in Int /\ index \in Int /\ 0 <= i /\ i <= d.length - 2
    BY <2>1
  <2>3. d.storage_offset + i \in from..(last - 1) <=> i >= index
    BY <2>1, <2>2
  <2>4. QED
    BY <2>1, <2>2, <2>3
<1> HIDE DEF from, last
<1>7. \A i \in 0..(d.length - 2) : Elem(f, i) = IF i >= index THEN Elem(d, i + 1) ELSE Elem(d, i)
  <2> SUFFICES ASSUME NEW i \in 0..(d.length - 2)
               PROVE  Elem(f, i) = IF i >= index THEN Elem(d, i + 1) ELSE Elem(d, i)
    OBVIOUS
  <2> DEFINE j == d.storage_offset + i
  <2>1. /\ j \in DOMAIN d.storage
        /\ j \in from..(last - 1) <=> i >= index
        /\ j + 1 = d.storage_offset + (i + 1)
    <3>1. DOMAIN d.storage = 0..(d.storage_length - 1)
      BY <1>1
    <3>2. QED
      BY <1>6, <3>1
  <2> HIDE DEF j
  <2>2. block[j] = IF i >= index THEN d.storage[j + 1] ELSE d.storage[j]
    BY <2>1
  <2>3. QED
    BY <1>5, <2>1, <2>2 DEF Elem, j
<1>8. QED
  BY <1>5, <1>7 DEF f

(* An element less at either end.                                          *)
LEMMA Dropped ==
  ASSUME NEW d, IsBlock(d), d.length > 0
  PROVE  /\ IsBlock(DropHigh(d)) /\ DropHigh(d).length = d.length - 1
         /\ \A i \in 0..(d.length - 2) : Elem(DropHigh(d), i) = Elem(d, i)
         /\ IsBlock(DropLow(d)) /\ DropLow(d).length = d.length - 1
         /\ \A i \in 0..(d.length - 2) : Elem(DropLow(d), i) = Elem(d, i + 1)
<1> DEFINE h == DropHigh(d)
           l == DropLow(d)
<1>1. h = [length |-> d.length - 1, storage |-> d.storage,
           storage_offset |-> d.storage_offset, storage_length |-> d.storage_length]
  BY DEF DropHigh, IsBlock
<1>l. l = [d EXCEPT !.length = @ - 1, !.storage_offset = @ + 1]
  BY DEF DropLow
<1> HIDE DEF l
<1>2. l = [length |-> d.length - 1, storage |-> d.storage,
           storage_offset |-> d.storage_offset + 1, storage_length |-> d.storage_length]
  BY <1>l DEF IsBlock
<1> HIDE DEF h
<1>3. IsBlock(h) /\ h.length = d.length - 1
  BY <1>1 DEF IsBlock, Sized
<1>4. IsBlock(l) /\ l.length = d.length - 1
  BY <1>2 DEF IsBlock, Sized
<1>5. \A i \in 0..(d.length - 2) : Elem(h, i) = Elem(d, i)
  BY <1>1 DEF Elem
<1>6. \A i \in 0..(d.length - 2) : (d.storage_offset + 1) + i = d.storage_offset + (i + 1)
  BY DEF IsBlock, Sized
<1>7. \A i \in 0..(d.length - 2) : Elem(l, i) = Elem(d, i + 1)
  BY <1>2, <1>6 DEF Elem
<1>8. QED
  BY <1>3, <1>4, <1>5, <1>7 DEF h, l
(* What is left when an end is dropped was there before.                   *)
LEMMA DroppedArray ==
  ASSUME NEW d, IsArray(d), d.length > 0
  PROVE  IsArray(DropHigh(d)) /\ IsArray(DropLow(d))
<1> DEFINE h == DropHigh(d)
           l == DropLow(d)
<1>1. /\ IsBlock(h) /\ h.length = d.length - 1 /\ \A i \in 0..(d.length - 2) : Elem(h, i) = Elem(d, i)
      /\ IsBlock(l) /\ l.length = d.length - 1 /\ \A i \in 0..(d.length - 2) : Elem(l, i) = Elem(d, i + 1)
  BY Dropped DEF IsArray
<1> HIDE DEF h, l
<1>2. d.length \in Nat /\ (d.length - 1) - 1 = d.length - 2
  BY DEF IsArray, IsBlock, Sized
<1>3. \A i \in 0..(d.length - 2) : i \in 0..(d.length - 1) /\ i + 1 \in 0..(d.length - 1)
  BY <1>2
<1>4. \A i \in 0..(d.length - 2) : Elem(h, i) \in Value /\ Elem(l, i) \in Value
  BY <1>1, <1>3 DEF IsArray, Filled
<1>5. IsArray(h) /\ IsArray(l)
  BY <1>1, <1>2, <1>4 DEF IsArray, Filled
<1>6. QED
  BY <1>5 DEF h, l

(* Removing at an end or in the middle: the elements above move down.      *)
LEMMA RemoveArray ==
  ASSUME NEW d, IsArray(d), NEW index \in 0..(d.length - 1)
  PROVE  LET f == Darray_remove(d, index)
         IN  /\ IsArray(f) /\ f.length = d.length - 1
             /\ \A i \in 0..(d.length - 2) : Elem(f, i) = IF i >= index THEN Elem(d, i + 1) ELSE Elem(d, i)
<1>1. d.length > 0 /\ d.length \in Nat
  BY DEF IsArray, IsBlock, Sized
<1> DEFINE f == Darray_remove(d, index)
<1>2. /\ IsBlock(f) /\ f.length = d.length - 1
      /\ \A i \in 0..(d.length - 2) : Elem(f, i) = IF i >= index THEN Elem(d, i + 1) ELSE Elem(d, i)
  <2>1. CASE index = d.length - 1
    <3>1. /\ IsBlock(f) /\ f.length = d.length - 1
          /\ \A i \in 0..(d.length - 2) : Elem(f, i) = Elem(d, i)
      BY <1>1, <2>1, Dropped DEF Darray_remove, IsArray
    <3> HIDE DEF f
    <3>2. \A i \in 0..(d.length - 2) : ~(i >= index)
      BY <1>1, <2>1
    <3> QED BY <3>1, <3>2
  <2>2. CASE index # d.length - 1 /\ index = 0
    <3>1. /\ IsBlock(f) /\ f.length = d.length - 1
          /\ \A i \in 0..(d.length - 2) : Elem(f, i) = Elem(d, i + 1)
      BY <1>1, <2>2, Dropped DEF Darray_remove, IsArray
    <3> HIDE DEF f
    <3> QED BY <2>2, <3>1
  <2>3. CASE index # d.length - 1 /\ index # 0
    <3> DEFINE m == MoveDown(d, index)
    <3>1. /\ IsBlock(m) /\ m.length = d.length
          /\ \A i \in 0..(d.length - 2) : Elem(m, i) = IF i >= index THEN Elem(d, i + 1) ELSE Elem(d, i)
      BY MovedDown DEF IsArray
    <3>2. f = DropHigh(m)
      BY <2>3 DEF Darray_remove
    <3> HIDE DEF m, f
    <3>3. /\ IsBlock(f) /\ f.length = d.length - 1
          /\ \A i \in 0..(d.length - 2) : Elem(f, i) = Elem(m, i)
      BY <1>1, <3>1, <3>2, Dropped
    <3> QED BY <3>1, <3>3
  <2> QED BY <2>1, <2>2, <2>3
<1> HIDE DEF f
<1>3. \A i \in 0..(d.length - 2) : i \in 0..(d.length - 1) /\ i + 1 \in 0..(d.length - 1)
  BY <1>1
<1>4. \A i \in 0..(d.length - 2) : Elem(f, i) \in Value
  BY <1>2, <1>3 DEF IsArray, Filled
<1>5. (d.length - 1) - 1 = d.length - 2
  BY <1>1
<1>6. IsArray(f)
  BY <1>2, <1>4, <1>5 DEF IsArray, Filled
<1> QED BY <1>2, <1>6 DEF f

(* Where an index outside the array inserts.                               *)
Place(d, index) == IF index <= 0 THEN 0 ELSE IF index >= d.length THEN d.length ELSE index

(* Inserting: the elements above move up, and the null pointer that makes  *)
(* room is overwritten.                                                    *)
LEMMA InsertArray ==
  ASSUME NEW d, IsArray(d), NEW index \in Int, NEW x \in Value
  PROVE  LET f == Darray_insert(d, index, x)
             at == Place(d, index)
         IN  /\ IsArray(f) /\ f.length = d.length + 1
             /\ \A i \in 0..d.length : Elem(f, i) = IF i = at THEN x
                                                    ELSE IF i > at THEN Elem(d, i - 1) ELSE Elem(d, i)
<1>1. d.length \in Nat
  BY DEF IsArray, IsBlock, Sized
<1> DEFINE f == Darray_insert(d, index, x)
           at == Place(d, index)
<1>2. /\ IsBlock(f) /\ f.length = d.length + 1
      /\ \A i \in 0..d.length : Elem(f, i) = IF i = at THEN x
                                             ELSE IF i > at THEN Elem(d, i - 1) ELSE Elem(d, i)
  <2>1. CASE index <= 0
    <3>1. f = Darray_addl(d, x) /\ at = 0
      BY <2>1 DEF Darray_insert, Place
    <3> HIDE DEF f, at
    <3>2. /\ IsBlock(f) /\ f.length = d.length + 1
          /\ \A i \in 0..(d.length - 1) : Elem(f, i + 1) = Elem(d, i)
          /\ Elem(f, 0) = x
      BY <3>1, AddedLow DEF IsArray, Slots
    <3>3. ASSUME NEW i \in 0..d.length, i # 0 PROVE Elem(f, i) = Elem(d, i - 1)
      <4>1. i - 1 \in 0..(d.length - 1) /\ (i - 1) + 1 = i
        BY <1>1, <3>3
      <4> QED BY <3>2, <4>1
    <3>4. \A i \in 0..d.length : i # 0 => i > 0
      OBVIOUS
    <3> QED BY <3>1, <3>2, <3>3, <3>4
  <2>2. CASE ~(index <= 0) /\ index >= d.length
    <3>1. f = Darray_addh(d, x) /\ at = d.length
      BY <2>2 DEF Darray_insert, Place
    <3> HIDE DEF f, at
    <3>2. /\ IsBlock(f) /\ f.length = d.length + 1
          /\ \A i \in 0..(d.length - 1) : Elem(f, i) = Elem(d, i)
          /\ Elem(f, d.length) = x
      BY <3>1, AddedHigh DEF IsArray, Slots
    <3>3. \A i \in 0..d.length : (i # d.length => i \in 0..(d.length - 1)) /\ ~(i > d.length)
      BY <1>1
    <3> QED BY <3>1, <3>2, <3>3
  <2>3. CASE ~(index <= 0) /\ ~(index >= d.length)
    <3> DEFINE a == Darray_addh(d, NULL)
               m == MoveUp(a, index)
    <3>0. f = Darray_set(m, index, x) /\ at = index
      BY <2>3 DEF Darray_insert, Place
    <3> HIDE DEF f, at
    <3>1. /\ IsBlock(a) /\ a.length = d.length + 1
          /\ \A i \in 0..(d.length - 1) : Elem(a, i) = Elem(d, i)
      BY AddedHigh DEF IsArray, Slots
    <3> HIDE DEF a
    <3>2. index \in 0..(a.length - 1) /\ a.length - 1 = d.length /\ a.length \in Nat
      BY <1>1, <2>3, <3>1
    <3>3. /\ IsBlock(m) /\ m.length = a.length
          /\ \A i \in 0..d.length : Elem(m, i) = IF i > index THEN Elem(a, i - 1) ELSE Elem(a, i)
      BY <3>1, <3>2, MovedUp
    <3> HIDE DEF m
    <3>4. /\ IsBlock(f) /\ f.length = a.length
          /\ \A i \in 0..d.length : Elem(f, i) = IF i = index THEN x ELSE Elem(m, i)
      BY <3>0, <3>2, <3>3, SetElem DEF Slots
    <3>5. ASSUME NEW i \in 0..d.length, i # index
          PROVE  Elem(f, i) = IF i > index THEN Elem(d, i - 1) ELSE Elem(d, i)
      <4>1. CASE i > index
        <5>1. i - 1 \in 0..(d.length - 1)
          BY <1>1, <2>3, <4>1
        <5> QED BY <3>1, <3>3, <3>4, <3>5, <4>1, <5>1
      <4>2. CASE ~(i > index)
        <5>1. i \in 0..(d.length - 1)
          BY <1>1, <2>3, <3>5, <4>2
        <5> QED BY <3>1, <3>3, <3>4, <3>5, <4>2, <5>1
      <4> QED BY <4>1, <4>2
    <3> QED BY <3>0, <3>1, <3>4, <3>5
  <2> QED BY <2>1, <2>2, <2>3
<1> HIDE DEF f
<1>3. at \in 0..d.length
  BY <1>1 DEF Place
<1> HIDE DEF at
<1>4. \A i \in 0..d.length : Elem(f, i) \in Value
  <2>1. \A i \in 0..d.length : (i > at => i - 1 \in 0..(d.length - 1))
                               /\ (i # at /\ ~(i > at) => i \in 0..(d.length - 1))
    BY <1>1, <1>3
  <2> QED BY <1>2, <2>1 DEF IsArray, Filled
<1>5. IsArray(f)
  BY <1>1, <1>2, <1>4 DEF IsArray, Filled
<1> QED BY <1>2, <1>5 DEF f, at

(* Clearing keeps the block and forgets the elements.                      *)
LEMMA ClearedArray ==
  ASSUME NEW d, IsArray(d)
  PROVE  IsArray(Darray_clear(d))
<1> DEFINE f == Darray_clear(d)
<1>l. f = [d EXCEPT !.storage_offset = 0, !.length = 0]
  BY DEF Darray_clear
<1> HIDE DEF f
<1>1. f = [length |-> 0, storage |-> d.storage, storage_offset |-> 0, storage_length |-> d.storage_length]
  BY <1>l DEF IsArray, IsBlock
<1>2. IsArray(f)
  BY <1>1 DEF IsArray, IsBlock, Sized, Filled
<1>3. QED
  BY <1>2 DEF f

(* Hints change no element.                                                *)
LEMMA HintedArray ==
  ASSUME NEW d, IsArray(d), NEW l \in Nat, NEW h \in Nat
  PROVE  IsArray(Darray_hint(d, l, h))
<1> DEFINE e == Darray_hint(d, l, h)
<1>1. IsBlock(e) /\ SameElements(d, e)
  BY Hinted DEF IsArray
<1> HIDE DEF e
<1>2. IsArray(e)
  BY <1>1, SameFilled
<1>3. QED
  BY <1>2 DEF e

-----------------------------------------------------------------------------
(* Every operation keeps an array an array.                                *)
LEMMA NextArray == IsArray(dar) /\ [ArrayNext]_arrayVars => IsArray(dar)'
<1> SUFFICES ASSUME IsArray(dar), [ArrayNext]_arrayVars PROVE IsArray(dar')
  BY DEF IsArray, IsBlock, Sized, Filled, Elem
<1>1. CASE RemHigh \/ RemLow
  BY <1>1, DroppedArray DEF RemHigh, RemLow
<1>2. CASE Clear \/ Recreate
  BY <1>2, ClearedArray, NewArray DEF Clear, Recreate, Becomes
<1>3. CASE Values \/ Copy
  BY <1>3 DEF Values, Copy, Return
<1>4. ASSUME NEW x \in Value, AddHigh(x) \/ AddLow(x)
      PROVE  IsArray(dar')
  BY <1>4, HighArray, LowArray DEF AddHigh, AddLow, Becomes
<1>5. ASSUME NEW l \in 0..MaxLength, NEW h \in 0..MaxLength, Hint(l, h)
      PROVE  IsArray(dar')
  <2>1. l \in Nat /\ h \in Nat
    BY BoundAssumption
  <2>2. QED
    BY <1>5, <2>1, HintedArray DEF Hint, Becomes
<1>6. ASSUME NEW i \in Indices, Get(i) \/ RemoveIndex(i)
      PROVE  IsArray(dar')
  BY <1>6, RemoveArray DEF Get, RemoveIndex, Return, Becomes, Indices
<1>7. ASSUME NEW i \in Indices, NEW x \in Value, Set(i, x)
      PROVE  IsArray(dar')
  BY <1>7, SetArray DEF Set, Becomes, Indices
<1>8. ASSUME NEW i \in -1..(dar.length + 1), NEW x \in Value, Insert(i, x)
      PROVE  IsArray(dar')
  <2>1. i \in Int
    OBVIOUS
  <2>2. QED
    BY <1>8, <2>1, InsertArray DEF Insert, Becomes
<1>9. CASE UNCHANGED arrayVars
  BY <1>9 DEF arrayVars
<1>10. QED
  BY <1>1, <1>2, <1>3, <1>4, <1>5, <1>6, <1>7, <1>8, <1>9 DEF ArrayNext

(* The invariant conditions of darrayP.h hold for any array, whatever its  *)
(* storage has grown to: the elements lie inside the block, and each is an *)
(* object that was put there.                                              *)
THEOREM ConditionsHold == ArraySpec => []InvariantConditions
<1>1. ArrayInit => IsArray(dar)
  BY NewArray DEF ArrayInit
<1>2. IsArray(dar) /\ [ArrayNext]_arrayVars => IsArray(dar)'
  BY NextArray
<1>3. IsArray(dar) => InvariantConditions
  BY DEF InvariantConditions, IsArray, IsBlock, Sized, Filled, Elem, Indices
<1>4. QED
  BY <1>1, <1>2, <1>3, PTL DEF ArraySpec

-----------------------------------------------------------------------------
(* What a caller sees: the elements as a sequence.                         *)

(* The values of an array are its elements in order.                       *)
LEMMA ValuesSeq ==
  ASSUME NEW d, IsArray(d)
  PROVE  /\ Darray_values(d) \in Seq(Value) /\ Len(Darray_values(d)) = d.length
         /\ \A i \in 0..(d.length - 1) : Darray_get(d, i) = Elem(d, i)
         /\ \A i \in 1..d.length : Darray_values(d)[i] = Elem(d, i - 1)
<1>1. d.length \in Nat /\ DOMAIN d.storage = 0..(d.storage_length - 1)
  BY DEF IsArray, IsBlock, Sized
<1>2. \A i \in 0..(d.length - 1) : Darray_get(d, i) = Elem(d, i)
  <2>1. \A i \in 0..(d.length - 1) : d.storage_offset + i \in 0..(d.storage_length - 1)
    BY DEF IsArray, IsBlock, Sized
  <2> QED BY <1>1, <2>1 DEF Darray_get, Slot, Elem
<1>3. \A i \in 1..d.length : i - 1 \in 0..(d.length - 1)
  BY <1>1
<1> DEFINE v == Darray_values(d)
<1>4. /\ DOMAIN v = 1..d.length /\ v = [i \in 1..d.length |-> v[i]]
      /\ \A i \in 1..d.length : v[i] = Elem(d, i - 1)
  BY <1>2, <1>3 DEF Darray_values
<1> HIDE DEF v
<1>5. \A i \in 1..d.length : v[i] \in Value
  BY <1>3, <1>4 DEF IsArray, Filled
<1>6. v \in [1..d.length -> Value]
  BY <1>4, <1>5
<1>7. v \in Seq(Value) /\ Len(v) = d.length
  BY <1>1, <1>6
<1> QED BY <1>2, <1>4, <1>7 DEF v

(* So an array with the elements of a sequence has that sequence as its    *)
(* values.                                                                 *)
LEMMA SameSeq ==
  ASSUME NEW d, IsArray(d), NEW s \in Seq(Value), Len(s) = d.length,
         \A i \in 1..d.length : Elem(d, i - 1) = s[i]
  PROVE  Darray_values(d) = s
<1> DEFINE v == Darray_values(d)
<1>1. v \in Seq(Value) /\ Len(v) = d.length /\ \A i \in 1..d.length : v[i] = Elem(d, i - 1)
  BY ValuesSeq
<1> HIDE DEF v
<1>2. v = s
  BY <1>1, SeqEqual
<1> QED BY <1>2 DEF v

(* One element inserted after the first n.                                 *)
Inserted(s, n, x) == SubSeq(s, 1, n) \o <<x>> \o SubSeq(s, n + 1, Len(s))

WithOneMore(t, s, n, x) ==
  /\ t \in Seq(Value) /\ Len(t) = Len(s) + 1
  /\ \A i \in 1..(Len(s) + 1) :
       t[i] = IF i = n + 1 THEN x ELSE IF i > n + 1 THEN s[i - 1] ELSE s[i]

(* It is a sequence of one more element.                                   *)
LEMMA InsertedSeq ==
  ASSUME NEW s \in Seq(Value), NEW n \in 0..Len(s), NEW x \in Value
  PROVE  WithOneMore(Inserted(s, n, x), s, n, x)
<1> DEFINE a == SubSeq(s, 1, n)
           b == SubSeq(s, n + 1, Len(s))
           m == a \o <<x>>
<1>1. Len(s) \in Nat /\ n \in Int /\ \A i \in 1..Len(s) : s[i] \in Value
  BY ElementOfSeq
<1>2. a \in Seq(Value) /\ Len(a) = n /\ \A i \in 1..n : a[i] = s[i]
  <2>1. /\ a \in Seq(Value) /\ Len(a) = (IF 1 <= n THEN n - 1 + 1 ELSE 0)
        /\ \A i \in 1..(n - 1 + 1) : a[i] = s[1 + i - 1]
    BY <1>1, SubSeqProperties
  <2> HIDE DEF a
  <2> QED BY <1>1, <2>1
<1>3. b \in Seq(Value) /\ Len(b) = Len(s) - n /\ \A i \in 1..(Len(s) - n) : b[i] = s[n + i]
  <2>1. /\ b \in Seq(Value) /\ Len(b) = (IF n + 1 <= Len(s) THEN Len(s) - (n + 1) + 1 ELSE 0)
        /\ \A i \in 1..(Len(s) - (n + 1) + 1) : b[i] = s[(n + 1) + i - 1]
    BY <1>1, SubSeqProperties
  <2> HIDE DEF b
  <2> QED BY <1>1, <2>1
<1> HIDE DEF a, b
<1>4. m \in Seq(Value) /\ Len(m) = n + 1 /\ m[n + 1] = x /\ \A i \in 1..n : m[i] = s[i]
  BY <1>1, <1>2
<1> HIDE DEF m
<1>5. /\ m \o b \in Seq(Value) /\ Len(m \o b) = Len(m) + Len(b)
      /\ \A i \in 1..(Len(m) + Len(b)) : (m \o b)[i] = IF i <= Len(m) THEN m[i] ELSE b[i - Len(m)]
  BY <1>3, <1>4, ConcatProperties
<1>6. ASSUME NEW i \in 1..(Len(s) + 1)
      PROVE  (m \o b)[i] = IF i = n + 1 THEN x ELSE IF i > n + 1 THEN s[i - 1] ELSE s[i]
  <2>1. CASE i > n + 1
    <3>0. Len(m) = n + 1
      BY <1>4
    <3>1. i - Len(m) \in 1..(Len(s) - n) /\ n + (i - Len(m)) = i - 1 /\ ~(i <= Len(m)) /\ i # n + 1
      BY <1>1, <2>1, <3>0
    <3>2. i \in 1..(Len(m) + Len(b))
      BY <1>1, <1>3, <1>4
    <3>3. (m \o b)[i] = b[i - Len(m)]
      BY <1>5, <3>1, <3>2
    <3>4. b[i - Len(m)] = s[i - 1]
      BY <1>3, <3>1
    <3> QED BY <2>1, <3>1, <3>3, <3>4
  <2>2. CASE ~(i > n + 1)
    <3>1. i <= Len(m) /\ (i = n + 1 \/ i \in 1..n)
      BY <1>1, <1>4, <2>2
    <3> QED BY <1>1, <1>3, <1>4, <1>5, <2>2, <3>1
  <2> QED BY <2>1, <2>2
<1>7. Inserted(s, n, x) = m \o b
  BY DEF Inserted, m, a, b
<1>8. Len(m \o b) = Len(s) + 1
  BY <1>1, <1>3, <1>4, <1>5
<1> QED BY <1>5, <1>6, <1>7, <1>8 DEF WithOneMore

(* One element taken out after the first n.                                *)
Removed(s, n) == SubSeq(s, 1, n) \o SubSeq(s, n + 2, Len(s))

(* It is a sequence of one element less.                                   *)
LEMMA RemovedSeq ==
  ASSUME NEW s \in Seq(Value), NEW n \in 0..(Len(s) - 1)
  PROVE  /\ Removed(s, n) \in Seq(Value) /\ Len(Removed(s, n)) = Len(s) - 1
         /\ \A i \in 1..(Len(s) - 1) : Removed(s, n)[i] = IF i > n THEN s[i + 1] ELSE s[i]
<1> DEFINE a == SubSeq(s, 1, n)
           b == SubSeq(s, n + 2, Len(s))
<1>1. Len(s) \in Nat /\ n \in Int /\ \A i \in 1..Len(s) : s[i] \in Value
  BY ElementOfSeq
<1>2. a \in Seq(Value) /\ Len(a) = n /\ \A i \in 1..n : a[i] = s[i]
  <2>1. /\ a \in Seq(Value) /\ Len(a) = (IF 1 <= n THEN n - 1 + 1 ELSE 0)
        /\ \A i \in 1..(n - 1 + 1) : a[i] = s[1 + i - 1]
    BY <1>1, SubSeqProperties
  <2> HIDE DEF a
  <2> QED BY <1>1, <2>1
<1>3. b \in Seq(Value) /\ Len(b) = Len(s) - n - 1 /\ \A i \in 1..(Len(s) - n - 1) : b[i] = s[n + 1 + i]
  <2>1. /\ b \in Seq(Value) /\ Len(b) = (IF n + 2 <= Len(s) THEN Len(s) - (n + 2) + 1 ELSE 0)
        /\ \A i \in 1..(Len(s) - (n + 2) + 1) : b[i] = s[(n + 2) + i - 1]
    BY <1>1, SubSeqProperties
  <2> HIDE DEF b
  <2>2. Len(b) = Len(s) - n - 1
    BY <1>1, <2>1
  <2>3. ASSUME NEW i \in 1..(Len(s) - n - 1) PROVE b[i] = s[n + 1 + i]
    <3>1. i \in 1..(Len(s) - (n + 2) + 1) /\ (n + 2) + i - 1 = n + 1 + i
      BY <1>1
    <3> QED BY <2>1, <3>1
  <2> QED BY <2>1, <2>2, <2>3
<1> HIDE DEF a, b
<1>4. /\ a \o b \in Seq(Value) /\ Len(a \o b) = Len(a) + Len(b)
      /\ \A i \in 1..(Len(a) + Len(b)) : (a \o b)[i] = IF i <= Len(a) THEN a[i] ELSE b[i - Len(a)]
  BY <1>2, <1>3, ConcatProperties
<1>5. ASSUME NEW i \in 1..(Len(s) - 1)
      PROVE  (a \o b)[i] = IF i > n THEN s[i + 1] ELSE s[i]
  <2>1. CASE i > n
    <3>1. i - Len(a) \in 1..(Len(s) - n - 1) /\ n + 1 + (i - Len(a)) = i + 1 /\ ~(i <= Len(a))
      BY <1>1, <1>2, <2>1
    <3> QED BY <1>1, <1>2, <1>3, <1>4, <2>1, <3>1
  <2>2. CASE ~(i > n)
    BY <1>1, <1>2, <1>3, <1>4, <2>2
  <2> QED BY <2>1, <2>2
<1>6. Removed(s, n) = a \o b
  BY DEF Removed, a, b
<1> QED BY <1>1, <1>2, <1>3, <1>4, <1>5, <1>6

(* Insertion, removal and setting do to the sequence what they should.     *)
LEMMA InsertSeq ==
  ASSUME NEW d, IsArray(d), NEW index \in Int, NEW x \in Value
  PROVE  Darray_values(Darray_insert(d, index, x)) = Inserted(Darray_values(d), Place(d, index), x)
<1> DEFINE f == Darray_insert(d, index, x)
           v == Darray_values(d)
           at == Place(d, index)
           s == Inserted(v, at, x)
<1>1. d.length \in Nat /\ v \in Seq(Value) /\ Len(v) = d.length
      /\ \A i \in 1..d.length : v[i] = Elem(d, i - 1)
  BY ValuesSeq DEF IsArray, IsBlock, Sized
<1>2. /\ IsArray(f) /\ f.length = d.length + 1
      /\ \A i \in 0..d.length : Elem(f, i) = IF i = at THEN x
                                             ELSE IF i > at THEN Elem(d, i - 1) ELSE Elem(d, i)
  BY InsertArray
<1>3. at \in 0..d.length
  BY <1>1 DEF Place
<1> HIDE DEF f, v, at
<1>4. WithOneMore(s, v, at, x)
  <2>1. at \in 0..Len(v)
    BY <1>1, <1>3
  <2> QED BY <1>1, <2>1, InsertedSeq
<1> HIDE DEF s
<1> USE DEF WithOneMore
<1>5. ASSUME NEW i \in 1..(d.length + 1) PROVE Elem(f, i - 1) = s[i]
  <2>1. i - 1 \in 0..d.length /\ (i - 1 = at <=> i = at + 1) /\ (i - 1 > at <=> i > at + 1)
    BY <1>1, <1>3
  <2>2. CASE i = at + 1
    BY <1>1, <1>2, <1>4, <2>1, <2>2
  <2>3. CASE i > at + 1
    <3>1. i - 1 \in 1..d.length /\ i # at + 1
      BY <1>1, <1>3, <2>3
    <3> QED BY <1>1, <1>2, <1>4, <2>1, <2>3, <3>1
  <2>4. CASE i # at + 1 /\ ~(i > at + 1)
    <3>1. i \in 1..d.length
      BY <1>1, <1>3, <2>4
    <3> QED BY <1>1, <1>2, <1>4, <2>1, <2>4, <3>1
  <2> QED BY <2>2, <2>3, <2>4
<1>6. Darray_values(f) = s
  BY <1>1, <1>2, <1>4, <1>5, SameSeq
<1> QED BY <1>6 DEF f, s, v, at

(* Darray_remove takes out the element at the index.                       *)
LEMMA RemoveSeq ==
  ASSUME NEW d, IsArray(d), NEW index \in 0..(d.length - 1)
  PROVE  Darray_values(Darray_remove(d, index)) = Removed(Darray_values(d), index)
<1> DEFINE f == Darray_remove(d, index)
           v == Darray_values(d)
           s == Removed(v, index)
<1>1. d.length \in Nat /\ v \in Seq(Value) /\ Len(v) = d.length
      /\ \A i \in 1..d.length : v[i] = Elem(d, i - 1)
  BY ValuesSeq DEF IsArray, IsBlock, Sized
<1>2. /\ IsArray(f) /\ f.length = d.length - 1
      /\ \A i \in 0..(d.length - 2) : Elem(f, i) = IF i >= index THEN Elem(d, i + 1) ELSE Elem(d, i)
  BY RemoveArray
<1> HIDE DEF f, v
<1>3. /\ s \in Seq(Value) /\ Len(s) = Len(v) - 1
      /\ \A i \in 1..(Len(v) - 1) : s[i] = IF i > index THEN v[i + 1] ELSE v[i]
  BY <1>1, RemovedSeq
<1> HIDE DEF s
<1>4. ASSUME NEW i \in 1..(d.length - 1) PROVE Elem(f, i - 1) = s[i]
  <2>1. /\ i - 1 \in 0..(d.length - 2) /\ (i - 1 >= index <=> i > index)
        /\ i \in 1..d.length /\ i + 1 \in 1..d.length /\ (i - 1) + 1 = i /\ (i + 1) - 1 = i
    BY <1>1
  <2> QED BY <1>1, <1>2, <1>3, <2>1
<1>5. Darray_values(f) = s
  BY <1>1, <1>2, <1>3, <1>4, SameSeq
<1> QED BY <1>5 DEF f, s, v

(* Darray_set changes the element at the index and no other.               *)
LEMMA SetSeq ==
  ASSUME NEW d, IsArray(d), NEW index \in 0..(d.length - 1), NEW x \in Value
  PROVE  Darray_values(Darray_set(d, index, x)) = [Darray_values(d) EXCEPT ![index + 1] = x]
<1> DEFINE f == Darray_set(d, index, x)
           v == Darray_values(d)
           s == [v EXCEPT ![index + 1] = x]
<1>1. d.length \in Nat /\ v \in Seq(Value) /\ Len(v) = d.length
      /\ \A i \in 1..d.length : v[i] = Elem(d, i - 1)
  BY ValuesSeq DEF IsArray, IsBlock, Sized
<1>2. /\ IsArray(f) /\ f.length = d.length
      /\ \A i \in 0..(d.length - 1) : Elem(f, i) = IF i = index THEN x ELSE Elem(d, i)
  BY SetElem, SetArray DEF IsArray, Slots
<1> HIDE DEF f, v
<1>3. index + 1 \in 1..Len(v)
  BY <1>1
<1>4. /\ s \in Seq(Value) /\ Len(s) = Len(v)
      /\ \A i \in 1..Len(v) : s[i] = IF i = index + 1 THEN x ELSE v[i]
  BY <1>1, <1>3, ExceptSeq
<1> HIDE DEF s
<1>5. \A i \in 1..d.length : i - 1 \in 0..(d.length - 1) /\ (i - 1 = index <=> i = index + 1)
  BY <1>1
<1>6. Darray_values(f) = s
  BY <1>1, <1>2, <1>4, <1>5, SameSeq
<1> QED BY <1>6 DEF f, s, v

(* Arrays with the same elements have the same values.                     *)
LEMMA SameValues ==
  ASSUME NEW d, NEW e, IsArray(d), IsArray(e), SameElements(d, e)
  PROVE  Darray_values(e) = Darray_values(d)
<1> DEFINE v == Darray_values(d)
<1>1. v \in Seq(Value) /\ Len(v) = d.length /\ \A i \in 1..d.length : v[i] = Elem(d, i - 1)
  BY ValuesSeq
<1>2. \A i \in 1..d.length : i - 1 \in 0..(d.length - 1)
  BY DEF IsArray, IsBlock, Sized
<1> HIDE DEF v
<1>3. Darray_values(e) = v
  BY <1>1, <1>2, SameSeq DEF SameElements
<1> QED BY <1>3 DEF v

(* An array of no elements has no values.                                  *)
LEMMA NoValues ==
  ASSUME NEW d, IsArray(d), d.length = 0
  PROVE  Darray_values(d) = <<>>
BY ValuesSeq, EmptySeq

-----------------------------------------------------------------------------
(* The copy, by induction on the number of elements copied.                *)

(* The arrays the loop of Darray_copy goes through, up to the n-th.        *)
CopyLoop(g, d, n) ==
  g = [i \in 0..n |-> IF i = 0 THEN Darray_hint(Darray_create, 0, d.length)
                      ELSE Darray_addh(g[i - 1], Darray_get(d, i - 1))]

(* The loop is well defined.                                               *)
LEMMA CopyLoopExists ==
  ASSUME NEW d
  PROVE  \A n \in Nat : \E g : CopyLoop(g, d, n)
<1> DEFINE S == {n \in Nat : \E g : CopyLoop(g, d, n)}
<1>1. 0 \in S
  <2> DEFINE g == [i \in 0..0 |-> Darray_hint(Darray_create, 0, d.length)]
  <2>1. CopyLoop(g, d, 0)
    BY DEF CopyLoop
  <2> QED BY <2>1
<1>2. ASSUME NEW n \in S PROVE n + 1 \in S
  <2>1. PICK g : CopyLoop(g, d, n)
    OBVIOUS
  <2> DEFINE Next1(h, i) == IF i = 0 THEN Darray_hint(Darray_create, 0, d.length)
                            ELSE Darray_addh(h[i - 1], Darray_get(d, i - 1))
             h == [i \in 0..(n + 1) |-> IF i <= n THEN g[i] ELSE Darray_addh(g[n], Darray_get(d, n))]
  <2>2. n \in Nat /\ 0..n \subseteq 0..(n + 1)
    OBVIOUS
  <2>3. \A i \in 0..n : h[i] = g[i]
    BY <2>2
  <2>4. ASSUME NEW i \in 0..(n + 1) PROVE h[i] = Next1(h, i)
    <3>1. CASE i = n + 1
      <4>1. h[i] = Darray_addh(g[n], Darray_get(d, n)) /\ i # 0 /\ i - 1 = n /\ n \in 0..n
        BY <2>2, <3>1
      <4>2. h[n] = g[n]
        BY <2>3, <4>1
      <4> HIDE DEF h
      <4> QED BY <4>1, <4>2
    <3>2. CASE i \in 0..n
      <4>1. h[i] = g[i] /\ (i # 0 => i - 1 \in 0..n)
        BY <2>2, <2>3, <3>2
      <4>2. i # 0 => h[i - 1] = g[i - 1]
        BY <2>3, <4>1
      <4>3. g[i] = Next1(g, i)
        BY <2>1, <3>2 DEF CopyLoop
      <4> HIDE DEF h
      <4> QED BY <4>1, <4>2, <4>3
    <3> QED BY <2>2, <3>1, <3>2
  <2>5. h = [i \in 0..(n + 1) |-> h[i]]
    OBVIOUS
  <2> HIDE DEF h
  <2>6. CopyLoop(h, d, n + 1)
    BY <2>4, <2>5 DEF CopyLoop
  <2> QED BY <2>2, <2>6
<1> HIDE DEF S
<1>3. \A n \in Nat : n \in S
  <2>1. S \in SUBSET Nat
    BY DEF S
  <2> QED BY <1>1, <1>2, <2>1, FromZero
<1> QED BY <1>3 DEF S

(* The copy has the elements of the original.                              *)
LEMMA CopyArray ==
  ASSUME NEW d, IsArray(d)
  PROVE  IsArray(Darray_copy(d)) /\ SameElements(d, Darray_copy(d))
<1>1. d.length \in Nat
  BY DEF IsArray, IsBlock, Sized
<1> DEFINE g == CHOOSE g : CopyLoop(g, d, d.length)
<1>2. CopyLoop(g, d, d.length)
  BY <1>1, CopyLoopExists
<1>3. Darray_copy(d) = g[d.length]
  BY DEF Darray_copy, CopyLoop
<1> HIDE DEF g
<1> DEFINE Copied(n) == /\ IsArray(g[n]) /\ g[n].length = n
                        /\ \A i \in 0..(n - 1) : Elem(g[n], i) = Elem(d, i)
           S == {n \in Nat : n <= d.length => Copied(n)}
<1>4. 0 \in S
  <2>1. g[0] = Darray_hint(Darray_create, 0, d.length)
    BY <1>1, <1>2 DEF CopyLoop
  <2>2. IsArray(Darray_create) /\ Darray_create.length = 0
    BY NewArray DEF Darray_create
  <2>3. IsArray(g[0]) /\ SameElements(Darray_create, g[0])
    BY <1>1, <2>1, <2>2, Hinted, HintedArray DEF IsArray
  <2> QED BY <2>2, <2>3 DEF SameElements
<1>5. ASSUME NEW n \in S PROVE n + 1 \in S
  <2> SUFFICES ASSUME n + 1 <= d.length PROVE Copied(n + 1)
    OBVIOUS
  <2>1. n \in Nat /\ n \in 0..(d.length - 1) /\ n + 1 \in 0..d.length /\ n + 1 # 0 /\ (n + 1) - 1 = n
    BY <1>1
  <2>2. IsArray(g[n]) /\ g[n].length = n /\ \A i \in 0..(n - 1) : Elem(g[n], i) = Elem(d, i)
    BY <1>1, <2>1
  <2>3. g[n + 1] = Darray_addh(g[n], Darray_get(d, n))
    BY <1>2, <2>1 DEF CopyLoop
  <2>4. Darray_get(d, n) = Elem(d, n) /\ Elem(d, n) \in Value
    BY <2>1, ValuesSeq DEF IsArray, Filled
  <2> DEFINE e == g[n]
             x == Elem(d, n)
             f == Darray_addh(e, x)
  <2> HIDE DEF e, x
  <2>5. IsArray(e) /\ e.length = n /\ x \in Value
    BY <2>2, <2>4 DEF e, x
  <2>6. /\ IsArray(f) /\ f.length = n + 1
        /\ \A i \in 0..(n - 1) : Elem(f, i) = Elem(e, i)
        /\ Elem(f, n) = x
    BY <2>5, AddedHigh, HighArray DEF IsArray, Slots
  <2>7. g[n + 1] = f
    BY <2>3, <2>4 DEF e, x
  <2> HIDE DEF f
  <2>8. ASSUME NEW i \in 0..n PROVE Elem(f, i) = Elem(d, i)
    <3>1. CASE i = n
      BY <2>6, <3>1 DEF x
    <3>2. CASE i # n
      <4>1. i \in 0..(n - 1)
        BY <2>1, <3>2
      <4> QED BY <2>2, <2>6, <4>1 DEF e
    <3> QED BY <3>1, <3>2
  <2> QED BY <2>1, <2>6, <2>7, <2>8
<1> HIDE DEF S
<1>6. \A n \in Nat : n \in S
  <2>1. S \in SUBSET Nat
    BY DEF S
  <2> QED BY <1>4, <1>5, <2>1, FromZero
<1>7. Copied(d.length)
  BY <1>1, <1>6 DEF S
<1> QED BY <1>3, <1>7 DEF SameElements

-----------------------------------------------------------------------------
(* The refinement.                                                         *)

(* Each operation does to the values what the one of its name does in      *)
(* Deque, with the same arguments.                                         *)
LEMMA NextDeque ==
  ASSUME IsArray(dar), [ArrayNext]_arrayVars
  PROVE  [Abstract!Next]_<<Darray_values(dar), call, result>>
<1> DEFINE v == Darray_values(dar)
           n == dar.length
<1> USE DEF Called, Abstract!Calls, Abstract!Becomes, Abstract!Return, Abstract!Upper
<1>1. /\ v \in Seq(Value) /\ Len(v) = n /\ n \in Nat
      /\ \A i \in 0..(n - 1) : Darray_get(dar, i) = Elem(dar, i)
      /\ \A i \in 1..n : v[i] = Elem(dar, i - 1)
  BY ValuesSeq DEF IsArray, IsBlock, Sized
<1>2. \A i \in 0..(n - 1) : Darray_get(dar, i) = v[i + 1]
  <2>1. \A i \in 0..(n - 1) : i + 1 \in 1..n /\ (i + 1) - 1 = i
    BY <1>1
  <2> QED BY <1>1, <2>1
<1>3. ASSUME NEW d, Becomes(d)
      PROVE  Darray_values(dar)' = Darray_values(d) /\ result' = NULL
  BY <1>3 DEF Becomes, Darray_values, Darray_get, Slot
<1>4. ASSUME NEW index \in -1..(n + 1), NEW x \in Value, Insert(index, x)
      PROVE  Abstract!Insert(index, x)
  <2>1. index \in Int
    BY <1>1
  <2>2. Darray_values(dar)' = Inserted(v, Place(dar, index), x) /\ result' = NULL
    BY <1>3, <1>4, <2>1, InsertSeq DEF Insert
  <2> QED BY <1>1, <1>4, <2>2 DEF Insert, Abstract!Insert, Inserted, Place
<1>5. ASSUME NEW i \in 0..(n - 1)
      PROVE  Darray_values(Darray_remove(dar, i)) = SubSeq(v, 1, i) \o SubSeq(v, i + 2, Len(v))
  BY RemoveSeq DEF Removed
<1>6. CASE RemHigh
  <2>1. /\ n > 0 /\ n - 1 \in 0..(n - 1) /\ (n - 1) + 1 = n /\ (n - 1) + 2 = n + 1 /\ v # <<>>
    BY <1>1, <1>6 DEF RemHigh
  <2>2. Darray_remove(dar, n - 1) = DropHigh(dar)
    BY DEF Darray_remove
  <2>3. SubSeq(v, n + 1, Len(v)) = <<>>
    BY <1>1, SubSeqEmpty
  <2>4. SubSeq(v, 1, n - 1) \in Seq(Value)
    <3>1. \A i \in 1..(n - 1) : v[i] \in Value
      BY <1>1
    <3> QED BY <1>1, <3>1, SubSeqProperties
  <2>5. Darray_values(DropHigh(dar)) = SubSeq(v, 1, Len(v) - 1)
    BY <1>1, <1>5, <2>1, <2>2, <2>3, <2>4, ConcatEmptySeq
  <2>6. Darray_values(dar)' = Darray_values(DropHigh(dar)) /\ result' = v[Len(v)]
    BY <1>1, <1>2, <1>6, <2>1 DEF RemHigh, Darray_values, Darray_get, Slot
  <2>7. Abstract!RemoveHigh
    BY <1>6, <2>1, <2>5, <2>6 DEF RemHigh, Abstract!RemoveHigh
  <2> QED BY <2>7 DEF Abstract!Next
<1>7. CASE RemLow
  <2>1. n > 0 /\ 0 \in 0..(n - 1) /\ v # <<>>
    BY <1>1, <1>7 DEF RemLow
  <2>2. Darray_values(DropLow(dar)) = Tail(v)
    <3> DEFINE l == DropLow(dar)
    <3>1. /\ IsArray(l) /\ l.length = n - 1 /\ \A i \in 0..(n - 2) : Elem(l, i) = Elem(dar, i + 1)
      BY <2>1, Dropped, DroppedArray DEF IsArray
    <3> HIDE DEF l
    <3>2. Tail(v) \in Seq(Value) /\ Len(Tail(v)) = n - 1 /\ \A i \in 1..(n - 1) : Tail(v)[i] = v[i + 1]
      BY <1>1, <2>1, HeadTailProperties
    <3>3. ASSUME NEW i \in 1..(n - 1) PROVE Elem(l, i - 1) = Tail(v)[i]
      <4>1. /\ i - 1 \in 0..(n - 2) /\ (i - 1) + 1 = i /\ i + 1 \in 1..n /\ (i + 1) - 1 = i
        BY <1>1
      <4>2. Elem(l, i - 1) = Elem(dar, (i - 1) + 1)
        BY <3>1, <4>1
      <4>3. v[i + 1] = Elem(dar, (i + 1) - 1)
        BY <1>1, <4>1
      <4>4. Tail(v)[i] = v[i + 1]
        BY <3>2
      <4> HIDE DEF v, n
      <4> QED BY <4>1, <4>2, <4>3, <4>4
    <3>4. Darray_values(l) = Tail(v)
      BY <3>1, <3>2, <3>3, SameSeq
    <3> QED BY <3>4 DEF l
  <2>3. Darray_values(dar)' = Tail(v) /\ result' = Head(v)
    <3>1. dar' = DropLow(dar) /\ result' = Darray_get(dar, 0)
      BY <1>7 DEF RemLow
    <3>2. Darray_values(dar)' = Darray_values(DropLow(dar))
      BY <3>1 DEF Darray_values, Darray_get, Slot
    <3>3. 0 + 1 = 1
      OBVIOUS
    <3>4. Darray_get(dar, 0) = v[1]
      BY <1>1, <1>2, <2>1, <3>3
    <3>5. Head(v) = v[1]
      BY <1>1, <2>1, HeadTailProperties
    <3> QED BY <2>2, <3>1, <3>2, <3>4, <3>5
  <2>4. Abstract!RemoveLow
    BY <1>7, <2>1, <2>3 DEF RemLow, Abstract!RemoveLow
  <2> QED BY <2>4 DEF Abstract!Next
<1>8. CASE Clear \/ Recreate
  <2>1. /\ Darray_values(Darray_clear(dar)) = <<>> /\ Darray_values(Darray_create) = <<>>
    <3>1. Darray_clear(dar).length = 0 /\ Darray_create.length = 0
      BY DEF Darray_clear, Darray_create, IsArray, IsBlock
    <3> QED BY <3>1, NoValues, ClearedArray, NewArray
  <2>2. Abstract!Becomes(<<>>)
    BY <1>3, <1>8, <2>1 DEF Clear, Recreate
  <2> QED BY <1>8, <2>2 DEF Clear, Recreate, Abstract!Clear, Abstract!Recreate, Abstract!Next
<1>9. CASE Values \/ Copy
  <2>1. Darray_values(Darray_copy(dar)) = v
    BY CopyArray, SameValues
  <2>2. Abstract!Return(v)
    BY <1>9, <2>1 DEF Values, Copy, Return, Darray_values, Darray_get, Slot
  <2> QED BY <1>9, <2>2 DEF Values, Copy, Abstract!Values, Abstract!Copy, Abstract!Next
<1>10. ASSUME NEW x \in Value, AddHigh(x)
       PROVE  Abstract!AddHigh(x)
  <2> DEFINE f == Darray_addh(dar, x)
             w == Append(v, x)
  <2>1. /\ IsArray(f) /\ f.length = n + 1
        /\ \A i \in 0..(n - 1) : Elem(f, i) = Elem(dar, i)
        /\ Elem(f, n) = x
    BY AddedHigh, HighArray DEF IsArray, Slots
  <2> HIDE DEF f
  <2>2. w \in Seq(Value) /\ Len(w) = n + 1 /\ \A i \in 1..(n + 1) : w[i] = IF i = n + 1 THEN x ELSE v[i]
    BY <1>1, AppendProperties
  <2> HIDE DEF w
  <2>3. ASSUME NEW i \in 1..(n + 1) PROVE Elem(f, i - 1) = w[i]
    <3>1. CASE i = n + 1
      BY <1>1, <2>1, <2>2, <3>1
    <3>2. CASE i # n + 1
      <4>1. i \in 1..n /\ i - 1 \in 0..(n - 1)
        BY <1>1, <3>2
      <4> QED BY <1>1, <2>1, <2>2, <3>2, <4>1
    <3> QED BY <3>1, <3>2
  <2>4. Darray_values(f) = w
    BY <2>1, <2>2, <2>3, SameSeq
  <2> QED BY <1>3, <1>10, <2>4 DEF AddHigh, Abstract!AddHigh, f, w
<1>11. ASSUME NEW x \in Value, AddLow(x)
       PROVE  Abstract!AddLow(x)
  <2>1. Darray_addl(dar, x) = Darray_insert(dar, 0, x) /\ Place(dar, 0) = 0
    BY DEF Darray_insert, Place
  <2>2. Darray_values(Darray_addl(dar, x)) = Inserted(v, 0, x)
    BY <2>1, InsertSeq
  <2>3. Inserted(v, 0, x) = <<x>> \o v
    <3>1. SubSeq(v, 1, 0) = <<>> /\ SubSeq(v, 0 + 1, Len(v)) = v
      BY <1>1, SubSeqEmpty, SubSeqFull
    <3>2. <<>> \o <<x>> = <<x>>
      OBVIOUS
    <3> QED BY <3>1, <3>2 DEF Inserted
  <2>4. Darray_values(dar)' = <<x>> \o v /\ result' = NULL
    BY <1>3, <1>11, <2>2, <2>3 DEF AddLow
  <2> QED BY <1>11, <2>4 DEF AddLow, Abstract!AddLow
<1>12. ASSUME NEW x \in Value, AddHigh(x) \/ AddLow(x) PROVE Abstract!Next
  BY <1>10, <1>11, <1>12 DEF Abstract!Next
<1>13. ASSUME NEW l \in 0..MaxLength, NEW h \in 0..MaxLength, Hint(l, h)
       PROVE  Abstract!Next
  <2>1. l \in Nat /\ h \in Nat
    BY BoundAssumption
  <2>2. Darray_values(Darray_hint(dar, l, h)) = v
    BY <2>1, Hinted, HintedArray, SameValues DEF IsArray
  <2>3. Abstract!Becomes(v)
    BY <1>3, <1>13, <2>2 DEF Hint
  <2>4. Abstract!Hint(l, h)
    BY <1>13, <2>3 DEF Hint, Abstract!Hint
  <2> QED BY <2>4 DEF Abstract!Next
<1>14. ASSUME NEW i \in Indices, Get(i)
       PROVE  Abstract!Next
  <2>1. i \in 0..(Len(v) - 1) /\ Abstract!Return(v[i + 1])
    BY <1>1, <1>2, <1>14 DEF Get, Return, Indices, Darray_values, Darray_get, Slot
  <2>2. i \in Abstract!Indices /\ Abstract!Get(i)
    BY <1>14, <2>1 DEF Get, Abstract!Get, Abstract!Indices
  <2> QED BY <2>2 DEF Abstract!Next
<1>15. ASSUME NEW i \in Indices, RemoveIndex(i)
       PROVE  Abstract!Next
  <2>1. i \in 0..(Len(v) - 1) /\ (i + 1) + 1 = i + 2
    BY <1>1 DEF Indices
  <2>2. Abstract!Becomes(SubSeq(v, 1, i) \o Abstract!Upper(i + 1))
    BY <1>1, <1>3, <1>5, <1>15, <2>1 DEF RemoveIndex
  <2>3. i \in Abstract!Indices /\ Abstract!RemoveIndex(i)
    BY <1>15, <2>1, <2>2 DEF RemoveIndex, Abstract!RemoveIndex, Abstract!Indices
  <2> QED BY <2>3 DEF Abstract!Next
<1>16. ASSUME NEW i \in Indices, NEW x \in Value, Set(i, x)
       PROVE  Abstract!Next
  <2>1. i \in 0..(Len(v) - 1)
    BY <1>1 DEF Indices
  <2>2. Abstract!Becomes([v EXCEPT ![i + 1] = x])
    BY <1>1, <1>3, <1>16, <2>1, SetSeq DEF Set
  <2>3. i \in Abstract!Indices /\ Abstract!Set(i, x)
    BY <1>16, <2>1, <2>2 DEF Set, Abstract!Set, Abstract!Indices
  <2> QED BY <2>3 DEF Abstract!Next
<1>17. ASSUME NEW i \in -1..(dar.length + 1), NEW x \in Value, Insert(i, x)
       PROVE  Abstract!Next
  BY <1>1, <1>4, <1>17 DEF Abstract!Next
<1>18. CASE UNCHANGED arrayVars
  BY <1>18 DEF arrayVars, Darray_values, Darray_get, Slot
<1> QED BY <1>6, <1>7, <1>8, <1>9, <1>13, <1>14, <1>15, <1>16, <1>17, <1>18, <1>12 DEF ArrayNext

(* However the storage grows and its elements move, a caller of darray.c   *)
(* sees the sequence darray.h describes: every call, of Darray_copy with   *)
(* its loop, too, has the effect and the result Deque gives for its name   *)
(* and its arguments, for arrays of any length and any step of growth.     *)
THEOREM DequeRefined == ArraySpec => ImplementsDeque
<1>1. ArrayInit => Abstract!Init
  <2>1. Darray_create.length = 0
    BY DEF Darray_create
  <2> QED BY <2>1, NoValues, NewArray DEF ArrayInit, Abstract!Init
<1>2. ArrayInit => IsArray(dar)
  BY NewArray DEF ArrayInit
<1>3. IsArray(dar) /\ [ArrayNext]_arrayVars => IsArray(dar)' /\ [Abstract!Next]_<<Darray_values(dar), call, result>>
  BY NextArray, NextDeque
<1> QED BY <1>1, <1>2, <1>3, PTL DEF ArraySpec, ImplementsDeque, Abstract!Spec

-----------------------------------------------------------------------------
(* Sequences without repetition                                            *)

Distinct(s) == \A p, q \in 1..Len(s) : s[p] = s[q] => p = q

(* The elements of a sequence.                                             *)
LEMMA SetOf ==
  ASSUME NEW S, NEW s \in Seq(S)
  PROVE  /\ ToSet(s) \subseteq S
         /\ \A x : x \in ToSet(s) <=> \E p \in 1..Len(s) : x = s[p]
BY DEF ToSet

(* Sequences that have nothing in common, one after the other.             *)
LEMMA ConcatDistinct ==
  ASSUME NEW S, NEW s \in Seq(S), NEW t \in Seq(S), Distinct(s), Distinct(t),
         ToSet(s) \cap ToSet(t) = {}
  PROVE  /\ s \o t \in Seq(S) /\ Distinct(s \o t)
         /\ ToSet(s \o t) = ToSet(s) \union ToSet(t)
<1> DEFINE c == s \o t
<1>1. /\ c \in Seq(S) /\ Len(c) = Len(s) + Len(t) /\ Len(s) \in Nat /\ Len(t) \in Nat
      /\ \A i \in 1..(Len(s) + Len(t)) : c[i] = IF i <= Len(s) THEN s[i] ELSE t[i - Len(s)]
  BY ConcatProperties, LenProperties
<1> HIDE DEF c
<1>2. ASSUME NEW p \in 1..Len(c)
      PROVE  \/ p \in 1..Len(s) /\ c[p] = s[p]
             \/ p - Len(s) \in 1..Len(t) /\ c[p] = t[p - Len(s)]
  BY <1>1
<1>3. ASSUME NEW p \in 1..Len(s), NEW q \in 1..Len(t)
      PROVE  s[p] # t[q]
  BY SetOf
<1>4. Distinct(c)
  <2> SUFFICES ASSUME NEW p \in 1..Len(c), NEW q \in 1..Len(c), c[p] = c[q]
               PROVE  p = q
    BY DEF Distinct
  <2>1. CASE p \in 1..Len(s) /\ q \in 1..Len(s)
    BY <1>1, <2>1 DEF Distinct
  <2>2. CASE p - Len(s) \in 1..Len(t) /\ q - Len(s) \in 1..Len(t)
    <3>1. c[p] = t[p - Len(s)] /\ c[q] = t[q - Len(s)]
      BY <1>1, <2>2
    <3>2. p - Len(s) = q - Len(s)
      BY <2>2, <3>1 DEF Distinct
    <3> QED BY <1>1, <3>2
  <2>3. CASE p \in 1..Len(s) /\ q \notin 1..Len(s)
    <3>1. c[p] = s[p]
      BY <1>1, <2>3
    <3>2. q - Len(s) \in 1..Len(t) /\ c[q] = t[q - Len(s)]
      BY <1>2, <2>3
    <3> QED BY <1>3, <2>3, <3>1, <3>2
  <2>4. CASE q \in 1..Len(s) /\ p \notin 1..Len(s)
    <3>1. c[q] = s[q]
      BY <1>1, <2>4
    <3>2. p - Len(s) \in 1..Len(t) /\ c[p] = t[p - Len(s)]
      BY <1>2, <2>4
    <3> QED BY <1>3, <2>4, <3>1, <3>2
  <2> QED BY <1>2, <2>1, <2>2, <2>3, <2>4
<1>5. ASSUME NEW x PROVE x \in ToSet(c) <=> x \in ToSet(s) \/ x \in ToSet(t)
  <2>1. x \in ToSet(c) <=> \E p \in 1..Len(c) : x = c[p]
    BY <1>1, SetOf
  <2>2. x \in ToSet(s) <=> \E p \in 1..Len(s) : x = s[p]
    BY SetOf
  <2>3. x \in ToSet(t) <=> \E p \in 1..Len(t) : x = t[p]
    BY SetOf
  <2>4. ASSUME NEW p \in 1..Len(c), x = c[p] PROVE x \in ToSet(s) \/ x \in ToSet(t)
    BY <1>2, <2>2, <2>3, <2>4
  <2>5. ASSUME NEW p \in 1..Len(s), x = s[p] PROVE x \in ToSet(c)
    <3>1. p \in 1..Len(c) /\ c[p] = s[p]
      BY <1>1
    <3> QED BY <2>1, <2>5, <3>1
  <2>6. ASSUME NEW p \in 1..Len(t), x = t[p] PROVE x \in ToSet(c)
    <3>1. p + Len(s) \in 1..Len(c) /\ ~(p + Len(s) <= Len(s)) /\ (p + Len(s)) - Len(s) = p
      BY <1>1
    <3>2. c[p + Len(s)] = t[p]
      BY <1>1, <3>1
    <3> QED BY <2>1, <2>6, <3>1, <3>2
  <2> QED BY <2>1, <2>2, <2>3, <2>4, <2>5, <2>6
<1>6. ToSet(c) = ToSet(s) \union ToSet(t)
  BY <1>5
<1> QED BY <1>1, <1>4, <1>6 DEF c

(* A sequence without repetition lists a set of as many elements.          *)
LEMMA ListsSet ==
  ASSUME NEW S, NEW s \in Seq(S), Distinct(s)
  PROVE  IsFiniteSet(ToSet(s)) /\ Cardinality(ToSet(s)) = Len(s)
<1> DEFINE T == ToSet(s)
           D == 1..Len(s)
<1>1. Len(s) \in Nat /\ IsFiniteSet(D) /\ Cardinality(D) = Len(s)
  <2>1. 1 \in Int /\ Len(s) \in Int /\ Len(s) \in Nat
    BY LenProperties
  <2>2. IsFiniteSet(D) /\ Cardinality(D) = IF 1 > Len(s) THEN 0 ELSE Len(s) - 1 + 1
    BY <2>1, FS_Interval
  <2>3. (IF 1 > Len(s) THEN 0 ELSE Len(s) - 1 + 1) = Len(s)
    BY <2>1
  <2> QED BY <2>1, <2>2, <2>3
<1>2. s \in [D -> T] /\ \A x \in T : \E p \in D : s[p] = x
  <2>1. s \in [D -> S] /\ DOMAIN s = D
    BY LenProperties
  <2> QED BY <2>1 DEF ToSet
<1>3. \A p, q \in D : s[p] = s[q] => p = q
  BY DEF Distinct
<1> HIDE DEF T, D
<1>4. s \in Bijection(D, T)
  <2>1. DOMAIN s = D
    BY <1>2
  <2> QED BY <1>2, <1>3, <2>1 DEF Bijection, Injection, Surjection, IsInjective
<1>5. ExistsBijection(D, T)
  BY <1>4 DEF ExistsBijection
<1> QED BY <1>1, <1>5, FS_Bijection DEF T

-----------------------------------------------------------------------------
(* The chains one after the other.                                         *)

(* The sequences FlattenSeq goes through.                                  *)
Flattening(g, c, n) == g = [i \in 1..n |-> IF i = 1 THEN c[i] ELSE g[i - 1] \o c[i]]

(* They exist.                                                             *)
LEMMA FlatteningExists ==
  ASSUME NEW c
  PROVE  \A n \in Nat : \E g : Flattening(g, c, n)
<1> DEFINE S == {n \in Nat : \E g : Flattening(g, c, n)}
<1>1. 0 \in S
  <2> DEFINE g == [i \in 1..0 |-> c[i]]
  <2>1. Flattening(g, c, 0)
    BY DEF Flattening
  <2> QED BY <2>1
<1>2. ASSUME NEW n \in S PROVE n + 1 \in S
  <2>1. PICK g : Flattening(g, c, n)
    OBVIOUS
  <2> DEFINE Piece(f, i) == IF i = 1 THEN c[i] ELSE f[i - 1] \o c[i]
             h == [i \in 1..(n + 1) |-> IF i <= n THEN g[i] ELSE Piece(g, i)]
  <2>2. n \in Nat
    OBVIOUS
  <2>3. \A i \in 1..n : h[i] = g[i] /\ g[i] = Piece(g, i)
    <3>1. ASSUME NEW i \in 1..n PROVE h[i] = g[i]
      BY <2>2
    <3>2. ASSUME NEW i \in 1..n PROVE g[i] = Piece(g, i)
      <4> HIDE DEF h
      <4> QED BY <2>1 DEF Flattening
    <3> HIDE DEF h, Piece
    <3> QED BY <3>1, <3>2
  <2>4. h[n + 1] = Piece(g, n + 1)
    BY <2>2
  <2>5. h = [i \in 1..(n + 1) |-> h[i]]
    OBVIOUS
  <2> HIDE DEF h
  <2>6. ASSUME NEW i \in 1..(n + 1) PROVE h[i] = Piece(h, i)
    <3>1. i = 1 \/ i - 1 \in 1..n
      BY <2>2
    <3>2. i = n + 1 \/ i \in 1..n
      BY <2>2
    <3>3. Piece(h, i) = Piece(g, i)
      BY <2>3, <3>1
    <3> QED BY <2>3, <2>4, <3>2, <3>3
  <2>7. Flattening(h, c, n + 1)
    BY <2>5, <2>6 DEF Flattening
  <2> QED BY <2>2, <2>7
<1> HIDE DEF S
<1>3. \A n \in Nat : n \in S
  <2>1. S \in SUBSET Nat
    BY DEF S
  <2> QED BY <1>1, <1>2, <2>1, FromZero
<1> QED BY <1>3 DEF S

(* Sequences of which no two have an element in common: FlattenSeq lists   *)
(* the elements of all of them, each once.                                 *)
LEMMA Flattened ==
  ASSUME NEW S, NEW n \in Nat, NEW c \in [1..n -> Seq(S)],
         \A i \in 1..n : Distinct(c[i]),
         \A i, j \in 1..n : i # j => ToSet(c[i]) \cap ToSet(c[j]) = {}
  PROVE  /\ FlattenSeq(c) \in Seq(S) /\ Distinct(FlattenSeq(c))
         /\ ToSet(FlattenSeq(c)) = UNION {ToSet(c[i]) : i \in 1..n}
<1>1. Len(c) = n
  OBVIOUS
<1>2. CASE n = 0
  <2>1. FlattenSeq(c) = c /\ c = <<>>
    BY <1>1, <1>2 DEF FlattenSeq
  <2>2. ToSet(c) = {} /\ UNION {ToSet(c[i]) : i \in 1..n} = {}
    BY <1>2, <2>1 DEF ToSet
  <2> QED BY <2>1, <2>2, EmptySeq DEF Distinct
<1>3. CASE n # 0
  <2> DEFINE g == CHOOSE g : Flattening(g, c, n)
  <2>1. Flattening(g, c, n)
    BY FlatteningExists
  <2>2. FlattenSeq(c) = g[n]
    BY <1>1, <1>3 DEF FlattenSeq, Flattening
  <2> HIDE DEF g
  <2> DEFINE All(m) == UNION {ToSet(c[i]) : i \in 1..m}
             Lists(m) == g[m] \in Seq(S) /\ Distinct(g[m]) /\ ToSet(g[m]) = All(m)
             M == {m \in Nat : m + 1 <= n => Lists(m + 1)}
  <2>3. 0 \in M
    <3>1. g[1] = c[1] /\ 1 \in 1..n
      BY <1>3, <2>1 DEF Flattening
    <3>2. All(1) = ToSet(c[1])
      OBVIOUS
    <3> QED BY <3>1, <3>2
  <2>4. ASSUME NEW m \in M PROVE m + 1 \in M
    <3> SUFFICES ASSUME (m + 1) + 1 <= n PROVE Lists((m + 1) + 1)
      OBVIOUS
    <3> DEFINE k == m + 1
    <3>1. m \in Nat /\ k \in 1..n /\ k + 1 \in 1..n /\ k + 1 # 1 /\ (k + 1) - 1 = k
      OBVIOUS
    <3>2. Lists(k)
      BY <3>1
    <3>3. g[k + 1] = g[k] \o c[k + 1]
      BY <2>1, <3>1 DEF Flattening
    <3> HIDE DEF k
    <3>4. All(k + 1) = All(k) \union ToSet(c[k + 1])
      <4>1. 1..(k + 1) = 1..k \union {k + 1}
        BY <3>1
      <4> QED BY <4>1
    <3>5. All(k) \cap ToSet(c[k + 1]) = {}
      <4>1. \A i \in 1..k : i \in 1..n /\ i # k + 1
        BY <3>1
      <4> QED BY <3>1, <4>1
    <3> HIDE DEF All
    <3>6. c[k + 1] \in Seq(S) /\ Distinct(c[k + 1])
      BY <3>1
    <3>7. ToSet(g[k]) \cap ToSet(c[k + 1]) = {}
      BY <3>2, <3>5
    <3>8. /\ g[k] \o c[k + 1] \in Seq(S) /\ Distinct(g[k] \o c[k + 1])
          /\ ToSet(g[k] \o c[k + 1]) = ToSet(g[k]) \union ToSet(c[k + 1])
      BY <3>2, <3>6, <3>7, ConcatDistinct
    <3>9. Lists(k + 1)
      BY <3>2, <3>3, <3>4, <3>8
    <3> QED BY <3>9 DEF k
  <2> HIDE DEF M
  <2>5. \A m \in Nat : m \in M
    <3>1. M \in SUBSET Nat
      BY DEF M
    <3> QED BY <2>3, <2>4, <3>1, FromZero
  <2>6. n - 1 \in Nat /\ (n - 1) + 1 = n
    BY <1>3
  <2>7. Lists(n)
    <3>1. n - 1 \in M
      BY <2>5, <2>6
    <3>2. (n - 1) + 1 <= n => Lists((n - 1) + 1)
      BY <3>1 DEF M
    <3> HIDE DEF Lists
    <3> QED BY <2>6, <3>2
  <2> QED BY <2>2, <2>7
<1> QED BY <1>2, <1>3

-----------------------------------------------------------------------------
(* The registry                                                            *)

Rec == [name : Value, obj : Object]

(* A table of chains, without one before it is created.                    *)
IsTable(n) == hash_table \in [0..(n - 1) -> Seq(Rec)]

RegistryTypeOK == record_count \in Nat /\ \E n \in Nat : IsTable(n)

(* What all chains hold.                                                   *)
Records == UNION {ToSet(hash_table[i]) : i \in Chains}

(* Each record is in the chain its key hashes to, and in no chain are two  *)
(* records of equal keys.                                                  *)
Hashed == \A i \in Chains : \A p \in 1..Len(hash_table[i]) : hash_fun(hash_table[i][p].name) = i

OneForEach(chain) ==
  \A p, q \in 1..Len(chain) : comp_fun(chain[p].name, chain[q].name) => p = q

Single  == \A i \in Chains : OneForEach(hash_table[i])
Counted == IsFiniteSet(Records) /\ record_count = Cardinality(Records)

RegistryInv == RegistryTypeOK /\ Hashed /\ Single /\ Counted

(* The chains of a table.                                                  *)
LEMMA TableShape ==
  ASSUME NEW n \in Nat, IsTable(n)
  PROVE  /\ Chains = 0..(n - 1) /\ Cardinality(Chains) = n
         /\ Created <=> n # 0
         /\ \A i \in Chains : hash_table[i] \in Seq(Rec)
<1>1. Chains = 0..(n - 1) /\ \A i \in Chains : hash_table[i] \in Seq(Rec)
  BY DEF IsTable, Chains
<1>2. Cardinality(0..(n - 1)) = n
  <2>1. 0 \in Int /\ n - 1 \in Int
    OBVIOUS
  <2>2. Cardinality(0..(n - 1)) = IF 0 > n - 1 THEN 0 ELSE (n - 1) - 0 + 1
    BY <2>1, FS_Interval
  <2> QED BY <2>2
<1>3. Created <=> n # 0
  <2>1. n = 0 => hash_table = <<>>
    BY <1>1 DEF IsTable
  <2>2. n # 0 => 0 \in Chains
    BY <1>1
  <2>3. hash_table = <<>> => Chains = {}
    BY DEF Chains
  <2> QED BY <2>1, <2>2, <2>3 DEF Created
<1> QED BY <1>1, <1>2, <1>3

(* A record and its chain.                                                 *)
LEMMA InChain ==
  ASSUME RegistryTypeOK, Hashed, NEW r
  PROVE  r \in Records <=> /\ r \in Rec /\ hash_fun(r.name) \in Chains
                           /\ \E p \in 1..Len(Chain(r.name)) : r = Chain(r.name)[p]
<1>1. PICK n \in Nat : IsTable(n)
  BY DEF RegistryTypeOK
<1>2. \A i \in Chains : hash_table[i] \in Seq(Rec)
  BY <1>1, TableShape
<1>3. \A i \in Chains : \A x : x \in ToSet(hash_table[i]) <=> \E p \in 1..Len(hash_table[i]) : x = hash_table[i][p]
  BY <1>2, SetOf
<1>4. ASSUME r \in Records
      PROVE  /\ r \in Rec /\ hash_fun(r.name) \in Chains
             /\ \E p \in 1..Len(Chain(r.name)) : r = Chain(r.name)[p]
  <2>1. PICK i \in Chains : r \in ToSet(hash_table[i])
    BY <1>4 DEF Records
  <2>2. PICK p \in 1..Len(hash_table[i]) : r = hash_table[i][p]
    BY <1>3, <2>1
  <2>3. r \in Rec
    BY <1>2, <2>2, ElementOfSeq
  <2>4. hash_fun(r.name) = i
    BY <2>2 DEF Hashed
  <2> QED BY <2>2, <2>3, <2>4 DEF Chain
<1>5. ASSUME hash_fun(r.name) \in Chains, NEW p \in 1..Len(Chain(r.name)), r = Chain(r.name)[p]
      PROVE  r \in Records
  BY <1>3, <1>5 DEF Records, Chain
<1> QED BY <1>4, <1>5

(* There is one record for all keys that compare as equal.                 *)
LEMMA OneRecord ==
  ASSUME RegistryTypeOK, Hashed, Single, NEW r \in Records, NEW s \in Records, comp_fun(r.name, s.name)
  PROVE  r = s
<1>1. hash_fun(r.name) = hash_fun(s.name) /\ hash_fun(r.name) \in Chains
  BY InChain DEF comp_fun, hash_fun
<1> DEFINE chain == hash_table[hash_fun(r.name)]
<1>2. PICK p \in 1..Len(chain) : r = chain[p]
  BY InChain DEF Chain
<1>3. PICK q \in 1..Len(chain) : s = chain[q]
  BY <1>1, InChain DEF Chain
<1>4. OneForEach(chain)
  BY <1>1 DEF Single
<1> QED BY <1>2, <1>3, <1>4 DEF OneForEach

(* Registry_traverse comes to each record once.                            *)
LEMMA TraversalLists ==
  ASSUME RegistryTypeOK, Hashed, Single
  PROVE  /\ Traversal \in Seq(Rec) /\ Distinct(Traversal) /\ ToSet(Traversal) = Records
         /\ IsFiniteSet(Records) /\ Len(Traversal) = Cardinality(Records)
<1>1. PICK n \in Nat : IsTable(n)
  BY DEF RegistryTypeOK
<1>2. /\ Chains = 0..(n - 1) /\ Cardinality(Chains) = n
      /\ \A i \in Chains : hash_table[i] \in Seq(Rec)
  BY <1>1, TableShape
<1> DEFINE c == [i \in 1..n |-> hash_table[i - 1]]
<1>3. \A i \in 1..n : i - 1 \in Chains /\ c[i] = hash_table[i - 1]
  BY <1>2
<1>4. c \in [1..n -> Seq(Rec)]
  BY <1>2, <1>3
<1> HIDE DEF c
<1>5. \A i \in 1..n : Distinct(c[i])
  <2> SUFFICES ASSUME NEW i \in 1..n PROVE Distinct(c[i])
    OBVIOUS
  <2>1. OneForEach(c[i])
    BY <1>3 DEF Single
  <2> QED BY <2>1 DEF OneForEach, comp_fun, Distinct
<1>6. ASSUME NEW i \in 1..n, NEW j \in 1..n, i # j PROVE ToSet(c[i]) \cap ToSet(c[j]) = {}
  <2> SUFFICES ASSUME NEW x \in ToSet(c[i]), x \in ToSet(c[j]) PROVE FALSE
    OBVIOUS
  <2>1. PICK p \in 1..Len(c[i]) : x = c[i][p]
    BY <1>4, SetOf
  <2>2. PICK q \in 1..Len(c[j]) : x = c[j][q]
    BY <1>4, SetOf
  <2>3. hash_fun(x.name) = i - 1 /\ hash_fun(x.name) = j - 1
    <3>1. /\ i - 1 \in Chains /\ c[i] = hash_table[i - 1]
          /\ j - 1 \in Chains /\ c[j] = hash_table[j - 1]
      BY <1>3
    <3>2. hash_fun(c[i][p].name) = i - 1
      BY <3>1 DEF Hashed
    <3>3. hash_fun(c[j][q].name) = j - 1
      BY <3>1 DEF Hashed
    <3> QED BY <2>1, <2>2, <3>2, <3>3
  <2> QED BY <1>6, <2>3
<1>7. /\ FlattenSeq(c) \in Seq(Rec) /\ Distinct(FlattenSeq(c))
      /\ ToSet(FlattenSeq(c)) = UNION {ToSet(c[i]) : i \in 1..n}
  BY <1>4, <1>5, <1>6, Flattened
<1>8. UNION {ToSet(c[i]) : i \in 1..n} = Records
  <2>1. \A i \in Chains : i + 1 \in 1..n /\ (i + 1) - 1 = i
    BY <1>2
  <2> QED BY <1>3, <2>1 DEF Records
<1>9. Traversal = FlattenSeq(c)
  BY <1>2 DEF Traversal, c
<1> QED BY <1>7, <1>8, <1>9, ListsSet

(* Looking a key up finds the record of its class.                         *)
LEMMA Lookup ==
  ASSUME RegistryInv, Created, NEW k \in Value
  PROVE  /\ hash_fun(k) \in Chains /\ Chain(k) \in Seq(Rec)
         /\ Found(k) => /\ Position(k) \in 1..Len(Chain(k))
                        /\ Record(k) \in Records /\ comp_fun(k, Record(k).name)
         /\ ~Found(k) => \A r \in Records : ~comp_fun(k, r.name)
<1> USE DEF RegistryInv
<1>1. PICK n \in Nat : IsTable(n)
  BY DEF RegistryTypeOK
<1>2. /\ Chains = 0..(n - 1) /\ Cardinality(Chains) = n /\ n # 0
      /\ \A i \in Chains : hash_table[i] \in Seq(Rec)
  BY <1>1, TableShape
<1>3. hash_fun(k) \in Chains
  <2>1. HashOf[Class[k]] \in Nat
    BY RegistryAssumption
  <2>2. HashOf[Class[k]] % n \in 0..(n - 1)
    BY <1>2, <2>1
  <2> QED BY <1>2, <2>2 DEF hash_fun
<1>4. Chain(k) \in Seq(Rec)
  BY <1>2, <1>3 DEF Chain
<1> DEFINE I == {i \in 1..Len(Chain(k)) : comp_fun(k, Chain(k)[i].name)}
<1>5. Position(k) = IF I # {} THEN Min(I) ELSE 0
  BY DEF Position, SelectInSeq
<1>6. \A p, q \in I : p = q
  BY <1>3 DEF Single, OneForEach, comp_fun, Chain
<1>7. I # {} => Min(I) \in I
  <2> SUFFICES ASSUME NEW p \in I PROVE Min(I) \in I
    OBVIOUS
  <2>1. \A q \in I : p <= q
    BY <1>6
  <2> HIDE DEF I
  <2> QED BY <2>1 DEF Min
<1>8. Found(k) => Position(k) \in I
  BY <1>5, <1>7 DEF Found
<1>9. ASSUME Found(k)
      PROVE  /\ Position(k) \in 1..Len(Chain(k)) /\ Record(k) \in Records
             /\ comp_fun(k, Record(k).name)
  <2>1. Position(k) \in 1..Len(Chain(k)) /\ comp_fun(k, Record(k).name)
    BY <1>8, <1>9 DEF Record
  <2>2. hash_fun(Record(k).name) = hash_fun(k)
    BY <2>1 DEF hash_fun, comp_fun
  <2>3. Record(k) \in ToSet(hash_table[hash_fun(k)])
    BY <1>4, <2>1, SetOf DEF Record, Chain
  <2> QED BY <1>3, <2>1, <2>3 DEF Records
<1>10. ASSUME ~Found(k), NEW r \in Records, comp_fun(k, r.name) PROVE FALSE
  <2>1. hash_fun(r.name) = hash_fun(k)
    BY <1>10 DEF hash_fun, comp_fun
  <2>2. PICK p \in 1..Len(Chain(k)) : r = Chain(k)[p]
    BY <2>1, InChain DEF Chain
  <2>3. p \in I
    BY <1>10, <2>2
  <2>4. Position(k) \in I
    BY <1>5, <1>7, <2>3
  <2> QED BY <1>10, <2>4 DEF Found
<1> QED BY <1>3, <1>4, <1>9, <1>10

(* One chain is replaced by another of the same place.                     *)
LEMMA ChainChanged ==
  ASSUME RegistryInv, Created, NEW k \in Value, NEW chain \in Seq(Rec), NEW count, NEW r,
         SetChain(k, chain, count, r), OneForEach(chain),
         \A p \in 1..Len(chain) : hash_fun(chain[p].name) = hash_fun(k)
  PROVE  /\ \E n \in Nat : IsTable(n)'
         /\ Hashed' /\ Single'
         /\ \A x : x \in Records' <=> \/ x \in Records /\ hash_fun(x.name) # hash_fun(k)
                                      \/ x \in ToSet(chain)
<1> USE DEF RegistryInv
<1> DEFINE h == hash_fun(k)
<1>1. PICK n \in Nat : IsTable(n)
  BY DEF RegistryTypeOK
<1>2. Chains = 0..(n - 1) /\ \A i \in Chains : hash_table[i] \in Seq(Rec)
  BY <1>1, TableShape
<1>3. h \in Chains
  BY Lookup
<1>4. /\ hash_table' = [hash_table EXCEPT ![h] = chain] /\ Chains' = Chains
      /\ \A i \in Chains : hash_table'[i] = IF i = h THEN chain ELSE hash_table[i]
  BY <1>1, <1>2, <1>3 DEF SetChain, Chains, IsTable
<1>5. \A x : hash_fun(x)' = hash_fun(x)
  BY <1>4 DEF hash_fun
<1>6. IsTable(n)'
  BY <1>1, <1>2, <1>3, <1>4 DEF IsTable
<1> HIDE DEF h
<1>7. Hashed'
  <2> SUFFICES ASSUME NEW i \in Chains, NEW p \in 1..Len(hash_table'[i])
               PROVE  hash_fun(hash_table'[i][p].name) = i
    BY <1>4, <1>5 DEF Hashed
  <2> QED BY <1>4 DEF Hashed, h
<1>8. Single'
  <2> SUFFICES ASSUME NEW i \in Chains PROVE OneForEach(hash_table'[i])
    BY <1>4 DEF Single, OneForEach
  <2> QED BY <1>4 DEF Single
<1>9. ASSUME NEW x
      PROVE  x \in Records' <=> \/ x \in Records /\ hash_fun(x.name) # h
                                \/ x \in ToSet(chain)
  <2>1. x \in Records' <=> \E i \in Chains : x \in ToSet(hash_table'[i])
    BY <1>4 DEF Records
  <2>2. x \in Records <=> \E i \in Chains : x \in ToSet(hash_table[i])
    BY DEF Records
  <2>3. ASSUME NEW i \in Chains, x \in ToSet(hash_table[i]) PROVE hash_fun(x.name) = i
    <3>1. PICK p \in 1..Len(hash_table[i]) : x = hash_table[i][p]
      BY <1>2, <2>3, SetOf
    <3> QED BY <3>1 DEF Hashed
  <2> QED BY <1>3, <1>4, <2>1, <2>2, <2>3
<1> QED BY <1>6, <1>7, <1>8, <1>9 DEF h

(* Its records are those that are hashed there.                            *)
LEMMA ChainRecords ==
  ASSUME RegistryInv, Created, NEW k \in Value, NEW x
  PROVE  x \in ToSet(Chain(k)) <=> x \in Records /\ hash_fun(x.name) = hash_fun(k)
<1>1. hash_fun(k) \in Chains /\ Chain(k) \in Seq(Rec)
  BY Lookup
<1>2. x \in ToSet(Chain(k)) <=> \E p \in 1..Len(Chain(k)) : x = Chain(k)[p]
  BY <1>1, SetOf
<1>3. ASSUME x \in Records, hash_fun(x.name) = hash_fun(k) PROVE x \in ToSet(Chain(k))
  BY <1>2, <1>3, InChain DEF Chain, RegistryInv
<1>4. ASSUME NEW p \in 1..Len(Chain(k)), x = Chain(k)[p]
      PROVE  x \in Records /\ hash_fun(x.name) = hash_fun(k)
  <2>1. hash_fun(x.name) = hash_fun(k)
    BY <1>1, <1>4 DEF RegistryInv, Hashed, Chain
  <2>2. x \in ToSet(hash_table[hash_fun(k)])
    BY <1>2, <1>4 DEF Chain
  <2> QED BY <1>1, <2>1, <2>2 DEF Records
<1> QED BY <1>2, <1>3, <1>4

(* The invariant after a change of one chain, if the count is right.       *)
LEMMA ChainCounted ==
  ASSUME RegistryInv, Created, NEW k \in Value, NEW chain \in Seq(Rec), NEW count, NEW r,
         SetChain(k, chain, count, r), OneForEach(chain),
         \A p \in 1..Len(chain) : hash_fun(chain[p].name) = hash_fun(k),
         IsFiniteSet(Records'), count = Cardinality(Records')
  PROVE  RegistryInv'
<1>1. (\E n \in Nat : IsTable(n)') /\ Hashed' /\ Single'
  BY ChainChanged
<1>2. record_count' = count /\ count \in Nat
  BY FS_CardinalityType DEF SetChain
<1> QED BY <1>1, <1>2 DEF RegistryInv, RegistryTypeOK, Counted

(* A record is put at the head of its chain.                               *)
LEMMA Pushed ==
  ASSUME RegistryInv, Created, NEW k \in Value, NEW x \in Object, NEW r,
         ~Found(k), Push(k, x, r)
  PROVE  RegistryInv' /\ Records' = Records \union {[name |-> k, obj |-> x]}
<1> DEFINE new == [name |-> k, obj |-> x]
           old == Chain(k)
           chain == <<new>> \o old
           h == hash_fun(k)
<1>1. SetChain(k, chain, record_count + 1, r)
  BY DEF Push
<1>2. new \in Rec /\ new.name = k /\ old \in Seq(Rec) /\ hash_fun(k) \in Chains
  BY Lookup DEF Rec
<1>3. \A p \in 1..Len(old) : old[p] \in Records /\ hash_fun(old[p].name) = h
  BY <1>2, ChainRecords, SetOf
<1>4. OneForEach(old)
  BY <1>2 DEF RegistryInv, Single, Chain
<1>5. \A s \in Records : ~comp_fun(k, s.name)
  BY Lookup
<1> HIDE DEF new, old
<1>6. /\ chain \in Seq(Rec) /\ Len(chain) = Len(old) + 1 /\ Len(old) \in Nat
      /\ chain[1] = new /\ \A p \in 1..Len(chain) : p # 1 => p - 1 \in 1..Len(old) /\ chain[p] = old[p - 1]
  <2>1. <<new>> \in Seq(Rec) /\ Len(<<new>>) = 1 /\ <<new>>[1] = new /\ Len(old) \in Nat
    BY <1>2
  <2>2. /\ chain \in Seq(Rec) /\ Len(chain) = Len(<<new>>) + Len(old)
        /\ \A i \in 1..(Len(<<new>>) + Len(old)) :
             chain[i] = IF i <= Len(<<new>>) THEN <<new>>[i] ELSE old[i - Len(<<new>>)]
    BY <1>2, <2>1, ConcatProperties
  <2> HIDE DEF chain
  <2>3. chain[1] = new
    BY <2>1, <2>2
  <2>4. ASSUME NEW p \in 1..Len(chain), p # 1 PROVE p - 1 \in 1..Len(old) /\ chain[p] = old[p - 1]
    BY <2>1, <2>2, <2>4
  <2> QED BY <2>1, <2>2, <2>3, <2>4
<1> HIDE DEF chain
<1>7. \A p \in 1..Len(chain) : hash_fun(chain[p].name) = h
  BY <1>2, <1>3, <1>6
<1>8. OneForEach(chain)
  <2> SUFFICES ASSUME NEW p \in 1..Len(chain), NEW q \in 1..Len(chain),
                      comp_fun(chain[p].name, chain[q].name)
               PROVE  p = q
    BY DEF OneForEach
  <2>1. CASE p = 1 /\ q # 1
    BY <1>2, <1>3, <1>5, <1>6, <2>1
  <2>2. CASE q = 1 /\ p # 1
    <3>1. comp_fun(k, chain[p].name)
      BY <1>2, <1>6, <2>2 DEF comp_fun
    <3> QED BY <1>3, <1>5, <1>6, <2>2, <3>1
  <2>3. CASE p # 1 /\ q # 1
    <3>1. p - 1 = q - 1
      BY <1>4, <1>6, <2>3 DEF OneForEach
    <3> QED BY <1>6, <3>1
  <2> QED BY <2>1, <2>2, <2>3
<1>9. ASSUME NEW s PROVE s \in ToSet(chain) <=> s = new \/ s \in ToSet(old)
  <2>1. s \in ToSet(chain) <=> \E p \in 1..Len(chain) : s = chain[p]
    BY <1>6, SetOf
  <2>2. s \in ToSet(old) <=> \E p \in 1..Len(old) : s = old[p]
    BY <1>2, SetOf
  <2>3. ASSUME NEW p \in 1..Len(old) PROVE p + 1 \in 1..Len(chain) /\ chain[p + 1] = old[p]
    <3>1. p + 1 \in 1..Len(chain) /\ p + 1 # 1 /\ (p + 1) - 1 = p
      BY <1>6
    <3> QED BY <1>6, <3>1
  <2>4. 1 \in 1..Len(chain)
    BY <1>6
  <2> QED BY <1>6, <2>1, <2>2, <2>3, <2>4
<1>10. ASSUME NEW s PROVE s \in Records' <=> s \in Records \/ s = new
  <2>1. s \in Records' <=> (s \in Records /\ hash_fun(s.name) # h) \/ s \in ToSet(chain)
    BY <1>1, <1>6, <1>7, <1>8, ChainChanged
  <2>2. s \in ToSet(old) <=> s \in Records /\ hash_fun(s.name) = h
    BY ChainRecords DEF old
  <2> QED BY <1>9, <2>1, <2>2
<1>11. Records' = Records \union {new}
  BY <1>10
<1>12. new \notin Records
  BY <1>2, <1>5 DEF comp_fun
<1>13. IsFiniteSet(Records') /\ record_count + 1 = Cardinality(Records')
  BY <1>11, <1>12, FS_AddElement DEF RegistryInv, Counted
<1>14. RegistryInv'
  BY <1>1, <1>6, <1>7, <1>8, <1>13, ChainCounted
<1> QED BY <1>11, <1>14 DEF new

(* A record is taken out of its chain.                                     *)
LEMMA Unlinks ==
  ASSUME RegistryInv, Created, NEW k \in Value, NEW r,
         Found(k), SetChain(k, Unlinked(k), record_count - 1, r)
  PROVE  RegistryInv' /\ Records' = Records \ {Record(k)}
<1> DEFINE old == Chain(k)
           n == Position(k)
           chain == Unlinked(k)
           h == hash_fun(k)
<1>1. /\ old \in Seq(Rec) /\ h \in Chains /\ n \in 1..Len(old)
      /\ Record(k) \in Records /\ comp_fun(k, Record(k).name)
  BY Lookup
<1>2. \A p \in 1..Len(old) : old[p] \in Records /\ hash_fun(old[p].name) = h
  BY <1>1, ChainRecords, SetOf
<1>3. OneForEach(old)
  BY <1>1 DEF RegistryInv, Single, Chain
<1>4. Record(k) = old[n]
  BY DEF Record
<1>5. /\ chain \in Seq(Rec) /\ Len(chain) = Len(old) - 1 /\ Len(old) \in Nat
      /\ \A p \in 1..(Len(old) - 1) : chain[p] = IF p >= n THEN old[p + 1] ELSE old[p]
  <2> DEFINE a == SubSeq(old, 1, n - 1)
             b == SubSeq(old, n + 1, Len(old))
  <2> HIDE DEF old, n
  <2>1. Len(old) \in Nat /\ n \in Nat /\ \A i \in 1..Len(old) : old[i] \in Rec
    BY <1>1, ElementOfSeq
  <2>2. a \in Seq(Rec) /\ Len(a) = n - 1 /\ \A i \in 1..(n - 1) : a[i] = old[i]
    <3>1. /\ a \in Seq(Rec) /\ Len(a) = (IF 1 <= n - 1 THEN (n - 1) - 1 + 1 ELSE 0)
          /\ \A i \in 1..((n - 1) - 1 + 1) : a[i] = old[1 + i - 1]
      BY <1>1, <2>1, SubSeqProperties
    <3> HIDE DEF a
    <3> QED BY <1>1, <2>1, <3>1
  <2>3. b \in Seq(Rec) /\ Len(b) = Len(old) - n /\ \A i \in 1..(Len(old) - n) : b[i] = old[n + i]
    <3>1. /\ b \in Seq(Rec) /\ Len(b) = (IF n + 1 <= Len(old) THEN Len(old) - (n + 1) + 1 ELSE 0)
          /\ \A i \in 1..(Len(old) - (n + 1) + 1) : b[i] = old[(n + 1) + i - 1]
      BY <1>1, <2>1, SubSeqProperties
    <3> HIDE DEF b
    <3> QED BY <1>1, <2>1, <3>1
  <2> HIDE DEF a, b
  <2>4. /\ a \o b \in Seq(Rec) /\ Len(a \o b) = Len(a) + Len(b)
        /\ \A i \in 1..(Len(a) + Len(b)) : (a \o b)[i] = IF i <= Len(a) THEN a[i] ELSE b[i - Len(a)]
    BY <2>2, <2>3, ConcatProperties
  <2>5. ASSUME NEW p \in 1..(Len(old) - 1)
        PROVE  (a \o b)[p] = IF p >= n THEN old[p + 1] ELSE old[p]
    <3>1. CASE p >= n
      <4>1. p - Len(a) \in 1..(Len(old) - n) /\ n + (p - Len(a)) = p + 1 /\ ~(p <= Len(a))
        BY <1>1, <2>1, <2>2, <3>1
      <4>2. p \in 1..(Len(a) + Len(b))
        BY <1>1, <2>1, <2>2, <2>3
      <4>3. (a \o b)[p] = b[p - Len(a)]
        BY <2>4, <4>1, <4>2
      <4>4. b[p - Len(a)] = old[p + 1]
        BY <2>3, <4>1
      <4> QED BY <3>1, <4>3, <4>4
    <3>2. CASE ~(p >= n)
      BY <1>1, <2>1, <2>2, <2>3, <2>4, <3>2
    <3> QED BY <3>1, <3>2
  <2>6. chain = a \o b
    BY DEF Unlinked, a, b, old, n
  <2> HIDE DEF chain
  <2> QED BY <1>1, <2>1, <2>2, <2>3, <2>4, <2>5, <2>6
<1>6. SetChain(k, chain, record_count - 1, r)
  OBVIOUS
<1> HIDE DEF old, n, chain
<1> DEFINE from(p) == IF p >= n THEN p + 1 ELSE p
<1>7. ASSUME NEW p \in 1..Len(chain)
      PROVE  from(p) \in 1..Len(old) /\ from(p) # n /\ chain[p] = old[from(p)]
  BY <1>1, <1>5
<1>8. ASSUME NEW p \in 1..Len(old), p # n
      PROVE  \E q \in 1..Len(chain) : chain[q] = old[p]
  <2>1. CASE p < n
    <3>1. p \in 1..Len(chain) /\ ~(p >= n)
      BY <1>1, <1>5, <2>1
    <3> QED BY <1>5, <3>1
  <2>2. CASE p > n
    <3>1. p - 1 \in 1..Len(chain) /\ p - 1 >= n /\ (p - 1) + 1 = p
      BY <1>1, <1>5, <2>2
    <3>2. chain[p - 1] = old[p]
      BY <1>5, <3>1
    <3> QED BY <3>1, <3>2
  <2> QED BY <1>1, <1>8, <2>1, <2>2
<1>9. \A p \in 1..Len(chain) : hash_fun(chain[p].name) = h
  BY <1>2, <1>7
<1>10. OneForEach(chain)
  <2> SUFFICES ASSUME NEW p \in 1..Len(chain), NEW q \in 1..Len(chain),
                      comp_fun(chain[p].name, chain[q].name)
               PROVE  p = q
    BY DEF OneForEach
  <2>1. from(p) = from(q)
    <3> HIDE DEF from
    <3> QED BY <1>3, <1>7 DEF OneForEach
  <2> QED BY <1>1, <1>5, <2>1
<1>11. ASSUME NEW s PROVE s \in ToSet(chain) <=> s \in ToSet(old) /\ s # old[n]
  <2>1. s \in ToSet(chain) <=> \E p \in 1..Len(chain) : s = chain[p]
    BY <1>5, SetOf
  <2>2. s \in ToSet(old) <=> \E p \in 1..Len(old) : s = old[p]
    BY <1>1, SetOf
  <2>3. \A p \in 1..Len(old) : old[p] = old[n] => p = n
    BY <1>1, <1>3 DEF OneForEach, comp_fun
  <2> HIDE DEF from
  <2>4. ASSUME s \in ToSet(chain) PROVE s \in ToSet(old) /\ s # old[n]
    <3>1. PICK p \in 1..Len(chain) : s = chain[p]
      BY <2>1, <2>4
    <3>2. from(p) \in 1..Len(old) /\ from(p) # n /\ s = old[from(p)]
      BY <1>7, <3>1
    <3> QED BY <2>2, <2>3, <3>2
  <2>5. ASSUME s \in ToSet(old), s # old[n] PROVE s \in ToSet(chain)
    <3>1. PICK p \in 1..Len(old) : s = old[p]
      BY <2>2, <2>5
    <3>2. \E q \in 1..Len(chain) : chain[q] = old[p]
      BY <1>8, <2>5, <3>1
    <3> QED BY <2>1, <3>1, <3>2
  <2> QED BY <2>4, <2>5
<1>12. ASSUME NEW s PROVE s \in Records' <=> s \in Records /\ s # old[n]
  <2>1. s \in Records' <=> (s \in Records /\ hash_fun(s.name) # h) \/ s \in ToSet(chain)
    BY <1>5, <1>6, <1>9, <1>10, ChainChanged
  <2>2. s \in ToSet(old) <=> s \in Records /\ hash_fun(s.name) = h
    BY ChainRecords DEF old
  <2>3. s = old[n] => hash_fun(s.name) = h
    BY <1>1, <1>2
  <2> QED BY <1>11, <2>1, <2>2, <2>3
<1>13. Records' = Records \ {old[n]}
  BY <1>12
<1>14. IsFiniteSet(Records') /\ record_count - 1 = Cardinality(Records')
  BY <1>1, <1>4, <1>13, FS_RemoveElement DEF RegistryInv, Counted
<1>15. RegistryInv'
  BY <1>5, <1>6, <1>9, <1>10, <1>14, ChainCounted
<1> QED BY <1>4, <1>13, <1>15

(* The object of a record is replaced.                                     *)
LEMMA Replaces ==
  ASSUME RegistryInv, Created, NEW k \in Value, NEW x \in Object, NEW r, Found(k),
         SetChain(k, [Chain(k) EXCEPT ![Position(k)].obj = x], record_count, r)
  PROVE  /\ RegistryInv'
         /\ Records' = (Records \ {Record(k)}) \union {[Record(k) EXCEPT !.obj = x]}
<1> DEFINE old == Chain(k)
           n == Position(k)
           new == [Record(k) EXCEPT !.obj = x]
           chain == [old EXCEPT ![n] = new]
           h == hash_fun(k)
<1>1. /\ old \in Seq(Rec) /\ h \in Chains /\ n \in 1..Len(old)
      /\ Record(k) \in Records /\ comp_fun(k, Record(k).name)
  BY Lookup
<1>2. \A p \in 1..Len(old) : old[p] \in Records /\ old[p] \in Rec /\ hash_fun(old[p].name) = h
  BY <1>1, ChainRecords, SetOf, ElementOfSeq
<1>3. OneForEach(old)
  BY <1>1 DEF RegistryInv, Single, Chain
<1>4. Record(k) = old[n]
  BY DEF Record
<1>5. SetChain(k, chain, record_count, r)
  BY DEF Record
<1>6. new \in Rec /\ new.name = Record(k).name
  BY <1>1, <1>2, <1>4 DEF Rec
<1> HIDE DEF old, n, new
<1>7. /\ chain \in Seq(Rec) /\ Len(chain) = Len(old)
      /\ \A p \in 1..Len(old) : chain[p] = IF p = n THEN new ELSE old[p]
  BY <1>1, <1>6, ExceptSeq
<1> HIDE DEF chain
<1>8. \A p \in 1..Len(chain) : chain[p].name = old[p].name
  BY <1>4, <1>6, <1>7
<1>9. \A p \in 1..Len(chain) : hash_fun(chain[p].name) = h
  BY <1>2, <1>7, <1>8
<1>10. OneForEach(chain)
  BY <1>3, <1>7, <1>8 DEF OneForEach
<1>11. ASSUME NEW s PROVE s \in ToSet(chain) <=> (s \in ToSet(old) /\ s # old[n]) \/ s = new
  <2>1. s \in ToSet(chain) <=> \E p \in 1..Len(chain) : s = chain[p]
    BY <1>7, SetOf
  <2>2. s \in ToSet(old) <=> \E p \in 1..Len(old) : s = old[p]
    BY <1>1, SetOf
  <2>3. \A p \in 1..Len(old) : old[p] = old[n] => p = n
    BY <1>1, <1>3 DEF OneForEach, comp_fun
  <2> QED BY <1>1, <1>7, <2>1, <2>2, <2>3
<1>12. ASSUME NEW s PROVE s \in Records' <=> (s \in Records /\ s # old[n]) \/ s = new
  <2>1. s \in Records' <=> (s \in Records /\ hash_fun(s.name) # h) \/ s \in ToSet(chain)
    BY <1>5, <1>7, <1>9, <1>10, ChainChanged
  <2>2. s \in ToSet(old) <=> s \in Records /\ hash_fun(s.name) = h
    BY ChainRecords DEF old
  <2>3. s = old[n] => hash_fun(s.name) = h
    BY <1>1, <1>2
  <2> QED BY <1>11, <2>1, <2>2, <2>3
<1>13. Records' = (Records \ {old[n]}) \union {new}
  BY <1>12
<1>14. new \notin Records \ {old[n]}
  <2> SUFFICES ASSUME new \in Records PROVE new = old[n]
    OBVIOUS
  <2> QED BY <1>1, <1>4, <1>6, OneRecord DEF RegistryInv, comp_fun
<1>15. IsFiniteSet(Records') /\ record_count = Cardinality(Records')
  <2>1. /\ IsFiniteSet(Records) /\ record_count = Cardinality(Records) /\ record_count \in Nat
    BY DEF RegistryInv, Counted, RegistryTypeOK
  <2>2. IsFiniteSet(Records \ {old[n]}) /\ Cardinality(Records \ {old[n]}) = record_count - 1
    BY <1>1, <1>4, <2>1, FS_RemoveElement
  <2> DEFINE rest == Records \ {old[n]}
  <2>3. IsFiniteSet(rest) /\ Cardinality(rest) = record_count - 1 /\ new \notin rest
    BY <1>14, <2>2
  <2>4. Records' = rest \union {new}
    BY <1>13
  <2> HIDE DEF rest
  <2>5. IsFiniteSet(rest \union {new}) /\ Cardinality(rest \union {new}) = Cardinality(rest) + 1
    BY <2>3, FS_AddElement
  <2> QED BY <2>1, <2>3, <2>4, <2>5
<1>16. RegistryInv'
  BY <1>5, <1>7, <1>9, <1>10, <1>15, ChainCounted
<1> QED BY <1>4, <1>13, <1>16 DEF new

(* A new table has no records.                                             *)
LEMMA NewTable ==
  ASSUME NEW n \in Nat, hash_table' = Table(n) \/ (hash_table' = <<>> /\ n = 0), record_count' = 0
  PROVE  RegistryInv' /\ Records' = {}
<1>1. IsTable(n)'
  <2>1. CASE hash_table' = Table(n)
    <3>1. <<>> \in Seq(Rec)
      BY EmptySeq
    <3>2. [i \in 0..(n - 1) |-> <<>>] \in [0..(n - 1) -> Seq(Rec)]
      BY <3>1
    <3> QED BY <2>1, <3>2 DEF Table, IsTable
  <2>2. CASE hash_table' = <<>> /\ n = 0
    BY <2>2 DEF IsTable
  <2> QED BY <2>1, <2>2
<1>2. \A i \in Chains' : hash_table'[i] = <<>>
  BY DEF Chains, Table
<1>3. Hashed' /\ Single'
  <2>1. \A i \in Chains' : 1..Len(hash_table'[i]) = {}
    BY <1>2
  <2> QED BY <2>1 DEF Hashed, Single, OneForEach
<1>4. Records' = {}
  <2>1. \A i \in Chains' : ToSet(hash_table'[i]) = {}
    BY <1>2 DEF ToSet
  <2> QED BY <2>1 DEF Records
<1>5. Counted'
  BY <1>4, FS_EmptySet DEF Counted
<1> QED BY <1>1, <1>3, <1>4, <1>5 DEF RegistryInv, RegistryTypeOK

(* Without a registry there are no records.                                *)
LEMMA NotCreated ==
  ASSUME ~Created
  PROVE  Records = {}
BY DEF Created, Records, Chains

(* A registry without records has no chain with any.                       *)
LEMMA NoRecords ==
  ASSUME RegistryInv, record_count = 0
  PROVE  Records = {}
BY FS_EmptySet DEF RegistryInv, Counted

(* What the table looks like after an operation.                           *)
LEMMA NextRegistry ==
  ASSUME RegistryInv, [RegistryNext]_rvars
  PROVE  RegistryInv'
<1>1. CASE UNCHANGED <<hash_table, record_count>>
  <2>1. Records' = Records
    BY <1>1 DEF Records, Chains
  <2>2. \A k : hash_fun(k)' = hash_fun(k)
    BY <1>1 DEF hash_fun, Chains
  <2> QED BY <1>1, <2>1, <2>2 DEF RegistryInv, RegistryTypeOK, IsTable, Hashed, Single, Counted, Chains
<1>2. CASE Registry_create \/ Registry_destroy
  BY <1>2, NewTable, RegistryAssumption DEF Registry_create, Registry_destroy
<1>3. ASSUME NEW n \in Hints, Registry_size_hint(n) PROVE RegistryInv'
  <2>1. CASE record_count = 0
    BY <1>3, <2>1, NewTable, RegistryAssumption DEF Registry_size_hint
  <2>2. CASE record_count # 0
    BY <1>1, <1>3, <2>2 DEF Registry_size_hint
  <2> QED BY <2>1, <2>2
<1>4. ASSUME NEW k \in Value, Registry_remove(k) PROVE RegistryInv'
  BY <1>1, <1>4, Unlinks DEF Registry_remove, Answer
<1>5. ASSUME NEW k \in Value, NEW x \in Object, Registry_add(k, x) PROVE RegistryInv'
  BY <1>1, <1>5, Pushed DEF Registry_add, Answer
<1>6. ASSUME NEW k \in Value, NEW x \in Object, Registry_replace_value(k, x) PROVE RegistryInv'
  BY <1>6, Pushed, Replaces DEF Registry_replace_value
<1>7. CASE Registry_fetch_contents \/ \E k \in Value : GetObject(k) \/ GetOriginalKey(k)
  BY <1>1, <1>7 DEF Registry_fetch_contents, GetObject, GetOriginalKey, Answer
<1>8. CASE UNCHANGED rvars
  BY <1>1, <1>8 DEF rvars
<1> QED BY <1>2, <1>3, <1>4, <1>5, <1>6, <1>7, <1>8 DEF RegistryNext

(* An empty table is right at first.                                       *)
LEMMA RegistryStarts == RegistryInit => RegistryInv
<1> SUFFICES ASSUME RegistryInit PROVE RegistryInv
  OBVIOUS
<1>1. hash_table = <<>> /\ record_count = 0 /\ ~Created /\ Chains = {}
  BY DEF RegistryInit, Created, Chains
<1>2. IsTable(0)
  BY <1>1 DEF IsTable
<1>3. Records = {}
  BY <1>1, NotCreated
<1> QED BY <1>1, <1>2, <1>3, FS_EmptySet DEF RegistryInv, RegistryTypeOK, Hashed, Single, Counted

(* The invariant of registry.c holds after every sequence of operations,   *)
(* for any keys, comparison, hashes and sizes: each record is in the chain *)
(* its key hashes to, no two records have equal keys, and their number is  *)
(* counted right.                                                          *)
THEOREM TableWellFormed == RegistrySpec => []ChainsWellFormed
<1>1. RegistryInit => RegistryInv
  BY RegistryStarts
<1>2. RegistryInv /\ [RegistryNext]_rvars => RegistryInv'
  BY NextRegistry
<1>3. RegistryInv => ChainsWellFormed
  <2> SUFFICES ASSUME RegistryInv PROVE ChainsWellFormed
    OBVIOUS
  <2>1. Registry_entry_count = Len(Traversal)
    BY TraversalLists DEF Registry_entry_count, RegistryInv, Counted
  <2>2. PICK n \in Nat : IsTable(n)
    BY DEF RegistryInv, RegistryTypeOK
  <2>3. ASSUME NEW i \in Chains, NEW p \in DOMAIN hash_table[i], NEW q \in DOMAIN hash_table[i]
        PROVE  /\ hash_fun(hash_table[i][p].name) = i
               /\ comp_fun(hash_table[i][p].name, hash_table[i][q].name) => p = q
    <3>1. hash_table[i] \in Seq(Rec)
      BY <2>2, TableShape
    <3>2. DOMAIN hash_table[i] = 1..Len(hash_table[i])
      BY <3>1, LenProperties
    <3> QED BY <2>3, <3>2 DEF RegistryInv, Hashed, Single, OneForEach
  <2> QED BY <2>1, <2>3 DEF ChainsWellFormed
<1> QED BY <1>1, <1>2, <1>3, PTL DEF RegistrySpec

-----------------------------------------------------------------------------
(* What a caller of registry.h sees                                        *)

(* The arrays the loop of add_to_darrays goes through.                     *)
AddLoop(g, d, s, n) == g = [i \in 0..n |-> IF i = 0 THEN d ELSE Darray_addh(g[i - 1], s[i])]

(* The loop is well defined.                                               *)
LEMMA AddLoopExists ==
  ASSUME NEW d, NEW s
  PROVE  \A n \in Nat : \E g : AddLoop(g, d, s, n)
<1> DEFINE S == {n \in Nat : \E g : AddLoop(g, d, s, n)}
<1>1. 0 \in S
  <2> DEFINE g == [i \in 0..0 |-> d]
  <2>1. AddLoop(g, d, s, 0)
    BY DEF AddLoop
  <2> QED BY <2>1
<1>2. ASSUME NEW n \in S PROVE n + 1 \in S
  <2>1. PICK g : AddLoop(g, d, s, n)
    OBVIOUS
  <2> DEFINE Piece(f, i) == IF i = 0 THEN d ELSE Darray_addh(f[i - 1], s[i])
             h == [i \in 0..(n + 1) |-> IF i <= n THEN g[i] ELSE Piece(g, i)]
  <2>2. n \in Nat
    OBVIOUS
  <2>3. \A i \in 0..n : h[i] = g[i] /\ g[i] = Piece(g, i)
    <3>1. ASSUME NEW i \in 0..n PROVE h[i] = g[i]
      BY <2>2
    <3>2. ASSUME NEW i \in 0..n PROVE g[i] = Piece(g, i)
      <4> HIDE DEF h
      <4> QED BY <2>1 DEF AddLoop
    <3> HIDE DEF h, Piece
    <3> QED BY <3>1, <3>2
  <2>4. h[n + 1] = Piece(g, n + 1)
    BY <2>2
  <2>5. h = [i \in 0..(n + 1) |-> h[i]]
    OBVIOUS
  <2> HIDE DEF h
  <2>6. ASSUME NEW i \in 0..(n + 1) PROVE h[i] = Piece(h, i)
    <3>1. i = 0 \/ i - 1 \in 0..n
      BY <2>2
    <3>2. i = n + 1 \/ i \in 0..n
      BY <2>2
    <3>3. Piece(h, i) = Piece(g, i)
      BY <2>3, <3>1
    <3> QED BY <2>3, <2>4, <3>2, <3>3
  <2>7. AddLoop(h, d, s, n + 1)
    BY <2>5, <2>6 DEF AddLoop
  <2> QED BY <2>2, <2>7
<1> HIDE DEF S
<1>3. \A n \in Nat : n \in S
  <2>1. S \in SUBSET Nat
    BY DEF S
  <2> QED BY <1>1, <1>2, <2>1, FromZero
<1> QED BY <1>3 DEF S

(* What was added to an empty array is what it holds.                      *)
LEMMA AddedAll ==
  ASSUME NEW s \in Seq(Value)
  PROVE  Darray_values(add_to_darrays(Darray_create, s)) = s
<1> DEFINE g == CHOOSE g : AddLoop(g, Darray_create, s, Len(s))
<1>1. Len(s) \in Nat /\ AddLoop(g, Darray_create, s, Len(s))
  BY LenProperties, AddLoopExists
<1>2. add_to_darrays(Darray_create, s) = g[Len(s)]
  BY DEF add_to_darrays, AddLoop
<1> HIDE DEF g
<1> DEFINE Holds(n) == /\ IsArray(g[n]) /\ g[n].length = n
                       /\ \A i \in 0..(n - 1) : Elem(g[n], i) = s[i + 1]
           S == {n \in Nat : n <= Len(s) => Holds(n)}
<1>3. 0 \in S
  <2>1. g[0] = Darray_create
    BY <1>1 DEF AddLoop
  <2> QED BY <2>1, NewArray DEF Darray_create
<1>4. ASSUME NEW n \in S PROVE n + 1 \in S
  <2> SUFFICES ASSUME n + 1 <= Len(s) PROVE Holds(n + 1)
    OBVIOUS
  <2>1. n \in Nat /\ n + 1 \in 0..Len(s) /\ n + 1 \in 1..Len(s) /\ n + 1 # 0 /\ (n + 1) - 1 = n
    BY <1>1
  <2>2. Holds(n)
    BY <1>1, <2>1
  <2> DEFINE e == g[n]
             f == Darray_addh(e, s[n + 1])
  <2>3. g[n + 1] = f
    BY <1>1, <2>1 DEF AddLoop
  <2>4. IsArray(e) /\ e.length = n /\ \A i \in 0..(n - 1) : Elem(e, i) = s[i + 1]
    BY <2>2
  <2>5. s[n + 1] \in Value
    BY <2>1, ElementOfSeq
  <2> HIDE DEF e
  <2>6. /\ IsArray(f) /\ f.length = n + 1
        /\ \A i \in 0..(n - 1) : Elem(f, i) = Elem(e, i)
        /\ Elem(f, n) = s[n + 1]
    BY <2>4, <2>5, AddedHigh, HighArray DEF IsArray, Slots
  <2> HIDE DEF f
  <2>7. \A i \in 0..n : i = n \/ i \in 0..(n - 1)
    BY <2>1
  <2> QED BY <2>1, <2>3, <2>4, <2>6, <2>7
<1> HIDE DEF S
<1>5. \A n \in Nat : n \in S
  <2>1. S \in SUBSET Nat
    BY DEF S
  <2> QED BY <1>3, <1>4, <2>1, FromZero
<1>6. Holds(Len(s))
  BY <1>1, <1>5 DEF S
<1> DEFINE t == g[Len(s)]
<1>7. \A i \in 1..Len(s) : i - 1 \in 0..(Len(s) - 1) /\ (i - 1) + 1 = i
  BY <1>1
<1>8. IsArray(t) /\ t.length = Len(s) /\ \A i \in 1..Len(s) : Elem(t, i - 1) = s[i]
  BY <1>6, <1>7
<1> HIDE DEF t
<1>9. Darray_values(t) = s
  BY <1>8, SameSeq
<1> QED BY <1>2, <1>9 DEF t

(* The contents are the records, in the order of the chains.               *)
LEMMA Contents ==
  ASSUME RegistryInv, Registry_fetch_contents
  PROVE  answer' = Traversal
<1> DEFINE t == Traversal
           names == Names(t)
           objects == Objects(t)
<1>1. t \in Seq(Rec) /\ Len(t) \in Nat /\ DOMAIN t = 1..Len(t)
  BY TraversalLists, LenProperties DEF RegistryInv
<1>2. \A i \in 1..Len(t) : t[i] \in Rec
  BY <1>1, ElementOfSeq
<1> HIDE DEF t
<1>3. names \in Seq(Value) /\ DOMAIN names = 1..Len(t) /\ \A i \in 1..Len(t) : names[i] = t[i].name
  BY <1>1, <1>2 DEF Names, Rec
<1>4. objects \in Seq(Value) /\ \A i \in 1..Len(t) : objects[i] = t[i].obj
  BY <1>1, <1>2, RegistryAssumption DEF Objects, Rec
<1> HIDE DEF names, objects
<1>5. /\ Darray_values(add_to_darrays(Darray_create, names)) = names
      /\ Darray_values(add_to_darrays(Darray_create, objects)) = objects
  BY <1>3, <1>4, AddedAll
<1>6. answer' = [i \in DOMAIN names |-> [name |-> names[i], obj |-> objects[i]]]
  BY <1>5 DEF Registry_fetch_contents, Answer, names, objects, t
<1>7. \A i \in 1..Len(t) : [name |-> names[i], obj |-> objects[i]] = t[i]
  BY <1>2, <1>3, <1>4 DEF Rec
<1>8. answer' = [i \in 1..Len(t) |-> t[i]]
  BY <1>3, <1>6, <1>7
<1>9. t = [i \in 1..Len(t) |-> t[i]]
  BY <1>1
<1> QED BY <1>8, <1>9 DEF t

(* The map that a set of records is.                                       *)
Classes  == {Class[k] : k \in Value}
MapOf(R) == [c \in Classes |-> {r \in R : Class[r.name] = c}]
Map      == [c \in Classes |-> Associated(c)]

StandsFor == Map = MapOf(Records)

(* The table stands for the map of its records.                            *)
LEMMA MapOfTable == RegistryInv => StandsFor
BY TraversalLists DEF RegistryInv, Map, MapOf, Associated, StandsFor

(* The associations of the map are the records.                            *)
LEMMA AssociationsAre ==
  ASSUME RegistryInv
  PROVE  AbstractMap!Associations = Records
<1>1. Map = MapOf(Records)
  BY MapOfTable DEF StandsFor
<1>2. \A r \in Records : r.name \in Value
  BY InChain DEF RegistryInv, Rec
<1>3. AbstractMap!Associations = UNION {Map[c] : c \in Classes}
  BY DEF AbstractMap!Associations, AbstractMap!Classes, Map, Classes
<1>4. UNION {MapOf(Records)[c] : c \in Classes} = Records
  <2>1. \A c \in Classes : MapOf(Records)[c] = {r \in Records : Class[r.name] = c}
    BY DEF MapOf
  <2>2. \A r \in Records : Class[r.name] \in Classes
    BY <1>2 DEF Classes
  <2> QED BY <2>1, <2>2
<1> QED BY <1>1, <1>3, <1>4

(* A key of the table is a key of the map.                                 *)
LEMMA FoundThere ==
  ASSUME RegistryInv, Created, NEW k \in Value
  PROVE  /\ Found(k) => AbstractMap!Found(k, Record(k)) /\ Record(k) \in AbstractMap!Associations
         /\ Found(k) => ~AbstractMap!Missing(k)
         /\ ~Found(k) => AbstractMap!Missing(k)
<1>1. Map = MapOf(Records)
  BY MapOfTable DEF StandsFor
<1>2. Class[k] \in Classes
  BY DEF Classes
<1>3. Map[Class[k]] = {r \in Records : comp_fun(k, r.name)}
  BY <1>1, <1>2 DEF MapOf, comp_fun
<1>4. ASSUME Found(k) PROVE Map[Class[k]] = {Record(k)} /\ Record(k) \in Records
  <2>1. Record(k) \in Records /\ comp_fun(k, Record(k).name)
    BY <1>4, Lookup
  <2>2. \A r \in Records : comp_fun(k, r.name) => r = Record(k)
    BY <2>1, OneRecord DEF RegistryInv, comp_fun
  <2> QED BY <1>3, <2>1, <2>2
<1>5. ~Found(k) => Map[Class[k]] = {}
  BY <1>3, Lookup
<1> QED BY <1>4, <1>5, AssociationsAre DEF AbstractMap!Found, AbstractMap!Missing, Map, Classes

(* The map after a change of one record.                                   *)
LEMMA MapChanged ==
  ASSUME RegistryInv, RegistryInv', NEW k \in Value, NEW new,
         \A s : s \in Records' <=> (s \in Records /\ ~comp_fun(k, s.name)) \/ s \in new,
         \A s \in new : comp_fun(k, s.name)
  PROVE  Map' = [Map EXCEPT ![Class[k]] = new]
<1>1. Map = MapOf(Records) /\ Map' = MapOf(Records)'
  <2>1. StandsFor /\ StandsFor'
    BY MapOfTable, PTL
  <2> QED BY <2>1 DEF StandsFor
<1>2. MapOf(Records)' = [c \in Classes |-> {r \in Records' : Class[r.name] = c}]
  BY DEF MapOf
<1>3. ASSUME NEW c \in Classes
      PROVE  {r \in Records' : Class[r.name] = c} = IF c = Class[k] THEN new ELSE {r \in Records : Class[r.name] = c}
  BY DEF comp_fun
<1> HIDE DEF Records
<1>4. Map = [c \in Classes |-> {r \in Records : Class[r.name] = c}]
  BY <1>1 DEF MapOf
<1>5. Map' = [c \in Classes |-> IF c = Class[k] THEN new ELSE {r \in Records : Class[r.name] = c}]
  BY <1>1, <1>2, <1>3
<1> QED BY <1>4, <1>5

(* An operation that leaves no records.                                    *)
LEMMA MapEmptied ==
  ASSUME RegistryInv', Records' = {}
  PROVE  Map' = [c \in Classes |-> {}]
<1>1. StandsFor'
  BY MapOfTable, PTL
<1> QED BY <1>1 DEF StandsFor, MapOf

(* Each operation does to the map what the one of its name does in         *)
(* Dictionary, with the same arguments.                                    *)
LEMMA NextDictionary ==
  ASSUME RegistryInv, RegistryInv', [RegistryNext]_rvars
  PROVE  [AbstractMap!Next]_<<Map, asked, answer>>
<1> USE DEF Asked, AbstractMap!Calls, AbstractMap!Return, AbstractMap!Becomes
<1> DEFINE M == [c \in {Class[k] : k \in Value} |-> Associated(c)]
<1>0. M = Map /\ M' = Map'
  BY DEF Map, Classes
<1>1. ASSUME UNCHANGED hash_table PROVE M' = M
  BY <1>1 DEF Associated, Traversal, Chains
<1>2. ASSUME NEW k \in Value, GetObject(k) PROVE AbstractMap!Get(k)
  <2>1. Created /\ M' = M /\ answer' = Registry_get(k) /\ AbstractMap!Calls(<<"get", k>>)
    BY <1>1, <1>2 DEF GetObject, Answer
  <2> HIDE DEF M
  <2>2. CASE Found(k)
    <3>1. AbstractMap!Found(k, Record(k)) /\ Record(k) \in AbstractMap!Associations
      BY <2>1, <2>2, FoundThere
    <3>2. answer' = Record(k).obj
      BY <2>1, <2>2 DEF Registry_get
    <3> QED BY <2>1, <3>1, <3>2 DEF AbstractMap!Get, M
  <2>3. CASE ~Found(k)
    BY <2>1, <2>3, FoundThere DEF AbstractMap!Get, Registry_get, M
  <2> QED BY <2>2, <2>3
<1>3. ASSUME NEW k \in Value, GetOriginalKey(k) PROVE AbstractMap!OriginalKey(k)
  <2>1. Created /\ M' = M /\ answer' = Registry_get_original_key(k) /\ AbstractMap!Calls(<<"original_key", k>>)
    BY <1>1, <1>3 DEF GetOriginalKey, Answer
  <2> HIDE DEF M
  <2>2. CASE Found(k)
    <3>1. AbstractMap!Found(k, Record(k)) /\ Record(k) \in AbstractMap!Associations
      BY <2>1, <2>2, FoundThere
    <3>2. answer' = Record(k).name
      BY <2>1, <2>2 DEF Registry_get_original_key
    <3> QED BY <2>1, <3>1, <3>2 DEF AbstractMap!OriginalKey, M
  <2>3. CASE ~Found(k)
    BY <2>1, <2>3, FoundThere DEF AbstractMap!OriginalKey, Registry_get_original_key, M
  <2> QED BY <2>2, <2>3
<1>4. ASSUME NEW k \in Value, NEW x \in Object, NEW r, Created, ~Found(k), Push(k, x, r)
      PROVE  AbstractMap!Missing(k) /\ AbstractMap!Becomes(AbstractMap!Associate(k, x), r)
  <2>1. Records' = Records \union {[name |-> k, obj |-> x]} /\ \A s \in Records : ~comp_fun(k, s.name)
    BY <1>4, Pushed, Lookup
  <2>2. comp_fun(k, k)
    BY DEF comp_fun
  <2>3. Map' = [Map EXCEPT ![Class[k]] = {[name |-> k, obj |-> x]}]
    <3> DEFINE new == {[name |-> k, obj |-> x]}
    <3>1. \A s \in new : comp_fun(k, s.name)
      BY <2>2
    <3>2. \A s : s \in Records' <=> (s \in Records /\ ~comp_fun(k, s.name)) \/ s \in new
      BY <2>1
    <3> HIDE DEF new
    <3>3. Map' = [Map EXCEPT ![Class[k]] = new]
      BY <3>1, <3>2, MapChanged
    <3> QED BY <3>3 DEF new
  <2>4. answer' = r
    BY <1>4 DEF Push, SetChain
  <2>5. AbstractMap!Missing(k)
    BY <1>4, FoundThere
  <2> HIDE DEF M
  <2>6. M' = [M EXCEPT ![Class[k]] = {[name |-> k, obj |-> x]}]
    BY <1>0, <2>3
  <2> QED BY <2>4, <2>5, <2>6 DEF AbstractMap!Associate, M
<1>5. ASSUME NEW k \in Value, NEW x \in Object, Registry_add(k, x) PROVE AbstractMap!Add(k, x)
  <2>1. CASE Found(k)
    <3>1. Created /\ answer' = Bool_FALSE /\ M' = M /\ AbstractMap!Calls(<<"add", k, x>>)
      BY <1>1, <1>5, <2>1 DEF Registry_add, Answer
    <3> HIDE DEF M
    <3> QED BY <2>1, <3>1, FoundThere DEF AbstractMap!Add, M
  <2>2. CASE ~Found(k)
    <3>1. Created /\ Push(k, x, Bool_TRUE) /\ AbstractMap!Calls(<<"add", k, x>>)
      BY <1>5, <2>2 DEF Registry_add
    <3> QED BY <1>4, <2>2, <3>1 DEF AbstractMap!Add
  <2> QED BY <2>1, <2>2
<1>6. ASSUME NEW k \in Value, Registry_remove(k) PROVE AbstractMap!Forget(k)
  <2>1. CASE Found(k)
    <3>1. Created /\ SetChain(k, Unlinked(k), record_count - 1, Bool_TRUE)
      BY <1>6, <2>1 DEF Registry_remove
    <3>2. Records' = Records \ {Record(k)} /\ Record(k) \in Records /\ comp_fun(k, Record(k).name)
      BY <2>1, <3>1, Unlinks, Lookup
    <3>3. \A s \in Records : comp_fun(k, s.name) => s = Record(k)
      BY <3>2, OneRecord DEF RegistryInv, comp_fun
    <3>4. Map' = [Map EXCEPT ![Class[k]] = {}]
      BY <3>2, <3>3, MapChanged
    <3>5. ~AbstractMap!Missing(k) /\ answer' = Bool_TRUE /\ AbstractMap!Calls(<<"remove", k>>)
      BY <1>6, <2>1, <3>1, FoundThere DEF Registry_remove, SetChain
    <3> HIDE DEF M
    <3>6. M' = [M EXCEPT ![Class[k]] = {}]
      BY <1>0, <3>4
    <3> QED BY <3>5, <3>6 DEF AbstractMap!Forget, M
  <2>2. CASE ~Found(k)
    <3>1. Created /\ answer' = Bool_FALSE /\ M' = M /\ AbstractMap!Calls(<<"remove", k>>)
      BY <1>1, <1>6, <2>2 DEF Registry_remove, Answer
    <3> HIDE DEF M
    <3> QED BY <2>2, <3>1, FoundThere DEF AbstractMap!Forget, M
  <2> QED BY <2>1, <2>2
<1>7. ASSUME NEW k \in Value, NEW x \in Object, Registry_replace_value(k, x) PROVE AbstractMap!Replace(k, x)
  <2>1. CASE Found(k)
    <3> DEFINE old == Record(k)
               new == [old EXCEPT !.obj = x]
    <3>1. Created /\ SetChain(k, [Chain(k) EXCEPT ![Position(k)].obj = x], record_count, old.obj)
      BY <1>7, <2>1 DEF Registry_replace_value
    <3>2. Records' = (Records \ {old}) \union {new} /\ old \in Records /\ comp_fun(k, old.name)
      BY <2>1, <3>1, Replaces, Lookup
    <3>3. \A s \in Records : comp_fun(k, s.name) => s = old
      BY <3>2, OneRecord DEF RegistryInv, comp_fun
    <3>4. comp_fun(k, new.name)
      <4>1. old \in Rec
        BY <3>2, InChain DEF RegistryInv
      <4>2. new.name = old.name
        BY <4>1 DEF Rec
      <4> QED BY <3>2, <4>2
    <3>5. /\ AbstractMap!Found(k, old) /\ old \in AbstractMap!Associations /\ answer' = old.obj
          /\ AbstractMap!Calls(<<"replace", k, x>>)
      BY <1>7, <2>1, <3>1, FoundThere DEF Registry_replace_value, SetChain
    <3> HIDE DEF old, new
    <3>6. Map' = [Map EXCEPT ![Class[k]] = {new}]
      BY <3>2, <3>3, <3>4, MapChanged
    <3> HIDE DEF M
    <3>7. M' = [M EXCEPT ![Class[k]] = {new}]
      BY <1>0, <3>6
    <3> QED BY <3>5, <3>7 DEF AbstractMap!Replace, M, new
  <2>2. CASE ~Found(k)
    <3>1. Created /\ Push(k, x, NULL) /\ AbstractMap!Calls(<<"replace", k, x>>)
      BY <1>7, <2>2 DEF Registry_replace_value
    <3> QED BY <1>4, <2>2, <3>1 DEF AbstractMap!Replace
  <2> QED BY <2>1, <2>2
<1>8. ASSUME NEW n \in Nat, hash_table' = Table(n) \/ (hash_table' = <<>> /\ n = 0), record_count' = 0, answer' = NULL
      PROVE  AbstractMap!Becomes(AbstractMap!Empty, NULL)
  <2>1. Map' = [c \in Classes |-> {}]
    BY <1>8, NewTable, MapEmptied
  <2> HIDE DEF M
  <2>2. M' = [c \in Classes |-> {}]
    BY <1>0, <2>1
  <2> QED BY <1>8, <2>2 DEF AbstractMap!Empty, AbstractMap!Classes, Classes, M
<1>9. CASE Registry_create \/ Registry_destroy
  <2>1. AbstractMap!Becomes(AbstractMap!Empty, NULL)
    BY <1>8, <1>9, RegistryAssumption DEF Registry_create, Registry_destroy
  <2> QED BY <1>9, <2>1 DEF Registry_create, Registry_destroy, AbstractMap!Create, AbstractMap!Destroy, AbstractMap!Next
<1>10. ASSUME NEW n \in Hints, Registry_size_hint(n) PROVE AbstractMap!Next
  <2>1. CASE record_count = 0
    <3>1. n \in Nat /\ hash_table' = Table(n) /\ record_count' = 0 /\ answer' = NULL
      BY <1>10, <2>1, RegistryAssumption DEF Registry_size_hint
    <3>2. record_count' = record_count /\ Records = {}
      BY <1>10, <2>1, NoRecords DEF Registry_size_hint
    <3>3. Map = [c \in Classes |-> {}]
      BY <3>2, MapOfTable DEF StandsFor, MapOf
    <3>4. Records' = {}
      BY <3>1, NewTable
    <3>5. Map' = [c \in Classes |-> {}]
      BY <3>4, MapEmptied
    <3> HIDE DEF M
    <3>6. M' = M
      BY <1>0, <3>3, <3>5
    <3>7. AbstractMap!SizeHint(n)
      BY <1>10, <3>1, <3>6 DEF Registry_size_hint, AbstractMap!SizeHint, M
    <3> QED BY <3>7 DEF AbstractMap!Next
  <2>2. CASE record_count # 0
    <3>1. hash_table' = hash_table /\ answer' = NULL
      BY <1>10, <2>2 DEF Registry_size_hint
    <3>2. AbstractMap!Return(NULL)
      BY <1>1, <3>1
    <3>3. AbstractMap!SizeHint(n)
      BY <1>10, <3>2 DEF Registry_size_hint, AbstractMap!SizeHint
    <3> QED BY <3>3 DEF AbstractMap!Next
  <2> QED BY <2>1, <2>2
<1>11. CASE Registry_fetch_contents
  <2>1. answer' = Traversal /\ M' = M
    BY <1>1, <1>11, Contents DEF Registry_fetch_contents, Answer
  <2>2. Traversal \in AbstractMap!SetToSeqs(AbstractMap!Associations)
    <3> DEFINE t == Traversal
    <3>1. /\ t \in Seq(Rec) /\ Distinct(t) /\ ToSet(t) = Records /\ Len(t) = Cardinality(Records)
      BY TraversalLists DEF RegistryInv
    <3>2. DOMAIN t = 1..Len(t) /\ t \in [1..Len(t) -> Rec]
      BY <3>1, LenProperties
    <3>3. t \in [1..Len(t) -> Records]
      BY <3>1, <3>2 DEF ToSet
    <3> HIDE DEF t
    <3>4. t \in AbstractMap!SetToSeqs(Records)
      <4>1. \A S : AbstractMap!Cardinality(S) = Cardinality(S)
        BY DEF AbstractMap!Cardinality, Cardinality
      <4> QED BY <3>1, <3>3, <4>1 DEF AbstractMap!SetToSeqs, Distinct
    <3> QED BY <3>4, AssociationsAre DEF t
  <2> HIDE DEF M
  <2>3. AbstractMap!Fetch
    <3>1. AbstractMap!Return(Traversal)
      BY <2>1 DEF M
    <3> DEFINE A == AbstractMap!Associations
               t == Traversal
    <3>2. t \in AbstractMap!SetToSeqs(A) /\ AbstractMap!Return(t)
      BY <2>2, <3>1
    <3> HIDE DEF t
    <3> QED BY <1>11, <3>2 DEF Registry_fetch_contents, AbstractMap!Fetch
  <2> QED BY <2>3 DEF AbstractMap!Next
<1>12. CASE UNCHANGED rvars
  <2>1. UNCHANGED <<Map, asked, answer>>
    BY <1>0, <1>1, <1>12 DEF rvars
  <2> QED BY <2>1
<1>13. ASSUME RegistryNext PROVE [AbstractMap!Next]_<<Map, asked, answer>>
  <2>1. CASE \E k \in Value : GetObject(k) \/ GetOriginalKey(k) \/ Registry_remove(k)
    BY <1>2, <1>3, <1>6, <2>1 DEF AbstractMap!Next
  <2>2. CASE \E k \in Value, x \in Object : Registry_add(k, x) \/ Registry_replace_value(k, x)
    BY <1>5, <1>7, <2>2 DEF AbstractMap!Next
  <2>3. CASE \E n \in Hints : Registry_size_hint(n)
    BY <1>10, <2>3
  <2>4. CASE Registry_create \/ Registry_destroy \/ Registry_fetch_contents
    BY <1>9, <1>11, <2>4
  <2> QED BY <1>13, <2>1, <2>2, <2>3, <2>4 DEF RegistryNext
<1> QED BY <1>12, <1>13

(* Whatever the comparison, the hashes, the sizes of the table and the     *)
(* order of the operations, a caller of registry.c sees the map registry.h *)
(* describes: every call has the effect and the answer Dictionary gives    *)
(* for its name, its key and its object.                                   *)
THEOREM DictionaryRefined == RegistrySpec => ImplementsDictionary
<1>1. RegistryInit => RegistryInv
  BY RegistryStarts
<1>2. RegistryInit => AbstractMap!Init
  <2> SUFFICES ASSUME RegistryInit PROVE AbstractMap!Init
    OBVIOUS
  <2>1. Map = [c \in Classes |-> {}]
    BY <1>1, NotCreated, MapOfTable DEF StandsFor, MapOf, RegistryInit, Created
  <2> QED BY <2>1 DEF AbstractMap!Init, AbstractMap!Empty, AbstractMap!Classes, Map, Classes, RegistryInit
<1>3. RegistryInv /\ [RegistryNext]_rvars => RegistryInv' /\ [AbstractMap!Next]_<<Map, asked, answer>>
  BY NextRegistry, NextDictionary
<1>4. [AbstractMap!Next]_<<Map, asked, answer>> => [AbstractMap!Next]_<<[c \in {Class[k] : k \in Value} |-> Associated(c)], asked, answer>>
  BY DEF Map, Classes
<1> QED BY <1>1, <1>2, <1>3, <1>4, PTL DEF RegistrySpec, ImplementsDictionary, AbstractMap!Spec

-----------------------------------------------------------------------------
(* The tagger: words and tags                                              *)

(* Characters and tags.  No prover knows of the tagger's own that they are strings. *)
Symbols == STRING \union {"", "/", "STAART", "CD", "NN", "NNP"}

Slash(token) == SelectLastInSeq(token, LAMBDA c : c = "/")

(* The last slash of a token is one, and no other is behind it.            *)
LEMMA LastSlash ==
  ASSUME NEW token \in Seq(Symbols), NEW k \in 1..Len(token), token[k] = "/"
  PROVE  /\ Slash(token) \in 1..Len(token) /\ token[Slash(token)] = "/"
         /\ \A i \in 1..Len(token) : token[i] = "/" => i <= Slash(token)
<1> DEFINE I == {i \in 1..Len(token) : token[i] = "/"}
<1>1. Slash(token) = Max(I)
  BY DEF Slash, SelectLastInSeq
<1>2. Len(token) \in Nat /\ I \in SUBSET (1..Len(token)) /\ I # {}
  BY LenProperties
<1>3. Max(I) \in I /\ \A y \in I : y <= Max(I)
  <2> HIDE DEF I
  <2> QED BY <1>2, Greatest
<1> QED BY <1>1, <1>3

(* What becomes of a token: it is split at its last slash.                 *)
Tagging == [word : Seq(Symbols), tag : Symbols, own : BOOLEAN]

(* A token with a slash is split into a word and a tag.                    *)
LEMMA EnteredTyped ==
  ASSUME NEW token \in Seq(Symbols \ {"STAART"}), NEW k \in 1..Len(token), token[k] = "/"
  PROVE  Entered(token) \in Tagging /\ Entered(token).own /\ Entered(token).tag # "STAART"
<1>1. token \in Seq(Symbols) /\ Len(token) \in Nat
  BY SeqMonotonic, LenProperties
<1> DEFINE s == Slash(token)
<1>2. s \in 1..Len(token)
  BY <1>1, LastSlash
<1>3. Entered(token) = [word |-> SubSeq(token, 1, s - 1),
                        tag |-> IF s = Len(token) THEN "" ELSE token[s + 1], own |-> TRUE]
  BY DEF Entered, Slash
<1> HIDE DEF s
<1>4. SubSeq(token, 1, s - 1) \in Seq(Symbols)
  BY <1>1, <1>2, SubSeqProperties
<1>5. s # Len(token) => token[s + 1] \in Symbols \ {"STAART"}
  <2>1. s # Len(token) => s + 1 \in 1..Len(token)
    BY <1>1, <1>2
  <2> QED BY <2>1, ElementOfSeq
<1> DEFINE t == IF s = Len(token) THEN "" ELSE token[s + 1]
           w == SubSeq(token, 1, s - 1)
<1>6. t \in Symbols /\ t # "STAART"
  BY <1>5 DEF Symbols
<1>7. Entered(token) = [word |-> w, tag |-> t, own |-> TRUE]
  BY <1>3
<1> HIDE DEF t, w
<1>8. w \in Seq(Symbols)
  BY <1>4 DEF w
<1> QED BY <1>6, <1>7, <1>8 DEF Tagging

(* A word and its tag behind a slash are split into that word and that tag.*)
LEMMA EnteredPair ==
  ASSUME NEW word \in Seq(Symbols), NEW mark \in Symbols, mark # "/"
  PROVE  Entered(word \o <<"/", mark>>) = [word |-> word, tag |-> mark, own |-> TRUE]
<1> DEFINE token == word \o <<"/", mark>>
           n == Len(word)
           s == Slash(token)
<1>1. /\ n \in Nat /\ token \in Seq(Symbols) /\ Len(token) = n + 2
      /\ \A i \in 1..n : token[i] = word[i]
      /\ token[n + 1] = "/" /\ token[n + 2] = mark
  <2> DEFINE e == <<"/", mark>>
  <2>1. e \in Seq(Symbols) /\ Len(e) = 2 /\ e[1] = "/" /\ e[2] = mark
    <3>1. "/" \in Symbols
      BY DEF Symbols
    <3>2. e = [i \in 1..2 |-> IF i = 1 THEN "/" ELSE mark]
      OBVIOUS
    <3> QED BY <3>1, <3>2
  <2> HIDE DEF e
  <2>2. n \in Nat
    BY LenProperties
  <2>3. /\ word \o e \in Seq(Symbols) /\ n \in Nat /\ Len(word \o e) = n + 2
        /\ \A i \in 1..(n + 2) : (word \o e)[i] = IF i <= n THEN word[i] ELSE e[i - n]
    <3>1. /\ word \o e \in Seq(Symbols) /\ Len(word \o e) = Len(word) + Len(e)
          /\ \A i \in 1..(Len(word) + Len(e)) : (word \o e)[i] = IF i <= Len(word) THEN word[i] ELSE e[i - Len(word)]
      BY <2>1, ConcatProperties
    <3> QED BY <2>1, <2>2, <3>1
  <2>4. /\ \A i \in 1..n : i \in 1..(n + 2) /\ i <= n
        /\ n + 1 \in 1..(n + 2) /\ n + 2 \in 1..(n + 2) /\ ~(n + 1 <= n) /\ ~(n + 2 <= n)
        /\ (n + 1) - n = 1 /\ (n + 2) - n = 2
    BY <2>3
  <2>5. token = word \o e
    BY DEF e
  <2> HIDE DEF token
  <2> QED BY <2>1, <2>3, <2>4, <2>5
<1> HIDE DEF token
<1>2. s = n + 1
  <2>1. n + 1 \in 1..Len(token)
    BY <1>1
  <2>2. s \in 1..(n + 2) /\ token[s] = "/" /\ n + 1 <= s
    BY <1>1, <2>1, LastSlash
  <2> HIDE DEF s
  <2> QED BY <1>1, <2>2
<1>3. Entered(token) = [word |-> SubSeq(token, 1, s - 1),
                        tag |-> IF s = Len(token) THEN "" ELSE token[s + 1], own |-> TRUE]
  BY DEF Entered, Slash
<1> HIDE DEF s
<1>4. SubSeq(token, 1, n) = word
  <2>1. /\ SubSeq(token, 1, n) \in Seq(Symbols) /\ Len(SubSeq(token, 1, n)) = n
        /\ \A i \in 1..n : SubSeq(token, 1, n)[i] = token[i]
    BY <1>1, SubSeqProperties
  <2> QED BY <1>1, <2>1, SeqEqual
<1>5. s - 1 = n /\ s # Len(token) /\ token[s + 1] = mark
  BY <1>1, <1>2
<1> QED BY <1>3, <1>4, <1>5 DEF token

(* The files.                                                              *)
LEMMA Files ==
  ASSUME NEW d \in DataFiles
  PROVE  /\ d.lexicon \in Seq([word : Seq(STRING), lemma : Seq(STRING), tags : Seq(Tags) \ {<<>>}])
         /\ Len(d.lexicon) \in Nat /\ DOMAIN d.lexicon = 1..Len(d.lexicon)
         /\ d.bigrams \in Seq(PlainWords \X PlainWords)
         /\ d.lexical \in Seq([op : STRING, f : BOOLEAN, arg : Seq(STRING), old : Tags, new : Tags])
         /\ Len(d.lexical) \in Nat /\ DOMAIN d.lexical = 1..Len(d.lexical)
         /\ \A i \in 1..Len(d.contextual) : d.contextual[i].old \in Tags /\ d.contextual[i].new \in Tags
BY LemmatizerAssumption, LenProperties

(* The first line of a word that is in the lexicon, and its likeliest tag. *)
LEMMA FirstLine ==
  ASSUME NEW d \in DataFiles, NEW word, Known(d, word)
  PROVE  /\ lexicon_hash(d, word) \in Tags
         /\ \E i \in DOMAIN d.lexicon : /\ d.lexicon[i].word = word
                                        /\ d.lexicon[i].tags # <<>>
                                        /\ lexicon_hash(d, word) = d.lexicon[i].tags[1]
<1> DEFINE W == WordsOf(d.lexicon)
           I == {i \in 1..Len(W) : W[i] = word}
           m == Min(I)
<1>1. Len(W) = Len(d.lexicon) /\ \A i \in 1..Len(d.lexicon) : W[i] = d.lexicon[i].word
  BY Files DEF WordsOf
<1>2. I # {} /\ I \in SUBSET Nat /\ I \in SUBSET (1..Len(d.lexicon))
  <2>1. Len(d.lexicon) \in Nat
    BY Files
  <2>2. PICK i \in 1..Len(d.lexicon) : d.lexicon[i].word = word
    BY Files DEF Known
  <2>3. i \in I
    BY <1>1, <2>2
  <2> QED BY <1>1, <2>3, <2>1
<1>3. IndexIn(W, word) = m
  BY <1>2 DEF IndexIn, SelectInSeq
<1>4. m \in I
  <2> HIDE DEF I
  <2> QED BY <1>2, Least
<1>5. m \in 1..Len(d.lexicon) /\ d.lexicon[m].word = word
  BY <1>1, <1>4
<1> HIDE DEF m, I, W
<1>6. Entry(d, word) = d.lexicon[m]
  BY <1>3 DEF W, Entry
<1>7. d.lexicon[m] \in [word : Seq(STRING), lemma : Seq(STRING), tags : Seq(Tags) \ {<<>>}]
  BY <1>5, Files, ElementOfSeq
<1>8. /\ lexicon_hash(d, word) = Head(d.lexicon[m].tags)
      /\ d.lexicon[m].tags \in Seq(Tags) /\ d.lexicon[m].tags # <<>>
  BY <1>6, <1>7 DEF lexicon_hash
<1>9. Head(d.lexicon[m].tags) = d.lexicon[m].tags[1] /\ Head(d.lexicon[m].tags) \in Tags
  BY <1>8, HeadTailProperties
<1> QED BY <1>5, <1>8, <1>9, Files

(* Tags a word may have.                                                   *)
WordTags == Symbols \ {"STAART", "/"}

(* The tags of the files are tags of words, and words are made of symbols. *)
LEMMA SymbolsAre ==
  /\ Tags \subseteq WordTags /\ WordTags \subseteq Symbols
  /\ \A w \in PlainWords : w \in Seq(Symbols \ {"STAART"}) /\ w \in Seq(Symbols)
<1>1. Tags \subseteq WordTags /\ WordTags \subseteq Symbols
  BY DEF Tags, WordTags, Symbols
<1>2. STRING \ {"STAART"} \subseteq Symbols \ {"STAART"} /\ STRING \ {"STAART"} \subseteq Symbols
  BY DEF Symbols
<1> QED BY <1>1, <1>2, SeqMonotonic DEF PlainWords

(* So are the tags unknown words start with.                               *)
LEMMA StartTagIs == \A word : StartTag(word) \in WordTags
BY DEF StartTag, WordTags, Symbols

(* A word comes out of the start state tagger with its tag, and the final  *)
(* state tagger splits it there; a pretagged word keeps its own.           *)
LEMMA StartStates ==
  ASSUME NEW word \in PlainWords, data \in DataFiles, ~Known(data, word) => tag_array[word].tag \in WordTags
  PROVE  /\ Entered(StartState(word)) \in Tagging /\ Entered(StartState(word)).own
         /\ Entered(StartState(word)).tag # "STAART"
         /\ ~Pretagged(word) =>
              Entered(StartState(word)) =
                [word |-> word, own |-> TRUE,
                 tag |-> IF Known(data, word) THEN lexicon_hash(data, word) ELSE tag_array[word].tag]
<1>1. CASE Pretagged(word)
  <2>1. StartState(word) = word
    BY <1>1 DEF StartState
  <2>2. word \in Seq(Symbols \ {"STAART"}) /\ Len(word) \in Nat
    BY SymbolsAre, LenProperties
  <2> DEFINE k == IndexIn(word, "/") + 1
  <2>3. k \in 1..Len(word) /\ word[k] = "/"
    BY <1>1, <2>2 DEF Pretagged
  <2> HIDE DEF k
  <2> QED BY <1>1, <2>1, <2>2, <2>3, EnteredTyped
<1>2. CASE ~Pretagged(word)
  <2> DEFINE mark == IF Known(data, word) THEN lexicon_hash(data, word) ELSE tag_array[word].tag
  <2>1. StartState(word) = word \o <<"/", mark>>
    BY <1>2 DEF StartState
  <2>2. mark \in WordTags
    BY FirstLine, SymbolsAre
  <2> HIDE DEF mark
  <2>3. word \in Seq(Symbols) /\ mark \in Symbols /\ mark # "/" /\ mark # "STAART"
    BY <2>2, SymbolsAre DEF WordTags
  <2>4. Entered(StartState(word)) = [word |-> word, tag |-> mark, own |-> TRUE]
    BY <2>1, <2>3, EnteredPair
  <2> QED BY <2>3, <2>4 DEF Tagging, mark
<1> QED BY <1>1, <1>2

(* What a contextual rule may do to a text: it leaves the words, and gives *)
(* its tag to some that have the tag it replaces, if it is permitted to.   *)
Retagged(old, new, r) ==
  \A j \in DOMAIN old :
    /\ new[j].word = old[j].word
    /\ old[j].own => new[j].own
    /\ \/ new[j].tag = old[j].tag
       \/ new[j].tag = r.new /\ old[j].tag = r.old /\ Permitted(data, old[j].word, r.new)

(* One change of a tag is one the rule may make.                           *)
LEMMA StepRetags ==
  ASSUME NEW m \in Nat, NEW old \in [1..m -> Tagging], NEW mid \in [1..m -> Tagging], NEW r, r.new \in Symbols,
         Retagged(old, mid, r), NEW i \in 1..m, Changes(data, mid, i, r)
  PROVE  /\ change_the_tag(mid, i, r.new) \in [1..m -> Tagging]
         /\ Retagged(old, change_the_tag(mid, i, r.new), r)
<1> DEFINE e == [mid[i] EXCEPT !.tag = r.new, !.own = TRUE]
           new == change_the_tag(mid, i, r.new)
<1>1. mid[i] \in Tagging /\ old[i] \in Tagging
  OBVIOUS
<1>2. e \in Tagging /\ e.word = mid[i].word /\ e.tag = r.new /\ e.own
  BY <1>1 DEF Tagging
<1>3. new = [mid EXCEPT ![i] = e]
  BY DEF change_the_tag
<1> HIDE DEF e, new
<1>4. new \in [1..m -> Tagging] /\ new[i] = e /\ \A j \in 1..m : j # i => new[j] = mid[j]
  BY <1>2, <1>3
<1>5. mid[i].tag = r.old /\ Permitted(data, mid[i].word, r.new)
  BY DEF Changes
<1>6. mid[i].word = old[i].word /\ (old[i].tag = r.old \/ mid[i].tag = old[i].tag)
  BY DEF Retagged
<1>7. \A j \in 1..m : j = i \/ j # i
  OBVIOUS
<1>8. DOMAIN old = 1..m
  OBVIOUS
<1>9. ASSUME NEW j \in 1..m
      PROVE  /\ new[j].word = old[j].word
             /\ old[j].own => new[j].own
             /\ \/ new[j].tag = old[j].tag
                \/ new[j].tag = r.new /\ old[j].tag = r.old /\ Permitted(data, old[j].word, r.new)
  <2>1. CASE j = i
    BY <1>2, <1>4, <1>5, <1>6, <2>1
  <2>2. CASE j # i
    BY <1>4, <1>8, <2>2 DEF Retagged
  <2> QED BY <2>1, <2>2
<1> QED BY <1>4, <1>8, <1>9 DEF Retagged, new

(* The pass of a rule over the text makes no others.                       *)
LEMMA RuleRetags ==
  ASSUME ContextualRule, NEW m \in Nat, tagged \in [1..m -> Tagging],
         data.contextual[rule].new \in Symbols
  PROVE  tagged' \in [1..m -> Tagging] /\ Retagged(tagged, tagged', data.contextual[rule])
<1> DEFINE r == data.contextual[rule]
           step(seq, i) == IF Changes(data, seq, i, r) THEN change_the_tag(seq, i, r.new) ELSE seq
           S == {seq \in [1..m -> Tagging] : Retagged(tagged, seq, r)}
           f == [k \in 1..m |-> [x \in S |-> step(x, k)]]
           term(g, i) == IF i = 0 THEN tagged ELSE step(g[i - 1], i)
           Is(g) == g = [i \in 0..m |-> term(g, i)]
<1>1. Len(tagged) = m /\ tagged \in S
  BY DEF Retagged
<1>2. ASSUME NEW seq \in S, NEW i \in 1..m PROVE step(seq, i) \in S
  BY StepRetags
<1>3. f \in [1..m -> [S -> S]]
  <2> HIDE DEF S, step
  <2> QED BY <1>2
<1>4. PICK g : Passes(g, m, S, tagged, f)
  <2> HIDE DEF S, f
  <2> QED BY <1>1, <1>3, Loop
<1>5. g \in [0..m -> S] /\ g[0] = tagged /\ \A k \in 1..m : g[k] = f[k][g[k - 1]]
  <2> HIDE DEF S, f
  <2> QED BY <1>4 DEF Passes
<1>6. \A k \in 1..m : g[k] = step(g[k - 1], k)
  <2> SUFFICES ASSUME NEW k \in 1..m PROVE g[k] = step(g[k - 1], k)
    OBVIOUS
  <2>1. k - 1 \in 0..m
    OBVIOUS
  <2>2. g[k - 1] \in S
    BY <1>5, <2>1
  <2> HIDE DEF S, step
  <2> QED BY <1>5, <2>2
<1>7. Is(g)
  <2>1. \A i \in 0..m : i = 0 \/ i \in 1..m
    OBVIOUS
  <2>2. \A i \in 0..m : g[i] = term(g, i)
    <3> HIDE DEF step, S
    <3> QED BY <1>5, <1>6, <2>1
  <2> HIDE DEF term, S
  <2> QED BY <1>5, <2>2
<1> DEFINE pass == CHOOSE h : Is(h)
<1>8. Is(pass)
  <2> HIDE DEF Is
  <2> QED BY <1>7
<1>9. tagged' = pass[m]
  BY <1>1 DEF ContextualRule
<1> HIDE DEF pass
<1>10. /\ pass[0] = tagged
      /\ \A k \in 1..m : k - 1 \in 0..m /\ pass[k] = step(pass[k - 1], k)
  <2>1. \A i \in 0..m : pass[i] = term(pass, i)
    <3> HIDE DEF term
    <3> QED BY <1>8
  <2>2. 0 \in 0..m /\ \A k \in 1..m : k \in 0..m /\ k # 0 /\ k - 1 \in 0..m
    OBVIOUS
  <2> HIDE DEF step
  <2> QED BY <2>1, <2>2
<1> DEFINE P == {k \in 0..m : pass[k] \in S}
<1>11. \A k \in 0..m : k \in P
  <2>1. P \in SUBSET (0..m) /\ 0 \in P
    BY <1>1, <1>10
  <2>2. ASSUME NEW k \in 1..m, k - 1 \in P PROVE k \in P
    <3>1. pass[k - 1] \in S /\ k \in 0..m
      BY <2>2
    <3> HIDE DEF S, step
    <3> QED BY <1>2, <1>10, <3>1
  <2> HIDE DEF P
  <2> QED BY <2>1, <2>2, AlongLoop
<1>12. pass[m] \in S
  BY <1>11
<1> QED BY <1>9, <1>12

-----------------------------------------------------------------------------
(* The text through a call of tag()                                        *)

TextLength == IF corpus = <<>> THEN 0 ELSE Len(corpus) + 2

(* What a text is made of, in each step of a call; the marks of its start   *)
(* stay the first two, and the only ones.                                   *)
Text ==
  /\ data \in DataFiles
  /\ corpus \in Seq(PlainWords)
  /\ rule \in Nat \ {0}
  /\ phase = "lexical" =>
       DOMAIN tag_array = UnknownWords /\ \A w \in UnknownWords : tag_array[w].tag \in WordTags
  /\ phase = "contextual" =>
       /\ tagged \in [1..TextLength -> Tagging]
       /\ \A i \in 1..TextLength : tagged[i].tag = "STAART" <=> i <= 2

(* Before the first call there is no text.                                 *)
LEMMA TextStarts == Init => Text
BY DEF Init, Text

(* A start tag or that of a rule.                                           *)
LEMMA FiredTags ==
  ASSUME Text, LexicalRule
  PROVE  DOMAIN tag_array' = UnknownWords /\ \A w \in UnknownWords : tag_array'[w].tag \in WordTags
<1> DEFINE r == data.lexical[rule]
<1>1. rule \in 1..Len(data.lexical) /\ data \in DataFiles /\ phase = "lexical"
  BY Files DEF Text, LexicalRule
<1>2. r.new \in WordTags
  <2>1. data.lexical[rule] \in [op : STRING, f : BOOLEAN, arg : Seq(STRING), old : Tags, new : Tags]
    BY <1>1, Files, ElementOfSeq
  <2>2. r.new \in Tags
    BY <2>1
  <2> HIDE DEF r
  <2> QED BY <2>2, SymbolsAre
<1>3. tag_array' = [w \in DOMAIN tag_array |->
                      IF w \in Fired(r) THEN [tag |-> r.new, block |-> Field(rule, "tag")] ELSE tag_array[w]]
  BY DEF LexicalRule, SetTagVal
<1> HIDE DEF r
<1> QED BY <1>1, <1>2, <1>3 DEF Text

(* The final state tagger starts with two marks and a tag for each word.   *)
LEMMA CorpusTagged ==
  ASSUME Text, OutputTags
  PROVE  /\ tagged' \in [1..TextLength -> Tagging]
         /\ \A i \in 1..TextLength : tagged'[i].tag = "STAART" <=> i <= 2
         /\ \A i \in DOMAIN corpus : tagged'[i + 2] = Entered(StartState(corpus[i]))
         /\ \A i \in 1..TextLength : tagged'[i].own <=> i > 2
<1>1. CASE corpus = <<>>
  <2>1. tagged' = <<>> /\ TextLength = 0 /\ DOMAIN corpus = {}
    BY <1>1 DEF OutputTags, TextLength
  <2> QED BY <2>1
<1>2. CASE corpus # <<>>
  <2> DEFINE n == Len(corpus)
  <2>1. n \in Nat /\ DOMAIN corpus = 1..n /\ TextLength = n + 2
    BY <1>2, LenProperties DEF Text, TextLength
  <2>2. ASSUME NEW i \in 1..n
        PROVE  LET e == Entered(StartState(corpus[i])) IN e \in Tagging /\ e.tag # "STAART" /\ e.own
    <3>1. corpus[i] \in PlainWords
      BY <2>1, ElementOfSeq DEF Text
    <3>2. ~Known(data, corpus[i]) => corpus[i] \in UnknownWords
      BY <2>1 DEF UnknownWords, ToSet
    <3> QED BY <3>1, <3>2, StartStates DEF Text, OutputTags
  <2> DEFINE e == CorpusEntries
  <2>3. e = [i \in 1..n |-> Entered(StartState(corpus[i]))]
    BY <2>1 DEF CorpusEntries
  <2>4. e \in [1..n -> Tagging] /\ Len(e) = n /\ e \in Seq(Tagging)
    BY <2>1, <2>2, <2>3
  <2>5. tagged' = <<Start, Start>> \o e
    BY <1>2 DEF OutputTags
  <2> HIDE DEF e
  <2>6. Start \in Tagging /\ Start.tag = "STAART" /\ ~Start.own
    <3>1. staart \in Seq(Symbols) /\ "STAART" \in Symbols
      BY DEF staart, Symbols
    <3> QED BY <3>1 DEF Start, Tagging
  <2> DEFINE s == <<Start, Start>>
  <2>7. s \in Seq(Tagging) /\ Len(s) = 2 /\ s[1] = Start /\ s[2] = Start
    <3> HIDE DEF s
    <3>1. s = [i \in 1..2 |-> Start]
      BY DEF s
    <3> QED BY <2>6, <3>1
  <2> HIDE DEF s
  <2>8. /\ s \o e \in Seq(Tagging) /\ Len(s \o e) = 2 + n
        /\ \A i \in 1..(2 + n) : (s \o e)[i] = IF i <= 2 THEN s[i] ELSE e[i - 2]
    <3> HIDE DEF n
    <3>1. s \in Seq(Tagging) /\ e \in Seq(Tagging)
      BY <2>4, <2>7
    <3>2. /\ s \o e \in Seq(Tagging) /\ Len(s \o e) = Len(s) + Len(e)
          /\ \A i \in 1..(Len(s) + Len(e)) : (s \o e)[i] = IF i <= Len(s) THEN s[i] ELSE e[i - Len(s)]
      BY <3>1, ConcatProperties
    <3> QED BY <2>4, <2>7, <3>2
  <2>9. tagged' = s \o e
    BY <2>5 DEF s
  <2>10. tagged' \in [1..(n + 2) -> Tagging]
    <3> DEFINE seq == s \o e
    <3>1. seq \in Seq(Tagging) /\ Len(seq) = n + 2
      BY <2>1, <2>8
    <3> HIDE DEF seq
    <3>2. seq \in [1..Len(seq) -> Tagging]
      BY <3>1, LenProperties
    <3> QED BY <2>9, <3>1, <3>2 DEF seq
  <2>11. ASSUME NEW i \in 1..(n + 2)
         PROVE  (tagged'[i].tag = "STAART" <=> i <= 2) /\ (tagged'[i].own <=> i > 2)
    <3>1. CASE i <= 2
      <4>1. i = 1 \/ i = 2
        BY <3>1
      <4> QED BY <2>1, <2>6, <2>7, <2>8, <2>9, <3>1, <4>1
    <3>2. CASE i > 2
      <4>1. i - 2 \in 1..n /\ i \in 1..(2 + n)
        BY <2>1, <3>2
      <4> QED BY <2>1, <2>2, <2>3, <2>8, <2>9, <3>2, <4>1
    <3> QED BY <2>1, <3>1, <3>2
  <2>12. ASSUME NEW i \in 1..n PROVE tagged'[i + 2] = Entered(StartState(corpus[i]))
    <3>1. i + 2 \in 1..(2 + n) /\ (i + 2) - 2 = i /\ ~(i + 2 <= 2)
      BY <2>1
    <3> QED BY <2>3, <2>8, <2>9, <3>1
  <2> QED BY <2>1, <2>10, <2>11, <2>12
<1> QED BY <1>1, <1>2

(* A contextual rule leaves the marks alone and makes no new ones.         *)
LEMMA RuleApplied ==
  ASSUME Text, ContextualRule
  PROVE  /\ tagged' \in [1..TextLength -> Tagging]
         /\ Retagged(tagged, tagged', data.contextual[rule])
         /\ \A i \in 1..TextLength : tagged'[i].tag = "STAART" <=> i <= 2
<1> DEFINE r == data.contextual[rule]
<1>1. rule \in 1..Len(data.contextual) /\ data \in DataFiles /\ phase = "contextual"
  BY LemmatizerAssumption DEF Text, ContextualRule
<1>2. r.new \in WordTags /\ r.old \in WordTags /\ r.new \in Symbols
  BY <1>1, Files, SymbolsAre
<1>3. TextLength \in Nat /\ tagged \in [1..TextLength -> Tagging]
  BY <1>1, LenProperties DEF Text, TextLength
<1>4. tagged' \in [1..TextLength -> Tagging] /\ Retagged(tagged, tagged', r)
  BY <1>2, <1>3, RuleRetags
<1>5. ASSUME NEW i \in 1..TextLength PROVE tagged'[i].tag = "STAART" <=> i <= 2
  <2>1. i \in DOMAIN tagged /\ (tagged[i].tag = "STAART" <=> i <= 2)
    BY <1>1, <1>3 DEF Text
  <2>2. \/ tagged'[i].tag = tagged[i].tag
        \/ tagged'[i].tag = r.new /\ tagged[i].tag = r.old
    BY <1>4, <2>1 DEF Retagged
  <2> HIDE DEF r
  <2> QED BY <1>2, <2>1, <2>2 DEF WordTags
<1> QED BY <1>4, <1>5

(* Every step keeps that.                                                  *)
LEMMA TextStep ==
  ASSUME Text, [Next]_vars
  PROVE  Text'
<1>1. ASSUME NEW op \in Operators, Construct(op) \/ OpenFile(op) \/ OpenFails(op) \/ Load(op) \/ destroy_tagger(op)
      PROVE Text'
  <2>1. UNCHANGED <<data, callVars>>
    BY <1>1 DEF Construct, OpenFile, OpenFails, Load, destroy_tagger
  <2>2. phase' \notin {"lexical", "contextual"} \/ phase' = phase
    BY <1>1 DEF Construct, OpenFile, OpenFails, Load, destroy_tagger
  <2>3. TextLength' = TextLength /\ UnknownWords' = UnknownWords
    BY <2>1 DEF callVars, TextLength, UnknownWords, Known
  <2> QED BY <2>1, <2>2, <2>3 DEF Text, callVars
<1>2. ASSUME NEW op \in Operators, Tag(op) PROVE Text'
  <2>1. PICK n \in 0..MaxWords : corpus' \in [1..n -> Vocabulary]
    BY <1>2 DEF Tag
  <2>2. corpus' \in Seq(PlainWords)
    BY <2>1, LemmatizerAssumption
  <2> QED BY <1>2, <2>2 DEF Text, Tag
<1>3. CASE AllConstructed \/ StopProcessing
  BY <1>3 DEF Text, AllConstructed, StopProcessing, dataVars, callVars
<1>4. CASE ReadCorpus
  BY <1>4 DEF Text, ReadCorpus, dataVars
<1>5. CASE StartTags
  <2>1. tag_array' = [w \in UnknownWords |-> [tag |-> StartTag(w), block |-> <<>>]]
    BY <1>5 DEF StartTags
  <2>2. UnknownWords' = UnknownWords
    BY <1>5 DEF StartTags, dataVars, UnknownWords, Known
  <2>3. DOMAIN tag_array' = UnknownWords' /\ \A w \in UnknownWords' : tag_array'[w].tag \in WordTags
    BY <2>1, <2>2, StartTagIs
  <2>4. phase' = "lexical" /\ rule' = 1 /\ corpus' = corpus /\ data' = data
    BY <1>5 DEF StartTags, dataVars
  <2> QED BY <2>3, <2>4 DEF Text
<1>6. CASE LexicalRule
  <2>1. phase' = "lexical" /\ rule' = rule + 1 /\ corpus' = corpus /\ data' = data
    BY <1>6 DEF LexicalRule, dataVars
  <2>2. UnknownWords' = UnknownWords
    BY <2>1 DEF UnknownWords, Known
  <2>3. DOMAIN tag_array' = UnknownWords' /\ \A w \in UnknownWords' : tag_array'[w].tag \in WordTags
    BY <1>6, <2>2, FiredTags
  <2> QED BY <2>1, <2>3 DEF Text
<1>7. CASE OutputTags
  <2>1. phase' = "contextual" /\ rule' = 1 /\ corpus' = corpus /\ data' = data
    BY <1>7 DEF OutputTags, dataVars
  <2>2. TextLength' = TextLength
    BY <2>1 DEF TextLength
  <2> QED BY <1>7, <2>1, <2>2, CorpusTagged DEF Text
<1>8. CASE ContextualRule
  <2>1. phase' = "contextual" /\ rule' = rule + 1 /\ corpus' = corpus /\ data' = data
    BY <1>8 DEF ContextualRule, dataVars
  <2>2. TextLength' = TextLength
    BY <2>1 DEF TextLength
  <2> QED BY <1>8, <2>1, <2>2, RuleApplied DEF Text
<1>9. CASE PrintTags
  BY <1>9 DEF Text, PrintTags, dataVars
<1>10. CASE UNCHANGED vars
  <2>1. UNCHANGED <<data, callVars, phase>>
    BY <1>10 DEF vars, dataVars
  <2>2. TextLength' = TextLength /\ UnknownWords' = UnknownWords
    BY <2>1 DEF callVars, TextLength, UnknownWords, Known
  <2> QED BY <2>1, <2>2 DEF Text, callVars
<1> QED BY <1>1, <1>2, <1>3, <1>4, <1>5, <1>6, <1>7, <1>8, <1>9, <1>10 DEF Next

-----------------------------------------------------------------------------
(* The blocks of one operator                                              *)

(* A processing element with one Lemmatizer: with two the code does release *)
(* blocks twice.                                                            *)
OneOperator == \A a, b \in Operators : a = b

Calling == {"read", "filed", "lexical", "contextual"}

(* The steps of the processing element and of its operators: the data is    *)
(* loaded at most once, before texts are tagged, and thrown away after that. *)
Control ==
  /\ phase \in {"constructing", "running", "destroying", "crashed"} \union Calling
  /\ operator \in [Operators -> {"new", "opening", "ready", "failed", "gone"}]
  /\ generation \in {0, 1} /\ (generation = 1 => Operators # {})
  /\ phase \in Calling => generation = 1
  /\ \A op \in Operators :
       /\ operator[op] \in {"new", "opening"} => phase = "constructing" /\ generation = 0
       /\ operator[op] = "gone" => phase \in {"destroying", "crashed"}
  /\ open # <<>> => \E op \in Operators : operator[op] = "opening"

(* The blocks of the loaded data, and those of the text at work.            *)
LoadedBlocks ==
  IF generation = 0 \/ \E op \in Operators : operator[op] = "gone" THEN {} ELSE Uses(generation)

FirstStage  == WordBlocks(Assigned) \union BigramBlocks(bigram_hash)
SecondStage == TagBlocks(tagged) \union CopyBlocks(Len(tagged))

TextBlocks ==
  IF phase = "filed" THEN FirstStage
  ELSE IF phase = "lexical" THEN FirstStage \union ToSet(freeptrs)
  ELSE IF phase = "contextual" THEN SecondStage ELSE {}

(* The tags handed to words come from rules that have been applied.         *)
Handed ==
  phase = "lexical" =>
    /\ freeptrs \in Seq({Field(i, "tag") : i \in 1..(rule - 1)})
    /\ \A w \in DOMAIN tag_array : tag_array[w].block \in {<<>>} \union ToSet(freeptrs)

Account == heap = LoadedBlocks \union TextBlocks

(* The kinds of blocks are told apart by their names.                       *)
LEMMA LoadedKind == \A g : \A b \in Uses(g) : b[1] \in {"entry", "part"}
BY DEF Uses, StoredEntries, Entries, Structures

(* So are those of the text.                                               *)
LEMMA TextKinds ==
  /\ \A js : \A b \in WordBlocks(js) : b[1] = "word"
  /\ \A s : \A b \in BigramBlocks(s) : b[1] = "bigram"
  /\ \A s : \A b \in TagBlocks(s) : b[1] = "tag"
  /\ \A n : \A b \in CopyBlocks(n) : b[1] = "copy"
  /\ \A i : \A b \in Fields(i) : b[1] = "rule"
BY DEF WordBlocks, BigramBlocks, TagBlocks, CopyBlocks, Fields, Field

(* Before anything is constructed nothing is loaded.                       *)
LEMMA ControlStarts == Init => Control
BY DEF Init, Control, Calling

(* With one operator every step keeps that.                                *)
LEMMA ControlStep ==
  ASSUME OneOperator, Control, [Next]_vars
  PROVE  Control'
<1> USE DEF Control, Calling
<1>1. ASSUME NEW op \in Operators, Construct(op) PROVE Control'
  BY <1>1 DEF Construct, callVars
<1>2. ASSUME NEW op \in Operators, OpenFile(op) PROVE Control'
  BY <1>2 DEF OpenFile, Opens, callVars
<1>3. ASSUME NEW op \in Operators, OpenFails(op) PROVE Control'
  BY <1>3 DEF OpenFails, Opens, callVars
<1>4. ASSUME NEW op \in Operators, Load(op) PROVE Control'
  BY <1>4, OneOperator DEF Load, callVars, OneOperator
<1>5. ASSUME NEW op \in Operators, Tag(op) PROVE Control'
  BY <1>5 DEF Tag
<1>6. ASSUME NEW op \in Operators, destroy_tagger(op) PROVE Control'
  BY <1>6, OneOperator DEF destroy_tagger, callVars, OneOperator
<1>7. CASE AllConstructed
  BY <1>7 DEF AllConstructed, dataVars, callVars
<1>8. CASE ReadCorpus \/ StartTags \/ LexicalRule \/ OutputTags \/ ContextualRule \/ PrintTags
  BY <1>8 DEF ReadCorpus, StartTags, LexicalRule, OutputTags, ContextualRule, PrintTags, dataVars
<1>9. CASE StopProcessing
  BY <1>9 DEF StopProcessing, dataVars, callVars
<1>10. CASE UNCHANGED vars
  BY <1>10 DEF vars, dataVars
<1> QED BY <1>1, <1>2, <1>3, <1>4, <1>5, <1>6, <1>7, <1>8, <1>9, <1>10 DEF Next

(* A step that uses and frees blocks it has, and gets blocks nobody has,    *)
(* makes no fault.                                                          *)
LEMMA NoFault ==
  ASSUME NEW new, NEW used, NEW freed, Memory(new, used, freed), ~fault,
         used \subseteq heap \union new, freed \subseteq heap \union new, new \intersect heap = {}
  PROVE  ~fault' /\ heap' = (heap \union new) \ freed
BY DEF Memory

(* What is loaded is there during a call, and it stays.                     *)
LEMMA LoadedInCalls ==
  ASSUME Control, phase \in Calling
  PROVE  LoadedBlocks = Uses(generation)
BY DEF Control, LoadedBlocks, Calling

(* It does so in the steps that leave the globals alone.                   *)
LEMMA LoadedStays ==
  ASSUME UNCHANGED dataVars
  PROVE  LoadedBlocks' = LoadedBlocks
BY DEF dataVars, LoadedBlocks, Uses, StoredEntries, Structures, Entries, Stored, Keys, WordsOf,
       SeenKeys, GoodKeys

(* The words of the text whose lines are freed again, and those that stay.  *)
LEMMA AssignedStays ==
  ASSUME UNCHANGED dataVars, UNCHANGED corpus
  PROVE  Assigned' = Assigned /\ Assigned \subseteq DOMAIN corpus
BY DEF dataVars, Assigned, Known, NewLines

(* Loading allocates what destroying will release.                         *)
LEMMA LoadAccounts ==
  ASSUME OneOperator, Control, Account, ~fault, NEW op \in Operators, Load(op)
  PROVE  Account' /\ ~fault'
<1>1. phase = "constructing" /\ generation = 0 /\ phase' = phase /\ generation' = 1
  BY DEF Load, Control
<1>2. heap = {}
  BY <1>1 DEF Account, LoadedBlocks, TextBlocks
<1>3. Memory(Uses(1), {}, {})
  <2>1. Structures(1) \union Entries(1, [p \in Parts |-> Kept(p)]) = Uses(1)
    BY DEF Uses, StoredEntries, Kept, Stored
  <2> QED BY <1>1, <2>1 DEF Load
<1>4. ~fault' /\ heap' = Uses(1)
  BY <1>2, <1>3, NoFault
<1>5. LoadedBlocks' = Uses(1)
  <2>1. \A o \in Operators : operator'[o] = "ready"
    BY OneOperator DEF OneOperator, Load, Control
  <2>2. Uses(1)' = Uses(1)
    BY DEF Load, Uses, StoredEntries, Structures, Entries, Stored, Keys, WordsOf, SeenKeys, GoodKeys
  <2> QED BY <1>1, <2>1, <2>2 DEF LoadedBlocks
<1>6. TextBlocks' = {}
  BY <1>1 DEF TextBlocks
<1> QED BY <1>4, <1>5, <1>6 DEF Account

(* Reading a text allocates its words and its pairs.                       *)
LEMMA ReadAccounts ==
  ASSUME Control, Account, ~fault, ReadCorpus
  PROVE  Account' /\ ~fault'
<1> DEFINE u == Uses(generation)
           all == WordBlocks(DOMAIN corpus)
           dropped == WordBlocks(DOMAIN corpus \ Assigned)
           pairs == BigramBlocks(Surrounding)
<1>1. heap = u /\ LoadedBlocks' = u
  BY LoadedInCalls, LoadedStays DEF ReadCorpus, Account, TextBlocks, Calling
<1>2. Memory(all \union pairs, u, dropped)
  BY DEF ReadCorpus
<1>3. TextBlocks' = WordBlocks(Assigned) \union pairs
  BY AssignedStays DEF ReadCorpus, TextBlocks, FirstStage
<1>4. dropped \subseteq all /\ all \ dropped = WordBlocks(Assigned)
  BY AssignedStays DEF WordBlocks, ReadCorpus
<1>5. /\ \A b \in all : b[1] = "word"
      /\ \A b \in dropped : b[1] = "word"
      /\ \A b \in pairs : b[1] = "bigram"
      /\ \A b \in u : b[1] \in {"entry", "part"}
  BY LoadedKind, TextKinds
<1> HIDE DEF u, all, dropped, pairs
<1>6. (all \union pairs) \intersect heap = {}
  BY <1>1, <1>5
<1>7. ~fault' /\ heap' = (heap \union (all \union pairs)) \ dropped
  BY <1>1, <1>2, <1>4, <1>6, NoFault
<1>8. heap' = u \union (WordBlocks(Assigned) \union pairs)
  BY <1>1, <1>4, <1>5, <1>7
<1> QED BY <1>1, <1>3, <1>7, <1>8 DEF Account

(* The pairs of the file are added to them.                                *)
LEMMA StartAccounts ==
  ASSUME Control, Account, ~fault, StartTags
  PROVE  Account' /\ ~fault' /\ Handed'
<1> DEFINE u == Uses(generation)
           old == BigramBlocks(bigram_hash)
           new == BigramBlocks(FiledBigrams \ bigram_hash)
           words == WordBlocks(Assigned)
<1>1. heap = u \union (words \union old) /\ LoadedBlocks' = u
  BY LoadedInCalls, LoadedStays DEF StartTags, Account, TextBlocks, Calling, FirstStage
<1>2. Memory(new, u, {})
  BY DEF StartTags
<1>3. TextBlocks' = (words \union (old \union new)) \union ToSet(<<>>)
  <2>1. BigramBlocks(bigram_hash') = old \union new
    BY DEF StartTags, BigramBlocks
  <2>2. phase' = "lexical" /\ freeptrs' = <<>> /\ WordBlocks(Assigned)' = words
    BY AssignedStays DEF StartTags, WordBlocks
  <2> HIDE DEF old, new, words
  <2> QED BY <2>1, <2>2 DEF TextBlocks, FirstStage, BigramBlocks
<1>4. new \intersect old = {}
  BY DEF BigramBlocks
<1>5. /\ \A b \in words : b[1] = "word"
      /\ \A b \in old : b[1] = "bigram"
      /\ \A b \in new : b[1] = "bigram"
      /\ \A b \in u : b[1] \in {"entry", "part"}
  BY LoadedKind, TextKinds
<1> HIDE DEF u, old, new, words
<1>6. new \intersect heap = {}
  BY <1>1, <1>4, <1>5
<1>7. ~fault' /\ heap' = (heap \union new) \ {}
  BY <1>1, <1>2, <1>6, NoFault
<1>8. ToSet(<<>>) = {}
  BY DEF ToSet
<1>9. Account'
  BY <1>1, <1>3, <1>7, <1>8 DEF Account
<1>10. Handed'
  BY DEF StartTags, Handed
<1> QED BY <1>7, <1>9, <1>10

(* The elements of two lists that are put behind each other.                *)
LEMMA Joined ==
  ASSUME NEW S, NEW s \in Seq(S), NEW t \in Seq(S)
  PROVE  s \o t \in Seq(S) /\ ToSet(s \o t) = ToSet(s) \union ToSet(t)
<1> DEFINE m == Len(s)
           n == Len(t)
<1>1. /\ m \in Nat /\ n \in Nat /\ DOMAIN s = 1..m /\ DOMAIN t = 1..n
      /\ s \o t \in Seq(S) /\ Len(s \o t) = m + n /\ DOMAIN (s \o t) = 1..(m + n)
      /\ \A i \in 1..(m + n) : (s \o t)[i] = IF i <= m THEN s[i] ELSE t[i - m]
  BY LenProperties, ConcatProperties
<1>2. ASSUME NEW x \in ToSet(s \o t) PROVE x \in ToSet(s) \union ToSet(t)
  <2>1. PICK i \in 1..(m + n) : (s \o t)[i] = x
    BY <1>1 DEF ToSet
  <2>2. i \in 1..m \/ (i - m \in 1..n /\ ~(i <= m))
    BY <1>1
  <2> QED BY <1>1, <2>1, <2>2 DEF ToSet
<1>3. ASSUME NEW x \in ToSet(s) PROVE x \in ToSet(s \o t)
  <2>1. PICK i \in 1..m : s[i] = x
    BY <1>1 DEF ToSet
  <2>2. i \in 1..(m + n) /\ i <= m
    BY <1>1
  <2>3. (s \o t)[i] = x
    BY <1>1, <2>1, <2>2
  <2> QED BY <1>1, <2>2, <2>3 DEF ToSet
<1>4. ASSUME NEW x \in ToSet(t) PROVE x \in ToSet(s \o t)
  <2>1. PICK i \in 1..n : t[i] = x
    BY <1>1 DEF ToSet
  <2>2. m + i \in 1..(m + n) /\ ~(m + i <= m) /\ (m + i) - m = i
    BY <1>1
  <2>3. (s \o t)[m + i] = x
    BY <1>1, <2>1, <2>2
  <2> QED BY <1>1, <2>2, <2>3 DEF ToSet
<1> QED BY <1>1, <1>2, <1>3, <1>4

(* A lexical rule frees its fields, the tag only if no word got it.        *)
LEMMA RuleAccounts ==
  ASSUME Control, Text, Handed, Account, ~fault, LexicalRule
  PROVE  Account' /\ ~fault' /\ Handed'
<1> DEFINE u == Uses(generation)
           words == WordBlocks(Assigned)
           pairs == BigramBlocks(bigram_hash)
           fired == Fired(data.lexical[rule])
           kept == TagKept(fired)
           Handable(n) == {Field(i, "tag") : i \in 1..n}
<1>1. heap = u \union ((words \union pairs) \union ToSet(freeptrs)) /\ LoadedBlocks' = u
  BY LoadedInCalls, LoadedStays DEF LexicalRule, Account, TextBlocks, Calling, FirstStage
<1>2. Memory(Fields(rule), u, Fields(rule) \ ToSet(kept))
  BY DEF LexicalRule
<1>3. rule \in Nat \ {0} /\ phase = "lexical" /\ freeptrs \in Seq(Handable(rule - 1))
  BY DEF Text, LexicalRule, Handed
<1>4. /\ freeptrs \in Seq(Handable(rule)) /\ kept \in Seq(Handable(rule))
      /\ ToSet(kept) \subseteq Fields(rule)
      /\ fired # {} => Field(rule, "tag") \in ToSet(kept)
  <2>1. Handable(rule - 1) \subseteq Handable(rule)
    BY <1>3
  <2>2. Field(rule, "tag") \in Handable(rule) /\ Field(rule, "tag") \in Fields(rule)
    BY <1>3 DEF Fields
  <2>3. kept = <<>> \/ kept = <<Field(rule, "tag")>>
    BY DEF TagKept
  <2>4. kept \in Seq(Handable(rule)) /\ ToSet(kept) \subseteq Fields(rule)
    <3> DEFINE x == Field(rule, "tag")
               H == Handable(rule)
    <3> HIDE DEF kept, x, H
    <3>1. kept = <<>> => kept \in Seq(H) /\ ToSet(kept) = {}
      BY DEF ToSet
    <3>2. kept = <<x>> => kept \in Seq(H) /\ ToSet(kept) = {x}
      <4>1. <<x>> = [i \in 1..1 |-> x] /\ x \in H
        BY <2>2 DEF x, H
      <4> QED BY <4>1 DEF ToSet
    <3> QED BY <2>2, <2>3, <3>1, <3>2 DEF x, H
  <2>5. fired # {} => Field(rule, "tag") \in ToSet(kept)
    BY DEF TagKept, ToSet
  <2>6. freeptrs \in Seq(Handable(rule))
    <3> HIDE DEF Handable
    <3> QED BY <1>3, <2>1, SeqMonotonic
  <2> QED BY <2>4, <2>5, <2>6
<1>5. ToSet(freeptrs) \intersect Fields(rule) = {}
  <2>1. ASSUME NEW x \in ToSet(freeptrs) PROVE x \notin Fields(rule)
    <3>1. PICK i \in DOMAIN freeptrs : x = freeptrs[i]
      BY DEF ToSet
    <3>2. x \in Handable(rule - 1)
      <4> HIDE DEF Handable
      <4> QED BY <1>3, <3>1, ElementOfSeq, LenProperties
    <3> QED BY <1>3, <3>2 DEF Field, Fields
  <2> QED BY <2>1
<1>6. /\ \A b \in words : b[1] = "word"
      /\ \A b \in pairs : b[1] = "bigram"
      /\ \A b \in Fields(rule) : b[1] = "rule"
      /\ \A b \in u : b[1] \in {"entry", "part"}
  BY LoadedKind, TextKinds
<1>7. freeptrs' = freeptrs \o kept /\ rule' = rule + 1
  BY DEF LexicalRule, SetTagVal
<1>8. freeptrs' \in Seq(Handable(rule)) /\ ToSet(freeptrs') = ToSet(freeptrs) \union ToSet(kept)
  <2> HIDE DEF Handable, kept
  <2> QED BY <1>4, <1>7, Joined
<1>9. TextBlocks' = (words \union pairs) \union (ToSet(freeptrs) \union ToSet(kept))
  <2>1. phase' = "lexical" /\ WordBlocks(Assigned)' = words /\ BigramBlocks(bigram_hash)' = pairs
    BY AssignedStays DEF LexicalRule, WordBlocks, BigramBlocks
  <2>2. ToSet(freeptrs)' = ToSet(freeptrs) \union ToSet(kept)
    BY <1>8 DEF ToSet
  <2> HIDE DEF words, pairs, kept
  <2> QED BY <2>1, <2>2 DEF TextBlocks, FirstStage
<1>10. Handed'
  <2>1. ASSUME NEW w \in DOMAIN tag_array' PROVE tag_array'[w].block \in {<<>>} \union ToSet(freeptrs')
    <3>1. /\ DOMAIN tag_array' = DOMAIN tag_array
          /\ tag_array'[w] = IF w \in fired THEN [tag |-> data.lexical[rule].new, block |-> Field(rule, "tag")]
                             ELSE tag_array[w]
      BY DEF LexicalRule, SetTagVal
    <3>2. CASE w \in fired
      <4>1. tag_array'[w].block = Field(rule, "tag")
        BY <3>1, <3>2
      <4>2. Field(rule, "tag") \in ToSet(kept)
        <5> HIDE DEF kept, fired
        <5> QED BY <1>4, <3>2
      <4> QED BY <1>8, <4>1, <4>2
    <3>3. CASE w \notin fired
      <4>1. tag_array[w].block \in {<<>>} \union ToSet(freeptrs)
        BY <1>3, <3>1 DEF Handed
      <4> HIDE DEF kept, fired
      <4> QED BY <1>8, <3>1, <3>3, <4>1
    <3> QED BY <3>2, <3>3
  <2>2. rule' - 1 = rule
    BY <1>3, <1>7
  <2> QED BY <1>8, <2>1, <2>2 DEF Handed, ToSet
<1> HIDE DEF u, words, pairs, kept, fired
<1>11. Fields(rule) \intersect heap = {}
  BY <1>1, <1>5, <1>6
<1>12. ~fault' /\ heap' = (heap \union Fields(rule)) \ (Fields(rule) \ ToSet(kept))
  BY <1>1, <1>2, <1>11, NoFault
<1>13. heap' = heap \union ToSet(kept)
  BY <1>4, <1>11, <1>12
<1> QED BY <1>1, <1>9, <1>10, <1>12, <1>13 DEF Account

(* The first stage frees what it holds, the tags of rules among it.        *)
LEMMA OutputAccounts ==
  ASSUME Control, Handed, Account, ~fault, OutputTags
  PROVE  Account' /\ ~fault'
<1> DEFINE u == Uses(generation)
           words == WordBlocks(Assigned)
           pairs == BigramBlocks(bigram_hash)
           free == ToSet(freeptrs)
           tags == TagBlocks(tagged')
           copies == CopyBlocks(Len(tagged'))
           read == {tag_array[w].block : w \in DOMAIN tag_array} \ {<<>>}
<1>1. heap = u \union ((words \union pairs) \union free) /\ LoadedBlocks' = u
  BY LoadedInCalls, LoadedStays DEF OutputTags, Account, TextBlocks, Calling, FirstStage
<1>2. Memory(tags \union copies, u \union read, (words \union pairs) \union free)
  BY DEF OutputTags
<1>3. read \subseteq free
  BY DEF Handed, OutputTags
<1>4. TextBlocks' = tags \union copies
  BY DEF OutputTags, TextBlocks, SecondStage, TagBlocks, CopyBlocks
<1>5. \A b \in free : b[1] = "rule"
  <2> DEFINE H == {Field(i, "tag") : i \in 1..(rule - 1)}
  <2>1. freeptrs \in Seq(H)
    BY DEF Handed, OutputTags
  <2>2. \A b \in H : b[1] = "rule"
    BY DEF Field
  <2> HIDE DEF H
  <2> QED BY <2>1, <2>2, ElementOfSeq, LenProperties DEF ToSet
<1>6. /\ \A b \in words : b[1] = "word"
      /\ \A b \in pairs : b[1] = "bigram"
      /\ \A b \in tags : b[1] = "tag"
      /\ \A b \in copies : b[1] = "copy"
      /\ \A b \in u : b[1] \in {"entry", "part"}
  BY LoadedKind, TextKinds
<1> HIDE DEF u, words, pairs, free, tags, copies, read
<1>7. (tags \union copies) \intersect heap = {}
  BY <1>1, <1>5, <1>6
<1>8. ~fault' /\ heap' = (heap \union (tags \union copies)) \ ((words \union pairs) \union free)
  BY <1>1, <1>2, <1>3, <1>7, NoFault
<1>9. heap' = u \union (tags \union copies)
  BY <1>1, <1>5, <1>6, <1>8
<1> QED BY <1>1, <1>4, <1>8, <1>9 DEF Account

(* A changed tag is a block if it was one, or becomes one.                 *)
LEMMA RetaggingAccounts ==
  ASSUME Control, Text, Account, ~fault, ContextualRule
  PROVE  Account' /\ ~fault'
<1> DEFINE u == Uses(generation)
           old == TagBlocks(tagged)
           new == TagBlocks(tagged')
           copies == CopyBlocks(Len(tagged))
<1>1. heap = u \union (old \union copies) /\ LoadedBlocks' = u
  BY LoadedInCalls, LoadedStays DEF ContextualRule, Account, TextBlocks, Calling, SecondStage
<1>2. Memory(new \ old, u \union old, {})
  BY DEF ContextualRule
<1>3. old \subseteq new /\ Len(tagged') = Len(tagged)
  <2>1. TextLength \in Nat /\ tagged \in [1..TextLength -> Tagging]
    BY LenProperties DEF Text, TextLength, ContextualRule
  <2>2. tagged' \in [1..TextLength -> Tagging] /\ Retagged(tagged, tagged', data.contextual[rule])
    BY RuleApplied
  <2>3. \A j \in DOMAIN tagged : j \in DOMAIN tagged' /\ (tagged[j].own => tagged'[j].own)
    BY <2>1, <2>2 DEF Retagged
  <2>4. old \subseteq new
    BY <2>3 DEF TagBlocks
  <2> QED BY <2>1, <2>2, <2>4
<1>4. TextBlocks' = new \union copies
  BY <1>3 DEF ContextualRule, TextBlocks, SecondStage, TagBlocks, CopyBlocks
<1>5. /\ \A b \in new : b[1] = "tag"
      /\ \A b \in copies : b[1] = "copy"
      /\ \A b \in u : b[1] \in {"entry", "part"}
  BY LoadedKind, TextKinds
<1> HIDE DEF u, old, new, copies
<1>6. (new \ old) \intersect heap = {}
  BY <1>1, <1>5
<1>7. ~fault' /\ heap' = (heap \union (new \ old)) \ {}
  BY <1>1, <1>2, <1>6, NoFault
<1> QED BY <1>1, <1>3, <1>4, <1>7 DEF Account

(* Printing releases the arrays of the text.                               *)
LEMMA PrintAccounts ==
  ASSUME Control, Account, ~fault, PrintTags
  PROVE  Account' /\ ~fault'
<1> DEFINE u == Uses(generation)
           tags == TagBlocks(tagged)
           copies == CopyBlocks(Len(tagged))
<1>1. heap = u \union (tags \union copies) /\ LoadedBlocks' = u
  BY LoadedInCalls, LoadedStays DEF PrintTags, Account, TextBlocks, Calling, SecondStage
<1>2. Memory({}, u, tags \union copies)
  BY DEF PrintTags
<1>3. TextBlocks' = {}
  BY DEF PrintTags, TextBlocks
<1>4. /\ \A b \in tags : b[1] = "tag"
      /\ \A b \in copies : b[1] = "copy"
      /\ \A b \in u : b[1] \in {"entry", "part"}
  BY LoadedKind, TextKinds
<1> HIDE DEF u, tags, copies
<1>5. ~fault' /\ heap' = (heap \union {}) \ (tags \union copies)
  BY <1>1, <1>2, NoFault
<1>6. heap' = u
  BY <1>1, <1>4, <1>5
<1> QED BY <1>1, <1>3, <1>5, <1>6 DEF Account

(* The destructor releases what was loaded.                                *)
LEMMA DestroyAccounts ==
  ASSUME OneOperator, Control, Account, ~fault, NEW op \in Operators, destroy_tagger(op)
  PROVE  Account' /\ ~fault'
<1>1. /\ phase = "destroying" /\ phase' \in {"destroying", "crashed"}
      /\ operator'[op] = "gone" /\ LoadedBlocks' = {} /\ TextBlocks = {} /\ TextBlocks' = {}
  BY DEF destroy_tagger, LoadedBlocks, TextBlocks, Control
<1>2. heap = IF generation = 0 THEN {} ELSE Uses(generation)
  <2>1. \A o \in Operators : operator[o] # "gone"
    BY OneOperator DEF OneOperator, destroy_tagger
  <2> QED BY <1>1, <2>1 DEF Account, LoadedBlocks
<1>3. CASE generation = 0
  BY <1>1, <1>2, <1>3 DEF destroy_tagger, Account
<1>4. CASE generation # 0
  <2>1. Memory({}, {}, heap)
    BY <1>2, <1>4 DEF destroy_tagger, Destroyed, Uses
  <2>2. ~fault' /\ heap' = (heap \union {}) \ heap
    BY <2>1, NoFault
  <2> QED BY <1>1, <2>2 DEF Account
<1> QED BY <1>3, <1>4

(* What the tagger owns, of which its last use and its leftovers follow.    *)
Owned == Control /\ Text /\ Handed /\ Account /\ ~fault

(* Nothing is owned before the tagger is loaded.                           *)
LEMMA OwnedStarts == Init => Owned
<1> SUFFICES ASSUME Init PROVE Owned
  OBVIOUS
<1>1. Control /\ Text
  BY ControlStarts, TextStarts
<1>2. Account /\ Handed /\ ~fault
  BY DEF Init, Account, Handed, LoadedBlocks, TextBlocks
<1> QED BY <1>1, <1>2 DEF Owned

(* With one operator every step keeps account of what is owned.            *)
LEMMA OwnedStep ==
  ASSUME OneOperator, Owned, [Next]_vars
  PROVE  Owned'
<1>1. Control' /\ Text'
  BY ControlStep, TextStep DEF Owned
<1> USE DEF Owned
<1>2. ASSUME NEW op \in Operators, Construct(op) \/ OpenFile(op) \/ OpenFails(op) \/ Tag(op)
      PROVE  Account' /\ ~fault' /\ Handed'
  <2>1. UNCHANGED <<heap, fault, data, generation>>
    BY <1>2 DEF Construct, OpenFile, OpenFails, Tag
  <2>2. \/ phase' = phase /\ phase \notin Calling
        \/ phase = "running" /\ phase' \in {"read", "crashed"}
    BY <1>2 DEF Construct, OpenFile, OpenFails, Opens, Tag, Control, Calling
  <2>3. TextBlocks = {} /\ TextBlocks' = {} /\ Handed'
    BY <2>2 DEF TextBlocks, Handed, Calling
  <2>4. CASE Tag(op)
    <3>1. operator' = operator
      BY <2>4 DEF Tag
    <3>2. LoadedBlocks' = LoadedBlocks
      BY <2>1, <3>1 DEF LoadedBlocks, Uses, StoredEntries, Structures, Entries, Stored, Keys,
                        WordsOf, SeenKeys, GoodKeys
    <3> QED BY <2>1, <2>3, <3>2 DEF Account
  <2>5. CASE ~Tag(op)
    <3>1. generation = 0
      BY <1>2, <2>5 DEF Construct, OpenFile, OpenFails, Opens, Control
    <3> QED BY <2>1, <2>3, <3>1 DEF Account, LoadedBlocks
  <2> QED BY <2>4, <2>5
<1>3. ASSUME AllConstructed \/ StopProcessing PROVE Account' /\ ~fault' /\ Handed'
  <2>1. heap' = heap /\ fault' = fault /\ UNCHANGED dataVars /\ phase \notin Calling /\ phase' \notin Calling
    BY <1>3 DEF AllConstructed, StopProcessing, Calling
  <2>2. TextBlocks = {} /\ TextBlocks' = {} /\ Handed'
    BY <2>1 DEF TextBlocks, Handed, Calling
  <2>3. LoadedBlocks' = LoadedBlocks
    BY <2>1, LoadedStays
  <2> QED BY <2>1, <2>2, <2>3 DEF Account
<1>4. ASSUME UNCHANGED vars PROVE Account' /\ ~fault' /\ Handed'
  <2>1. heap' = heap /\ fault' = fault /\ UNCHANGED dataVars /\ UNCHANGED callVars /\ phase' = phase
    BY <1>4 DEF vars
  <2>2. TextBlocks' = TextBlocks
    BY <2>1, AssignedStays DEF callVars, TextBlocks, FirstStage, SecondStage, WordBlocks, BigramBlocks, TagBlocks,
                CopyBlocks, ToSet
  <2>3. Handed'
    BY <2>1 DEF callVars, Handed, ToSet
  <2>4. LoadedBlocks' = LoadedBlocks
    BY <2>1, LoadedStays
  <2> QED BY <2>1, <2>2, <2>3, <2>4 DEF Account
<1>5. ASSUME NEW op \in Operators, Load(op) \/ destroy_tagger(op) PROVE Account' /\ ~fault' /\ Handed'
  <2>1. phase' \notin Calling
    BY <1>5 DEF Load, destroy_tagger, Control, Calling
  <2>2. Handed'
    BY <2>1 DEF Handed, Calling
  <2>3. Control /\ Account /\ ~fault
    OBVIOUS
  <2> HIDE DEF Owned
  <2> QED BY <1>5, <2>2, <2>3, LoadAccounts, DestroyAccounts
<1>6. ASSUME ReadCorpus \/ OutputTags \/ ContextualRule \/ PrintTags PROVE Account' /\ ~fault' /\ Handed'
  <2>1. phase' # "lexical"
    BY <1>6 DEF ReadCorpus, OutputTags, ContextualRule, PrintTags
  <2>2. Handed'
    BY <2>1 DEF Handed
  <2>3. Control /\ Text /\ Handed /\ Account /\ ~fault
    OBVIOUS
  <2> HIDE DEF Owned
  <2> QED BY <1>6, <2>2, <2>3, ReadAccounts, OutputAccounts, RetaggingAccounts, PrintAccounts
<1>7. ASSUME StartTags \/ LexicalRule PROVE Account' /\ ~fault' /\ Handed'
  <2>1. Control /\ Text /\ Handed /\ Account /\ ~fault
    OBVIOUS
  <2> HIDE DEF Owned
  <2> QED BY <1>7, <2>1, StartAccounts, RuleAccounts
<1>8. Account' /\ ~fault' /\ Handed'
  <2> HIDE DEF Owned
  <2> QED BY <1>2, <1>3, <1>4, <1>5, <1>6, <1>7 DEF Next
<1> QED BY <1>1, <1>8

(* With one operator nothing is used or released that has been released     *)
(* before, whatever the data files, the texts and their words.              *)
THEOREM LastUseHolds == OneOperator => (Spec => []LastUse)
<1> SUFFICES ASSUME OneOperator PROVE Spec => []LastUse
  OBVIOUS
<1>1. Owned => LastUse
  BY DEF Owned, LastUse
<1>2. Init => Owned
  BY OwnedStarts
<1>3. Owned /\ [Next]_vars => Owned'
  BY OwnedStep
<1> QED BY <1>1, <1>2, <1>3, PTL DEF Spec

(* With one operator the tagger leaves nothing behind.                      *)
THEOREM NothingStays == OneOperator => (Spec => []NothingLeft)
<1> SUFFICES ASSUME OneOperator PROVE Spec => []NothingLeft
  OBVIOUS
<1>1. ASSUME Owned PROVE NothingLeft
  <2> USE DEF Owned
  <2>1. phase = "running" => heap = IF generation = 0 THEN {} ELSE Uses(generation)
    BY <1>1 DEF Control, Account, LoadedBlocks, TextBlocks
  <2>2. ASSUME \A op \in Operators : operator[op] = "gone" PROVE heap = {}
    <3>1. LoadedBlocks = {}
      BY <1>1, <2>2 DEF Control, LoadedBlocks
    <3>2. phase \notin Calling
      BY <1>1, <2>2 DEF Control, Calling
    <3> QED BY <1>1, <3>1, <3>2 DEF Account, TextBlocks, Calling
  <2>3. (\A op \in Operators : operator[op] # "opening") => open = <<>>
    BY <1>1 DEF Control
  <2> QED BY <2>1, <2>2, <2>3 DEF NothingLeft
<1>2. Init => Owned
  BY OwnedStarts
<1>3. Owned /\ [Next]_vars => Owned'
  BY OwnedStep
<1> QED BY <1>1, <1>2, <1>3, PTL DEF Spec

-----------------------------------------------------------------------------
(* Known words                                                             *)

(* FlattenSeq keeps what is in its sequences.                              *)
LEMMA FlattenedHas ==
  ASSUME NEW S, NEW n \in Nat, NEW c \in [1..n -> Seq(S)], NEW j \in 1..n, NEW x \in ToSet(c[j])
  PROVE  x \in ToSet(FlattenSeq(c))
<1>1. Len(c) = n /\ n # 0
  OBVIOUS
<1> DEFINE g == CHOOSE g : Flattening(g, c, n)
<1>2. Flattening(g, c, n)
  BY FlatteningExists
<1>3. FlattenSeq(c) = g[n]
  BY <1>1 DEF FlattenSeq, Flattening
<1> HIDE DEF g
<1> DEFINE P == {k \in 0..n : k = 0 \/ (g[k] \in Seq(S) /\ (j <= k => x \in ToSet(g[k])))}
<1>4. ASSUME NEW k \in 1..n, k - 1 \in P PROVE k \in P
  <2>1. c[k] \in Seq(S) /\ k \in 0..n
    OBVIOUS
  <2>2. CASE k = 1
    <3>1. g[k] = c[k]
      BY <1>2, <2>2 DEF Flattening
    <3> QED BY <2>1, <2>2, <3>1
  <2>3. CASE k # 1
    <3>1. g[k] = g[k - 1] \o c[k]
      BY <1>2, <2>3 DEF Flattening
    <3>2. g[k - 1] \in Seq(S) /\ (j <= k - 1 => x \in ToSet(g[k - 1]))
      BY <1>4, <2>3
    <3>3. g[k] \in Seq(S) /\ ToSet(g[k]) = ToSet(g[k - 1]) \union ToSet(c[k])
      BY <2>1, <3>1, <3>2, Joined
    <3>4. j <= k => j <= k - 1 \/ j = k
      OBVIOUS
    <3> QED BY <2>1, <3>2, <3>3, <3>4
  <2> QED BY <2>2, <2>3
<1>5. \A k \in 0..n : k \in P
  <2>1. P \in SUBSET (0..n) /\ 0 \in P
    OBVIOUS
  <2> HIDE DEF P
  <2> QED BY <1>4, <2>1, AlongLoop
<1>6. n \in P
  BY <1>5
<1> QED BY <1>1, <1>3, <1>6

(* The likeliest tag of a word is one its lines list.                      *)
LEMMA ListedTag ==
  ASSUME NEW d \in DataFiles, NEW word, Known(d, word)
  PROVE  <<word, <<lexicon_hash(d, word)>>>> \in seenTagging(d)
<1> DEFINE mark == lexicon_hash(d, word)
           key == <<word, <<mark>>>>
           S == Seq(STRING) \X Seq(STRING)
           n == Len(d.lexicon)
           first(l) == <<<<l.word, l.lemma>>>>
           rest(l) == [k \in DOMAIN l.tags |-> <<l.word, <<l.tags[k]>>>>]
           c == [i \in DOMAIN d.lexicon |-> first(d.lexicon[i]) \o rest(d.lexicon[i])]
<1>1. PICK j \in 1..n : d.lexicon[j].word = word /\ d.lexicon[j].tags # <<>> /\ mark = d.lexicon[j].tags[1]
  BY FirstLine, Files, SMTT(30)
<1>2. ASSUME NEW i \in 1..n
      PROVE  /\ first(d.lexicon[i]) \in Seq(S) /\ rest(d.lexicon[i]) \in Seq(S)
             /\ \A k \in DOMAIN d.lexicon[i].tags : rest(d.lexicon[i])[k] = <<d.lexicon[i].word, <<d.lexicon[i].tags[k]>>>>
  <2> DEFINE l == d.lexicon[i]
  <2>1. l \in [word : Seq(STRING), lemma : Seq(STRING), tags : Seq(Tags) \ {<<>>}]
    BY Files, ElementOfSeq
  <2> HIDE DEF l
  <2>2. l.word \in Seq(STRING) /\ l.lemma \in Seq(STRING) /\ l.tags \in Seq(Tags)
    BY <2>1
  <2>3. first(l) \in Seq(S)
    <3> DEFINE y == <<l.word, l.lemma>>
    <3>1. y \in S
      BY <2>2
    <3> HIDE DEF y, S
    <3>2. <<y>> = [k \in 1..1 |-> y]
      OBVIOUS
    <3>3. <<y>> \in Seq(S)
      BY <3>1, <3>2
    <3> QED BY <3>3 DEF y
  <2>4. ASSUME NEW k \in DOMAIN l.tags PROVE <<l.word, <<l.tags[k]>>>> \in S
    <3>1. l.tags[k] \in Tags
      BY <2>2, ElementOfSeq, LenProperties
    <3> DEFINE t == l.tags[k]
    <3> HIDE DEF t
    <3>2. t \in STRING
      BY <3>1 DEF Tags, t
    <3>3. <<t>> = [p \in 1..1 |-> t]
      OBVIOUS
    <3>4. <<t>> \in Seq(STRING)
      BY <3>2, <3>3
    <3> QED BY <2>2, <3>4 DEF t
  <2>5. rest(l) \in Seq(S)
    <3>1. DOMAIN l.tags = 1..Len(l.tags) /\ Len(l.tags) \in Nat
      BY <2>2, LenProperties
    <3>2. rest(l) \in [1..Len(l.tags) -> S]
      <4> HIDE DEF S
      <4> QED BY <2>4, <3>1
    <3> HIDE DEF rest, S
    <3> QED BY <3>1, <3>2
  <2> QED BY <2>3, <2>5 DEF l
<1> HIDE DEF S, first
<1>3. c \in [1..n -> Seq(S)] /\ n \in Nat /\ c[j] = first(d.lexicon[j]) \o rest(d.lexicon[j])
  <2>1. n \in Nat /\ DOMAIN d.lexicon = 1..n
    BY Files
  <2>2. \A i \in 1..n : first(d.lexicon[i]) \o rest(d.lexicon[i]) \in Seq(S)
    <3> HIDE DEF rest
    <3> QED BY <1>2, Joined
  <2> HIDE DEF rest
  <2> QED BY <2>1, <2>2
<1>4. key \in ToSet(rest(d.lexicon[j]))
  <2>1. d.lexicon[j] \in [word : Seq(STRING), lemma : Seq(STRING), tags : Seq(Tags) \ {<<>>}]
    BY Files, ElementOfSeq
  <2>2. 1 \in DOMAIN d.lexicon[j].tags
    <3>1. d.lexicon[j].tags \in Seq(Tags) \ {<<>>}
      BY <2>1
    <3> QED BY <3>1
  <2>3. rest(d.lexicon[j])[1] = key
    BY <1>1, <2>2
  <2>4. 1 \in DOMAIN rest(d.lexicon[j])
    BY <2>2
  <2> HIDE DEF rest, key
  <2> QED BY <2>3, <2>4 DEF ToSet
<1>5. SeenKeys(d) = FlattenSeq(c)
  BY DEF SeenKeys, first
<1>6. ToSet(c[j]) = ToSet(first(d.lexicon[j])) \union ToSet(rest(d.lexicon[j]))
  <2> HIDE DEF rest, c
  <2> QED BY <1>2, <1>3, Joined
<1> HIDE DEF c, key, rest
<1>7. key \in ToSet(FlattenSeq(c))
  BY <1>3, <1>4, <1>6, FlattenedHas
<1> QED BY <1>5, <1>7 DEF seenTagging, key

(* What the printing loop has made of the first positions of a text.       *)
PrintedUpTo(k) == [j \in 1..(IF k <= 2 THEN 0 ELSE k - 2) |-> PrintedWord(tagged[j + 2])]

(* The loop prints every position after the marks, in order.               *)
LEMMA Prints ==
  ASSUME Text, PrintTags
  PROVE  printed' = PrintedUpTo(TextLength)
<1> DEFINE n == TextLength
           term(h, i) == IF i = 0 THEN <<>>
                         ELSE IF tagged[i].tag = "STAART" THEN h[i - 1]
                         ELSE Append(h[i - 1], PrintedWord(tagged[i]))
           Is(h) == h = [i \in 0..n |-> term(h, i)]
           g == [k \in 0..n |-> PrintedUpTo(k)]
<1>1. /\ n \in Nat /\ tagged \in [1..n -> Tagging] /\ Len(tagged) = n
      /\ \A i \in 1..n : tagged[i].tag = "STAART" <=> i <= 2
  BY LenProperties DEF Text, PrintTags, TextLength
<1> HIDE DEF n
<1>2. ASSUME NEW k \in 1..n, k > 2 PROVE Append(PrintedUpTo(k - 1), PrintedWord(tagged[k])) = PrintedUpTo(k)
  <2> DEFINE V == {PrintedWord(tagged[i]) : i \in 1..n}
             p == PrintedUpTo(k - 1)
             q == PrintedUpTo(k)
             x == PrintedWord(tagged[k])
             m == k - 3
  <2>1. m \in Nat /\ k = m + 3 /\ x \in V
    BY <1>1, <1>2
  <2>2. p = [j \in 1..m |-> PrintedWord(tagged[j + 2])] /\ q = [j \in 1..(m + 1) |-> PrintedWord(tagged[j + 2])]
    <3>1. (IF k <= 2 THEN 0 ELSE k - 2) = m + 1 /\ (IF k - 1 <= 2 THEN 0 ELSE (k - 1) - 2) = m
      BY <1>2, <2>1
    <3> QED BY <3>1 DEF PrintedUpTo
  <2>3. \A j \in 1..(m + 1) : j + 2 \in 1..n /\ (j = m + 1 => j + 2 = k)
    BY <1>1, <2>1
  <2>4. p \in Seq(V) /\ q \in Seq(V) /\ Len(p) = m /\ Len(q) = m + 1
    <3>1. p \in [1..m -> V] /\ q \in [1..(m + 1) -> V]
      <4>1. \A j \in 1..(m + 1) : PrintedWord(tagged[j + 2]) \in V
        BY <2>3
      <4>2. \A j \in 1..m : j \in 1..(m + 1)
        BY <2>1
      <4> HIDE DEF V, m, p, q
      <4> QED BY <2>2, <4>1, <4>2
    <3> HIDE DEF p, q, V, m
    <3> QED BY <2>1, <3>1
  <2>5. \A j \in 1..m : p[j] = q[j]
    BY <2>1, <2>2
  <2>6. q[m + 1] = x
    BY <2>1, <2>2, <2>3
  <2> HIDE DEF p, q, V, x, m
  <2>7. /\ Append(p, x) \in Seq(V) /\ Len(Append(p, x)) = Len(p) + 1
        /\ \A i \in 1..Len(p) : Append(p, x)[i] = p[i]
        /\ Append(p, x)[Len(p) + 1] = x
    BY <2>1, <2>4, AppendProperties
  <2>8. \A i \in 1..Len(q) : Append(p, x)[i] = q[i]
    BY <2>1, <2>4, <2>5, <2>6, <2>7
  <2>9. Append(p, x) = q
    BY <2>1, <2>4, <2>7, <2>8, SeqEqual
  <2> QED BY <2>9 DEF p, q, x
<1>3. PrintedUpTo(0) = <<>> /\ \A k \in 1..n : k <= 2 => PrintedUpTo(k) = PrintedUpTo(k - 1)
  BY <1>1 DEF PrintedUpTo
<1>4. \A k \in 0..n : g[k] = PrintedUpTo(k)
  OBVIOUS
<1>5. Is(g)
  <2>1. ASSUME NEW i \in 0..n PROVE g[i] = term(g, i)
    <3>1. CASE i = 0
      BY <1>3, <1>4, <3>1
    <3>2. CASE i # 0
      <4>1. i \in 1..n /\ i - 1 \in 0..n
        BY <1>1, <3>2
      <4>2. g[i - 1] = PrintedUpTo(i - 1) /\ g[i] = PrintedUpTo(i)
        BY <1>4, <4>1
      <4> HIDE DEF g
      <4> QED BY <1>1, <1>2, <1>3, <3>2, <4>1, <4>2
    <3> QED BY <3>1, <3>2
  <2>2. g = [i \in 0..n |-> g[i]]
    OBVIOUS
  <2> HIDE DEF g, term
  <2> QED BY <2>1, <2>2
<1> DEFINE lines == CHOOSE h : Is(h)
<1>6. Is(lines)
  <2> HIDE DEF Is, g
  <2> QED BY <1>5
<1>7. printed' = lines[n]
  BY <1>1 DEF PrintTags
<1> HIDE DEF lines
<1>8. ASSUME NEW i \in 0..n PROVE lines[i] = term(lines, i) /\ g[i] = term(g, i)
  <2> HIDE DEF term, g
  <2> QED BY <1>5, <1>6
<1> DEFINE P == {k \in 0..n : lines[k] = g[k]}
<1> HIDE DEF g
<1>9. \A k \in 0..n : k \in P
  <2>1. P \in SUBSET (0..n) /\ 0 \in P
    <3>1. 0 \in 0..n
      BY <1>1
    <3> QED BY <1>8, <3>1
  <2>2. ASSUME NEW k \in 1..n, k - 1 \in P PROVE k \in P
    <3>1. k \in 0..n /\ k # 0 /\ lines[k - 1] = g[k - 1]
      BY <1>1, <2>2
    <3>2. term(lines, k) = term(g, k)
      BY <3>1
    <3> HIDE DEF term
    <3> QED BY <1>8, <3>1, <3>2
  <2> HIDE DEF P
  <2> QED BY <1>1, <2>1, <2>2, AlongLoop
<1>10. n \in 0..n
  BY <1>1
<1> QED BY <1>4, <1>7, <1>9, <1>10 DEF n

(* While a text is worked at, its words stay in their places, the known    *)
(* ones with tags their lines list.                                        *)
WordsInPlace ==
  \A i \in DOMAIN corpus :
    ~Pretagged(corpus[i]) =>
      /\ tagged[i + 2].word = corpus[i]
      /\ Known(data, corpus[i]) => <<corpus[i], <<tagged[i + 2].tag>>>> \in seenTagging(data)

(* Before the first text there are no words and no lines, and after each    *)
(* text what has been printed is as it should.                              *)
Answered ==
  /\ phase = "constructing" => corpus = <<>> /\ printed = <<>>
  /\ phase = "contextual" => WordsInPlace
  /\ KnownWordsKeepListedTags

(* The words are in their places when the tags are joined to them.         *)
LEMMA InPlaceAtStart ==
  ASSUME Text, OutputTags
  PROVE  WordsInPlace'
<1> SUFFICES ASSUME NEW i \in DOMAIN corpus, ~Pretagged(corpus[i])
             PROVE  /\ tagged'[i + 2].word = corpus[i]
                    /\ Known(data, corpus[i]) => <<corpus[i], <<tagged'[i + 2].tag>>>> \in seenTagging(data)
  BY DEF WordsInPlace, OutputTags, dataVars, Known, seenTagging, SeenKeys
<1>1. corpus[i] \in PlainWords /\ data \in DataFiles
  BY ElementOfSeq, LenProperties DEF Text
<1>2. ~Known(data, corpus[i]) => tag_array[corpus[i]].tag \in WordTags
  BY DEF UnknownWords, ToSet, Text, OutputTags
<1>3. Entered(StartState(corpus[i])) =
        [word |-> corpus[i], own |-> TRUE,
         tag |-> IF Known(data, corpus[i]) THEN lexicon_hash(data, corpus[i]) ELSE tag_array[corpus[i]].tag]
  BY <1>1, <1>2, StartStates
<1>4. tagged'[i + 2] = Entered(StartState(corpus[i]))
  BY CorpusTagged
<1>5. Known(data, corpus[i]) => <<corpus[i], <<lexicon_hash(data, corpus[i])>>>> \in seenTagging(data)
  BY <1>1, ListedTag
<1> QED BY <1>3, <1>4, <1>5

(* A contextual rule keeps them there.                                     *)
LEMMA InPlaceAfterRule ==
  ASSUME Text, WordsInPlace, ContextualRule
  PROVE  WordsInPlace'
<1> SUFFICES ASSUME NEW i \in DOMAIN corpus, ~Pretagged(corpus[i])
             PROVE  /\ tagged'[i + 2].word = corpus[i]
                    /\ Known(data, corpus[i]) => <<corpus[i], <<tagged'[i + 2].tag>>>> \in seenTagging(data)
  BY DEF WordsInPlace, ContextualRule, dataVars, Known, seenTagging, SeenKeys
<1> DEFINE j == i + 2
           r == data.contextual[rule]
<1>1. j \in DOMAIN tagged
  <2>1. corpus # <<>> /\ DOMAIN corpus = 1..Len(corpus) /\ Len(corpus) \in Nat
    BY LenProperties DEF Text
  <2>2. DOMAIN tagged = 1..(Len(corpus) + 2)
    BY <2>1 DEF Text, TextLength, ContextualRule
  <2> QED BY <2>1, <2>2
<1>2. /\ tagged'[j].word = tagged[j].word
      /\ \/ tagged'[j].tag = tagged[j].tag
         \/ tagged'[j].tag = r.new /\ Permitted(data, tagged[j].word, r.new)
  BY <1>1, RuleApplied DEF Retagged
<1>3. /\ tagged[j].word = corpus[i]
      /\ Known(data, corpus[i]) => <<corpus[i], <<tagged[j].tag>>>> \in seenTagging(data)
  BY DEF WordsInPlace
<1> HIDE DEF j, r
<1>4. CASE tagged'[j].tag = tagged[j].tag
  BY <1>2, <1>3, <1>4 DEF j
<1>5. CASE tagged'[j].tag = r.new /\ Permitted(data, tagged[j].word, r.new)
  BY <1>2, <1>3, <1>5 DEF Permitted, j
<1> QED BY <1>2, <1>4, <1>5

(* What is printed are these words, in this order.                         *)
LEMMA AllPrinted ==
  ASSUME Text, WordsInPlace, PrintTags
  PROVE  KnownWordsKeepListedTags'
<1> DEFINE n == Len(corpus)
<1>1. n \in Nat /\ DOMAIN corpus = 1..n /\ (corpus = <<>> <=> n = 0)
  BY LenProperties, EmptySeq DEF Text
<1>2. (IF TextLength <= 2 THEN 0 ELSE TextLength - 2) = n
  BY <1>1 DEF TextLength
<1> HIDE DEF n
<1>3. printed' = [j \in 1..n |-> PrintedWord(tagged[j + 2])]
  BY <1>2, Prints DEF PrintedUpTo
<1>4. Len(printed') = n /\ \A i \in 1..n : printed'[i] = PrintedWord(tagged[i + 2])
  BY <1>1, <1>3
<1>5. \A i \in 1..n : printed'[i].word = tagged[i + 2].word /\ printed'[i].tag = tagged[i + 2].tag
  BY <1>4 DEF PrintedWord
<1>6. corpus' = corpus /\ data' = data
  BY DEF PrintTags, dataVars
<1> QED BY <1>1, <1>4, <1>5, <1>6 DEF n, WordsInPlace, KnownWordsKeepListedTags, Known, seenTagging, SeenKeys

(* Every step keeps that.                                                  *)
LEMMA AnsweredStep ==
  ASSUME Text, Answered, [Next]_vars
  PROVE  Answered'
<1> USE DEF Answered
<1>1. ASSUME NEW op \in Operators, Construct(op) \/ OpenFile(op) \/ OpenFails(op) \/ Load(op)
      PROVE  Answered'
  <2>1. UNCHANGED <<phase, corpus, printed, data, tagged>>
    BY <1>1 DEF Construct, OpenFile, OpenFails, Load, callVars
  <2> QED BY <2>1 DEF WordsInPlace, KnownWordsKeepListedTags, Known, seenTagging, SeenKeys
<1>2. ASSUME NEW op \in Operators, Tag(op) \/ destroy_tagger(op) PROVE Answered'
  <2>1. phase' \in {"read", "destroying", "crashed"}
    BY <1>2 DEF Tag, destroy_tagger
  <2> QED BY <2>1 DEF KnownWordsKeepListedTags
<1>3. CASE AllConstructed
  BY <1>3 DEF AllConstructed, KnownWordsKeepListedTags, callVars
<1>4. CASE StopProcessing \/ ReadCorpus \/ StartTags \/ LexicalRule
  <2>1. phase' \in {"destroying", "filed", "lexical"}
    BY <1>4 DEF StopProcessing, ReadCorpus, StartTags, LexicalRule
  <2> QED BY <2>1 DEF KnownWordsKeepListedTags
<1>5. CASE OutputTags
  BY <1>5, InPlaceAtStart DEF OutputTags, KnownWordsKeepListedTags
<1>6. CASE ContextualRule
  BY <1>6, InPlaceAfterRule DEF ContextualRule, KnownWordsKeepListedTags
<1>7. CASE PrintTags
  BY <1>7, AllPrinted DEF PrintTags
<1>8. CASE UNCHANGED vars
  <2>1. UNCHANGED <<phase, corpus, printed, data, tagged>>
    BY <1>8 DEF vars, dataVars, callVars
  <2> QED BY <2>1 DEF WordsInPlace, KnownWordsKeepListedTags, Known, seenTagging, SeenKeys
<1> QED BY <1>1, <1>2, <1>3, <1>4, <1>5, <1>6, <1>7, <1>8 DEF Next

(* A word of the lexicon comes out in its place with a tag its lines list,  *)
(* however many operators share the tagger and whatever the rules are.      *)
THEOREM KnownWordsHold == Spec => []KnownWordsKeepListedTags
<1>1. Init => Text /\ Answered
  BY TextStarts DEF Init, Answered, KnownWordsKeepListedTags
<1>2. Text /\ Answered /\ [Next]_vars => Text' /\ Answered'
  BY TextStep, AnsweredStep
<1>3. Answered => KnownWordsKeepListedTags
  BY DEF Answered
<1> QED BY <1>1, <1>2, <1>3, PTL DEF Spec

-----------------------------------------------------------------------------
(* Start tags                                                              *)

(* The tags a word goes through when the rules are applied to it alone.    *)
Made(word, g) ==
  g = [k \in 0..Len(data.lexical) |->
        IF k = 0 THEN StartTag(word)
        ELSE IF Eligible(data.lexical[k], g[k - 1]) /\ Applies(data, PairsOfText, data.lexical[k], word)
             THEN data.lexical[k].new ELSE g[k - 1]]

TagsBy(word) == CHOOSE g : Made(word, g)

(* They are well defined.                                                  *)
LEMMA MadeByRules ==
  ASSUME data \in DataFiles, NEW word
  PROVE  Made(word, TagsBy(word)) /\ TagByRules(word) = TagsBy(word)[Len(data.lexical)]
<1> DEFINE n == Len(data.lexical)
           step(k, x) == IF Eligible(data.lexical[k], x) /\ Applies(data, PairsOfText, data.lexical[k], word)
                         THEN data.lexical[k].new ELSE x
           f == [k \in 1..n |-> [x \in WordTags |-> step(k, x)]]
<1>1. n \in Nat /\ \A k \in 1..n : data.lexical[k].new \in WordTags
  <2>1. n \in Nat /\ DOMAIN data.lexical = 1..n
    BY Files
  <2>2. ASSUME NEW k \in 1..n PROVE data.lexical[k].new \in WordTags
    <3>1. data.lexical[k] \in [op : STRING, f : BOOLEAN, arg : Seq(STRING), old : Tags, new : Tags]
      BY Files, ElementOfSeq
    <3>2. data.lexical[k].new \in Tags
      BY <3>1
    <3> QED BY <3>2, SymbolsAre
  <2> QED BY <2>1, <2>2
<1>2. f \in [1..n -> [WordTags -> WordTags]]
  BY <1>1
<1>3. PICK g : Passes(g, n, WordTags, StartTag(word), f)
  <2>1. StartTag(word) \in WordTags
    BY StartTagIs
  <2> HIDE DEF f, n
  <2> QED BY <1>1, <1>2, <2>1, Loop
<1>4. /\ g \in [0..n -> WordTags] /\ g[0] = StartTag(word)
      /\ \A k \in 1..n : g[k] = f[k][g[k - 1]]
  <2> HIDE DEF f
  <2> QED BY <1>3 DEF Passes
<1>5. ASSUME NEW k \in 1..n PROVE g[k] = step(k, g[k - 1])
  <2>1. g[k - 1] \in WordTags
    <3>1. k - 1 \in 0..n
      BY <1>1
    <3> QED BY <1>4, <3>1
  <2> HIDE DEF step
  <2> QED BY <1>4, <2>1
<1>6. Made(word, g)
  <2>1. \A k \in 0..n : k = 0 \/ k \in 1..n
    OBVIOUS
  <2>2. \A k \in 0..n : g[k] = IF k = 0 THEN StartTag(word) ELSE step(k, g[k - 1])
    <3> HIDE DEF step
    <3> QED BY <1>4, <1>5, <2>1
  <2>3. g = [k \in 0..n |-> IF k = 0 THEN StartTag(word) ELSE step(k, g[k - 1])]
    <3> HIDE DEF step
    <3> QED BY <1>4, <2>2
  <2> QED BY <2>3 DEF Made
<1>7. Made(word, TagsBy(word))
  BY <1>6 DEF TagsBy
<1>8. TagByRules(word) = TagsBy(word)[n]
  BY DEF TagByRules, TagsBy, Made
<1> QED BY <1>7, <1>8

(* The pairs the text is filed with, as the start state tagger needs them.  *)
LEMMA Neighbours ==
  ASSUME corpus \in Seq(PlainWords)
  PROVE  Surrounding = {<<corpus[j], corpus[j + 1]>> :
           j \in {k \in 1..(Len(corpus) - 1) : ~Known(data, corpus[k]) \/ ~Known(data, corpus[k + 1])}}
<1> DEFINE n == Len(corpus)
           U == {k \in 1..n : ~Known(data, corpus[k])}
           Q(j) == <<corpus[j], corpus[j + 1]>>
           R(j) == <<corpus[j - 1], corpus[j]>>
           pairs(j) == IF j # 1 /\ j # n THEN {Q(j)} \union {R(j)}
                       ELSE IF j # n THEN {Q(j)} ELSE IF j # 1 THEN {R(j)} ELSE {}
           Adjacent == {Q(j) : j \in {k \in 1..(n - 1) : ~Known(data, corpus[k]) \/ ~Known(data, corpus[k + 1])}}
<1>1. n \in Nat /\ DOMAIN corpus = 1..n
  BY LenProperties
<1>2. Surrounding = UNION {pairs(j) : j \in U}
  BY <1>1 DEF Surrounding
<1> HIDE DEF n
<1>3. ASSUME NEW j \in U, NEW b \in pairs(j) PROVE b \in Adjacent
  <2>1. j \in 1..n /\ ~Known(data, corpus[j])
    OBVIOUS
  <2>2. CASE j # n /\ b = Q(j)
    <3>1. j \in 1..(n - 1)
      BY <1>1, <2>1, <2>2
    <3> QED BY <2>1, <2>2, <3>1
  <2>3. CASE j # 1 /\ b = R(j)
    <3>1. j - 1 \in 1..(n - 1) /\ (j - 1) + 1 = j
      BY <1>1, <2>1, <2>3
    <3> QED BY <2>1, <2>3, <3>1
  <2>4. (j # n /\ b = Q(j)) \/ (j # 1 /\ b = R(j))
    <3> HIDE DEF Q, R
    <3> QED BY <1>3
  <2> QED BY <2>2, <2>3, <2>4
<1>4. ASSUME NEW j \in 1..(n - 1), ~Known(data, corpus[j]) \/ ~Known(data, corpus[j + 1])
      PROVE  \E k \in U : Q(j) \in pairs(k)
  <2>1. j \in 1..n /\ j + 1 \in 1..n /\ j # n /\ j + 1 # 1 /\ (j + 1) - 1 = j
    BY <1>1
  <2>2. Q(j) \in pairs(j) /\ Q(j) \in pairs(j + 1)
    <3>1. R(j + 1) = Q(j)
      BY <2>1
    <3> HIDE DEF Q, R
    <3> QED BY <2>1, <3>1
  <2> HIDE DEF pairs, Q
  <2> QED BY <1>4, <2>1, <2>2
<1>5. UNION {pairs(j) : j \in U} = Adjacent
  <2> HIDE DEF pairs, U, Q
  <2>1. ASSUME NEW b \in Adjacent PROVE b \in UNION {pairs(j) : j \in U}
    BY <1>4
  <2>2. ASSUME NEW b \in UNION {pairs(j) : j \in U} PROVE b \in Adjacent
    BY <1>3
  <2> QED BY <2>1, <2>2
<1> QED BY <1>2, <1>5 DEF n

(* For an unknown word of the text the rules find the pairs they ask for.   *)
LEMMA PairsFound ==
  ASSUME Text, bigram_hash = Surrounding \union FiledBigrams, NEW w \in UnknownWords, NEW i \in DOMAIN data.lexical
  PROVE  Applies(data, bigram_hash, data.lexical[i], w) <=> Applies(data, PairsOfText, data.lexical[i], w)
<1> DEFINE r == data.lexical[i]
           N == {<<corpus[j], corpus[j + 1]>> :
                   j \in {k \in 1..(Len(corpus) - 1) : ~Known(data, corpus[k]) \/ ~Known(data, corpus[k + 1])}}
           wanted(b) == \E s \in ToSet(data.lexical) :
                         \/ s.op = "goodright" /\ s.arg = b[1] /\ b[2] \in ToSet(corpus)
                         \/ s.op = "goodleft" /\ s.arg = b[2] /\ b[1] \in ToSet(corpus)
<1>1. Surrounding = N
  BY Neighbours DEF Text
<1>2. PairsOfText = N \union {b \in ToSet(data.bigrams) : wanted(b)}
  BY DEF PairsOfText
<1>3. w \in ToSet(corpus) /\ r \in ToSet(data.lexical)
  BY DEF UnknownWords, ToSet
<1> HIDE DEF N
<1>4. CASE r.op = "goodleft"
  <2> DEFINE b == <<w, r.arg>>
  <2>1. b[1] = w /\ b[2] = r.arg
    OBVIOUS
  <2>2. r.arg \in good_left(data)
    <3> DEFINE D == {j \in DOMAIN data.lexical : data.lexical[j].op = "goodleft"}
               K == [j \in D |-> data.lexical[j].arg]
    <3>1. i \in D /\ K[i] = r.arg /\ good_left(data) = ToSet(K)
      BY <1>4 DEF good_left, GoodKeys
    <3>2. DOMAIN K = D
      OBVIOUS
    <3> HIDE DEF K, D, r
    <3> QED BY <3>1, <3>2 DEF ToSet
  <2> HIDE DEF b, r
  <2>3. b \in FiledBigrams <=> b \in ToSet(data.bigrams)
    BY <2>1, <2>2 DEF FiledBigrams
  <2>4. wanted(b)
    BY <1>3, <1>4, <2>1
  <2> HIDE DEF wanted
  <2>5. b \in bigram_hash <=> b \in PairsOfText
    BY <1>1, <1>2, <2>3, <2>4
  <2> QED BY <1>4, <2>5 DEF b, r, Applies, GoodNeighbour
<1>5. CASE r.op = "goodright"
  <2> DEFINE b == <<r.arg, w>>
  <2>1. b[1] = r.arg /\ b[2] = w
    OBVIOUS
  <2>2. r.arg \in good_right(data)
    <3> DEFINE D == {j \in DOMAIN data.lexical : data.lexical[j].op = "goodright"}
               K == [j \in D |-> data.lexical[j].arg]
    <3>1. i \in D /\ K[i] = r.arg /\ good_right(data) = ToSet(K)
      BY <1>5 DEF good_right, GoodKeys
    <3>2. DOMAIN K = D
      OBVIOUS
    <3> HIDE DEF K, D, r
    <3> QED BY <3>1, <3>2 DEF ToSet
  <2> HIDE DEF b, r
  <2>3. b \in FiledBigrams <=> b \in ToSet(data.bigrams)
    BY <2>1, <2>2 DEF FiledBigrams
  <2>4. wanted(b)
    BY <1>3, <1>5, <2>1
  <2> HIDE DEF wanted
  <2>5. b \in bigram_hash <=> b \in PairsOfText
    BY <1>1, <1>2, <2>3, <2>4
  <2> QED BY <1>5, <2>5 DEF b, r, Applies, GoodNeighbour
<1>6. CASE r.op # "goodleft" /\ r.op # "goodright"
  BY <1>6 DEF r, Applies, GoodNeighbour
<1> QED BY <1>4, <1>5, <1>6

(* Rule by rule each unknown word has the tag it would have alone.          *)
ByRules ==
  /\ phase = "filed" => bigram_hash = Surrounding
  /\ phase = "lexical" =>
       /\ rule \in 1..(Len(data.lexical) + 1)
       /\ bigram_hash = Surrounding \union FiledBigrams
       /\ \A w \in UnknownWords : tag_array[w].tag = TagsBy(w)[rule - 1]
  /\ StartTagsAsDefined

(* Nothing of that changes while the text and the files stay.               *)
LEMMA SameText ==
  ASSUME UNCHANGED <<data, corpus>>
  PROVE  /\ Surrounding' = Surrounding /\ FiledBigrams' = FiledBigrams /\ UnknownWords' = UnknownWords
         /\ \A w : TagsBy(w)' = TagsBy(w) /\ TagByRules(w)' = TagByRules(w)
<1>1. PairsOfText' = PairsOfText
  BY DEF PairsOfText, Known, ToSet
<1>2. Surrounding' = Surrounding /\ FiledBigrams' = FiledBigrams /\ UnknownWords' = UnknownWords
  BY DEF Surrounding, FiledBigrams, UnknownWords, good_left, good_right, GoodKeys, Known, ToSet
<1>3. \A w : TagsBy(w)' = TagsBy(w) /\ TagByRules(w)' = TagByRules(w)
  BY <1>1 DEF TagsBy, TagByRules, Made, Applies, KnownExtension, Known
<1> QED BY <1>2, <1>3

(* Unknown words start with the tag they have alone.                       *)
LEMMA FirstTags ==
  ASSUME Text, ByRules, StartTags
  PROVE  ByRules'
<1>1. /\ phase' = "lexical" /\ rule' = 1 /\ data' = data /\ corpus' = corpus
      /\ bigram_hash' = Surrounding \union FiledBigrams
  BY DEF StartTags, dataVars, ByRules
<1>2. Len(data.lexical) \in Nat /\ data \in DataFiles
  BY Files DEF Text
<1>3. ASSUME NEW w \in UnknownWords PROVE tag_array'[w].tag = TagsBy(w)[0]
  <2>1. tag_array'[w].tag = StartTag(w)
    BY DEF StartTags
  <2>2. Made(w, TagsBy(w)) /\ 0 \in 0..Len(data.lexical)
    BY <1>2, MadeByRules
  <2>3. TagsBy(w)[0] = StartTag(w)
    BY <2>2 DEF Made
  <2> QED BY <2>1, <2>3
<1>4. rule' \in 1..(Len(data.lexical) + 1) /\ rule' - 1 = 0
  BY <1>1, <1>2
<1>5. \A w \in UnknownWords' : tag_array'[w].tag = TagsBy(w)'[rule' - 1]
  BY <1>1, <1>3, <1>4, SameText
<1> QED BY <1>1, <1>4, <1>5, SameText DEF ByRules, StartTagsAsDefined

(* A lexical rule gives each of them the tag it would get alone.           *)
LEMMA NextTags ==
  ASSUME Text, ByRules, LexicalRule
  PROVE  ByRules'
<1> DEFINE r == data.lexical[rule]
           n == Len(data.lexical)
<1>1. /\ phase = "lexical" /\ phase' = "lexical" /\ rule' = rule + 1 /\ data' = data /\ corpus' = corpus
      /\ bigram_hash' = bigram_hash /\ bigram_hash = Surrounding \union FiledBigrams
  BY DEF LexicalRule, dataVars, ByRules
<1>2. n \in Nat /\ DOMAIN data.lexical = 1..n /\ data \in DataFiles
  BY Files DEF Text
<1>3. rule \in 1..n /\ rule \in 0..n /\ rule # 0
  BY <1>1, <1>2 DEF ByRules, LexicalRule
<1>4. ASSUME NEW w \in UnknownWords PROVE tag_array'[w].tag = TagsBy(w)[rule]
  <2> DEFINE old == tag_array[w].tag
  <2>1. old = TagsBy(w)[rule - 1] /\ w \in DOMAIN tag_array
    BY <1>1 DEF ByRules, Text
  <2>2. w \in Fired(r) <=> Eligible(r, old) /\ Applies(data, bigram_hash, r, w)
    BY <2>1 DEF Fired
  <2>3. Applies(data, bigram_hash, r, w) <=> Applies(data, PairsOfText, r, w)
    BY <1>1, <1>2, <1>3, PairsFound
  <2>4. tag_array'[w].tag = IF w \in Fired(r) THEN r.new ELSE old
    <3>1. tag_array'[w] = IF w \in Fired(r) THEN [tag |-> r.new, block |-> Field(rule, "tag")] ELSE tag_array[w]
      BY <2>1 DEF LexicalRule, SetTagVal
    <3> QED BY <3>1
  <2>5. Made(w, TagsBy(w))
    BY <1>2, MadeByRules
  <2>6. TagsBy(w)[rule] = IF Eligible(r, TagsBy(w)[rule - 1]) /\ Applies(data, PairsOfText, r, w)
                          THEN r.new ELSE TagsBy(w)[rule - 1]
    BY <1>3, <2>5 DEF Made
  <2> HIDE DEF r, old
  <2> QED BY <2>1, <2>2, <2>3, <2>4, <2>6
<1>5. rule' \in 1..(n + 1) /\ rule' - 1 = rule
  BY <1>1, <1>2, <1>3
<1>6. \A w \in UnknownWords' : tag_array'[w].tag = TagsBy(w)'[rule' - 1]
  BY <1>1, <1>4, <1>5, SameText
<1> QED BY <1>1, <1>5, <1>6, SameText DEF ByRules, StartTagsAsDefined

(* These are the tags the final state tagger starts with.                  *)
LEMMA LastTags ==
  ASSUME Text, ByRules, OutputTags
  PROVE  ByRules'
<1>1. /\ phase = "lexical" /\ phase' = "contextual" /\ data' = data /\ corpus' = corpus
      /\ data \in DataFiles
  BY DEF OutputTags, dataVars, Text
<1>2. rule - 1 = Len(data.lexical)
  <2>1. Len(data.lexical) \in Nat /\ rule \in 1..(Len(data.lexical) + 1) /\ rule > Len(data.lexical)
    BY <1>1, Files DEF ByRules, OutputTags
  <2> QED BY <2>1
<1>3. ASSUME NEW i \in DOMAIN corpus, ~Known(data, corpus[i]), ~Pretagged(corpus[i])
      PROVE  tagged'[i + 2].tag = TagByRules(corpus[i])
  <2>1. corpus[i] \in PlainWords
    BY ElementOfSeq, LenProperties DEF Text
  <2>2. corpus[i] \in UnknownWords
    BY <1>3 DEF UnknownWords, ToSet
  <2>3. tag_array[corpus[i]].tag \in WordTags
    BY <1>1, <2>2 DEF Text
  <2>4. Entered(StartState(corpus[i])).tag = tag_array[corpus[i]].tag
    <3>1. Entered(StartState(corpus[i])) =
            [word |-> corpus[i], own |-> TRUE,
             tag |-> IF Known(data, corpus[i]) THEN lexicon_hash(data, corpus[i]) ELSE tag_array[corpus[i]].tag]
      BY <1>1, <1>3, <2>1, <2>3, StartStates
    <3> QED BY <1>3, <3>1
  <2>5. tag_array[corpus[i]].tag = TagsBy(corpus[i])[Len(data.lexical)]
    BY <1>1, <1>2, <2>2 DEF ByRules
  <2>6. tagged'[i + 2] = Entered(StartState(corpus[i]))
    BY CorpusTagged
  <2> QED BY <1>1, <2>4, <2>5, <2>6, MadeByRules
<1>4. \A w : Known(data, w)' <=> Known(data, w)
  BY <1>1 DEF Known
<1>5. StartTagsAsDefined'
  BY <1>1, <1>3, <1>4, SameText DEF StartTagsAsDefined
<1> QED BY <1>1, <1>5 DEF ByRules

(* Every step keeps that.                                                  *)
LEMMA ByRulesStep ==
  ASSUME Text, ByRules, [Next]_vars
  PROVE  ByRules'
<1>1. CASE UNCHANGED <<phase, data, corpus, bigram_hash, tag_array, tagged, rule>>
  <2>1. \A w : Known(data, w)' <=> Known(data, w)
    BY <1>1 DEF Known
  <2> QED BY <1>1, <2>1, SameText DEF ByRules, StartTagsAsDefined
<1>2. CASE phase' \notin {"filed", "lexical", "contextual"}
  BY <1>2 DEF ByRules, StartTagsAsDefined
<1>3. ASSUME NEW op \in Operators,
             Construct(op) \/ OpenFile(op) \/ OpenFails(op) \/ Load(op) \/ Tag(op) \/ destroy_tagger(op)
      PROVE  ByRules'
  <2>1. CASE Construct(op) \/ OpenFile(op) \/ OpenFails(op) \/ Load(op)
    BY <1>1, <2>1 DEF Construct, OpenFile, OpenFails, Load, callVars
  <2>2. CASE Tag(op) \/ destroy_tagger(op)
    <3>1. phase' \in {"crashed", "read", "destroying"}
      BY <2>2 DEF Tag, destroy_tagger
    <3> QED BY <1>2, <3>1
  <2> QED BY <1>3, <2>1, <2>2
<1>4. CASE AllConstructed \/ StopProcessing \/ PrintTags
  <2>1. phase' \in {"running", "destroying"}
    BY <1>4 DEF AllConstructed, StopProcessing, PrintTags
  <2> QED BY <1>2, <2>1
<1>5. CASE ReadCorpus
  <2>1. phase' = "filed" /\ data' = data /\ corpus' = corpus /\ bigram_hash' = Surrounding
    BY <1>5 DEF ReadCorpus, dataVars
  <2> QED BY <2>1, SameText DEF ByRules, StartTagsAsDefined
<1>6. CASE ContextualRule
  <2>1. phase' = "contextual" /\ rule' = rule + 1 /\ rule \in Nat \ {0}
    BY <1>6 DEF ContextualRule, Text
  <2> QED BY <2>1 DEF ByRules, StartTagsAsDefined
<1>7. CASE UNCHANGED vars
  BY <1>1, <1>7 DEF vars, dataVars, callVars
<1> QED BY <1>3, <1>4, <1>5, <1>6, <1>7, FirstTags, NextTags, LastTags DEF Next

(* The start tags are what the lexical rules make of each unknown word      *)
(* alone, for every lexicon, rules and text, and however often and by       *)
(* however many operators the tagger has been called before.                *)
THEOREM StartTagsHold == Spec => []StartTagsAsDefined
<1>1. Init => Text /\ ByRules
  BY TextStarts DEF Init, ByRules, StartTagsAsDefined
<1>2. Text /\ ByRules /\ [Next]_vars => Text' /\ ByRules'
  BY TextStep, ByRulesStep
<1>3. ByRules => StartTagsAsDefined
  BY DEF ByRules
<1> QED BY <1>1, <1>2, <1>3, PTL DEF Spec
==============================================================================
