--------------------------- MODULE TextUtils_proofs ---------------------------
(***************************************************************************)
(* Proofs about the text functions, for texts of any length: the n-grams   *)
(* of words and the rolling hash of the n-grams of characters, the split   *)
(* into words and the room for them, the rows of the tokenizer's table,    *)
(* the lists that are read back from what the tagger prints, and the noun  *)
(* phrases.  The lemmas on loops come first; the proofs about the tagger   *)
(* use them too.                                                           *)
(***************************************************************************)
EXTENDS TextUtils, SequenceTheorems, FiniteSetTheorems, WellFoundedInduction, TLAPS

-----------------------------------------------------------------------------
(* Loops and bounded sets                                                  *)

(* Every nonempty set of natural numbers has a least element, and so a set *)
(* with 0 and all successors has them all.                                 *)
LEMMA FromZero ==
  ASSUME NEW S \in SUBSET Nat, 0 \in S, \A n \in S : n + 1 \in S
  PROVE  \A n \in Nat : n \in S
<1> SUFFICES ASSUME Nat \ S # {} PROVE FALSE
  OBVIOUS
<1> DEFINE R == {ss \in Nat \X Nat : ss[1] < ss[2]}
<1>1. IsWellFoundedOn(R, Nat)
  BY NatLessThanWellFounded DEF OpToRel
<1> HIDE DEF R
<1>2. PICK n \in Nat \ S : \A m \in Nat \ S : <<m, n>> \notin R
  BY <1>1, WFMin
<1>3. n # 0 /\ n - 1 \in Nat /\ n - 1 < n
  BY <1>2
<1>4. n - 1 \in S
  BY <1>2, <1>3 DEF R
<1> QED BY <1>2, <1>3, <1>4

(* Nonempty sets of numbers have a least element, bounded ones a greatest. *)
LEMMA Least ==
  ASSUME NEW S \in SUBSET Nat, S # {}
  PROVE  Min(S) \in S /\ \A y \in S : Min(S) <= y
<1> DEFINE R == {ss \in Nat \X Nat : ss[1] < ss[2]}
<1>1. IsWellFoundedOn(R, Nat)
  BY NatLessThanWellFounded DEF OpToRel
<1> HIDE DEF R
<1>2. PICK n \in S : \A m \in S : <<m, n>> \notin R
  BY <1>1, WFMin
<1>3. ASSUME NEW m \in S PROVE n <= m
  <2>1. <<m, n>> \in Nat \X Nat /\ <<m, n>>[1] = m /\ <<m, n>>[2] = n
    OBVIOUS
  <2>2. m < n => <<m, n>> \in R
    BY <2>1 DEF R
  <2> QED BY <1>2, <2>2
<1> QED BY <1>3 DEF Min

(* A bounded set has a greatest element.                                   *)
LEMMA Greatest ==
  ASSUME NEW n \in Nat, NEW S \in SUBSET (1..n), S # {}
  PROVE  Max(S) \in S /\ \A y \in S : y <= Max(S)
<1> DEFINE T == {n - x : x \in S}
<1>1. T \in SUBSET Nat /\ T # {}
  <2>1. PICK x \in S : TRUE
    OBVIOUS
  <2>2. n - x \in T
    OBVIOUS
  <2> QED BY <2>2
<1>2. PICK x \in S : Min(T) = n - x
  BY <1>1, Least
<1>3. \A y \in S : x >= y
  <2> SUFFICES ASSUME NEW y \in S PROVE x >= y
    OBVIOUS
  <2>1. n - y \in T
    OBVIOUS
  <2>2. n - x <= n - y
    BY <1>1, <1>2, <2>1, Least
  <2> QED BY <2>2
<1> HIDE DEF T
<1> QED BY <1>3 DEF Max

(* The states a loop goes through.                                         *)
Passes(g, n, S, base, f) ==
  g \in [0..n -> S] /\ g[0] = base /\ \A k \in 1..n : g[k] = f[k][g[k - 1]]

(* A loop that goes from one state to the next is well defined.             *)
LEMMA Loop ==
  ASSUME NEW n \in Nat, NEW S, NEW base \in S, NEW f \in [1..n -> [S -> S]]
  PROVE  \E g : Passes(g, n, S, base, f)
<1> DEFINE Done(m, g) == g[0] = base /\ \A k \in 1..m : g[k] = f[k][g[k - 1]]
           T == {m \in Nat : m <= n => \E g \in [0..m -> S] : Done(m, g)}
<1>1. 0 \in T
  <2> DEFINE g == [k \in 0..0 |-> base]
  <2>1. g \in [0..0 -> S] /\ Done(0, g)
    OBVIOUS
  <2> QED BY <2>1
<1>2. ASSUME NEW m \in T PROVE m + 1 \in T
  <2>1. m \in Nat /\ m + 1 \in Nat
    <3>1. T \in SUBSET Nat
      <4> HIDE DEF Done
      <4> QED OBVIOUS
    <3> HIDE DEF T
    <3> QED BY <3>1
  <2> SUFFICES ASSUME m + 1 <= n PROVE \E g \in [0..(m + 1) -> S] : Done(m + 1, g)
    BY <2>1
  <2>2. m \in Nat /\ m <= n /\ m + 1 \in 1..n
    <3> HIDE DEF T, Done
    <3> QED BY <2>1
  <2>3. PICK g \in [0..m -> S] : Done(m, g)
    BY <2>2
  <2> DEFINE h == [k \in 0..(m + 1) |-> IF k <= m THEN g[k] ELSE f[m + 1][g[m]]]
  <2>4. f[m + 1][g[m]] \in S /\ \A k \in 0..m : g[k] \in S
    BY <2>2
  <2>5. h \in [0..(m + 1) -> S]
    BY <2>2, <2>4
  <2>6. \A k \in 0..m : h[k] = g[k]
    BY <2>2
  <2>7. h[m + 1] = f[m + 1][g[m]]
    BY <2>2
  <2> HIDE DEF h
  <2>8. h[0] = base
    BY <2>2, <2>3, <2>6
  <2>9. ASSUME NEW k \in 1..(m + 1) PROVE h[k] = f[k][h[k - 1]]
    <3>1. CASE k = m + 1
      <4>1. k - 1 = m /\ m \in 0..m
        BY <2>2, <3>1
      <4> QED BY <2>6, <2>7, <3>1, <4>1
    <3>2. CASE k \in 1..m
      <4>1. k \in 0..m /\ k - 1 \in 0..m
        BY <2>2, <3>2
      <4> QED BY <2>3, <2>6, <3>2, <4>1
    <3> QED BY <2>2, <3>1, <3>2
  <2> QED BY <2>5, <2>8, <2>9
<1> HIDE DEF T
<1>3. \A m \in Nat : m \in T
  <2>1. T \in SUBSET Nat
    BY DEF T
  <2> QED BY <1>1, <1>2, <2>1, FromZero
<1>4. PICK g \in [0..n -> S] : Done(n, g)
  BY <1>3 DEF T
<1>5. Passes(g, n, S, base, f)
  BY <1>4 DEF Passes
<1> QED BY <1>5

(* What holds before a loop and is kept by each of its steps holds at every step. *)
LEMMA AlongLoop ==
  ASSUME NEW n \in Nat, NEW P \in SUBSET (0..n), 0 \in P, \A k \in 1..n : k - 1 \in P => k \in P
  PROVE  \A k \in 0..n : k \in P
<1> DEFINE T == {k \in Nat : k <= n => k \in P}
<1>1. 0 \in T
  OBVIOUS
<1>2. ASSUME NEW k \in T PROVE k + 1 \in T
  <2> SUFFICES ASSUME k + 1 <= n PROVE k + 1 \in P
    OBVIOUS
  <2>1. k + 1 \in 1..n /\ (k + 1) - 1 = k /\ k <= n
    OBVIOUS
  <2> QED BY <2>1
<1>3. T \in SUBSET Nat
  OBVIOUS
<1> HIDE DEF T
<1>4. \A k \in Nat : k \in T
  BY <1>1, <1>2, <1>3, FromZero
<1> QED BY <1>4 DEF T

-----------------------------------------------------------------------------
(* The rolling hash: arithmetic modulo the size of the hash                *)
(* Division with remainder, for any dividend.                              *)
LEMMA ModForm ==
  ASSUME NEW x \in Int, NEW m \in Nat \ {0}
  PROVE  x % m \in 0..(m - 1) /\ x = m * (x \div m) + (x % m) /\ x \div m \in Int
<1>1. x % m \in 0..(m - 1)
  OBVIOUS
<1>2. x \div m \in Int
  OBVIOUS
<1>3. x = m * (x \div m) + (x % m)
  OBVIOUS
<1> QED BY <1>1, <1>2, <1>3

(* There is one remainder.                                                 *)
LEMMA ModUnique ==
  ASSUME NEW x \in Int, NEW m \in Nat \ {0}, NEW q \in Int, NEW r \in 0..(m - 1), x = m * q + r
  PROVE  x % m = r
<1> DEFINE p == x \div m
           s == x % m
<1>1. s \in 0..(m - 1) /\ p \in Int /\ x = m * p + s
  BY ModForm
<1> HIDE DEF p, s
<1>2. m * (p - q) = r - s /\ r - s < m /\ s - r < m
  BY <1>1
<1>3. CASE p - q >= 1
  <2>1. m * (p - q) >= m
    BY <1>1, <1>3
  <2> QED BY <1>1, <1>2, <2>1
<1>4. CASE p - q <= -1
  <2>1. m * (q - p) >= m
    BY <1>1, <1>4
  <2>2. m * (p - q) = -(m * (q - p))
    BY <1>1
  <2> QED BY <1>1, <1>2, <2>1, <2>2
<1>5. CASE p = q
  <2>1. m * p = m * q
    BY <1>5
  <2>2. m * q \in Int
    OBVIOUS
  <2> QED BY <1>1, <2>1, <2>2
<1>6. s = r
  BY <1>1, <1>3, <1>4, <1>5
<1> QED BY <1>6 DEF s

(* Numbers that differ by a multiple of the size of the hash have the same hash. *)
Size == 2^wordsize

Congruent(x, y) == \E q \in Int : x = y + Size * q

(* Mask() gives a number congruent to its argument.                        *)
LEMMA MaskCongruent ==
  ASSUME NEW x \in Int
  PROVE  Mask(x) \in Nat /\ Congruent(Mask(x), x) /\ Congruent(x, Mask(x))
<1>1. Size \in Nat \ {0}
  BY TextAssumption DEF Size
<1>2. Mask(x) = x % Size
  BY DEF Mask, Size
<1> HIDE DEF Size
<1> DEFINE q == x \div Size
<1>3. Mask(x) \in Nat /\ q \in Int /\ x = Size * q + Mask(x)
  BY <1>1, <1>2, ModForm
<1> HIDE DEF q
<1>4. -q \in Int /\ Mask(x) = x + Size * (-q) /\ x = Mask(x) + Size * q
  BY <1>1, <1>3
<1> QED BY <1>3, <1>4 DEF Congruent

(* Congruent numbers have the same Mask().                                 *)
LEMMA SameMask ==
  ASSUME NEW x \in Int, NEW y \in Int, Congruent(x, y)
  PROVE  Mask(x) = Mask(y)
<1>1. Size \in Nat \ {0}
  BY TextAssumption DEF Size
<1>2. Mask(x) = x % Size /\ Mask(y) = y % Size
  BY DEF Mask, Size
<1>3. PICK q \in Int : x = y + Size * q
  BY DEF Congruent
<1> HIDE DEF Size
<1> DEFINE p == y \div Size
           r == y % Size
<1>4. p \in Int /\ r \in 0..(Size - 1) /\ y = Size * p + r
  BY <1>1, ModForm
<1> HIDE DEF p, r
<1>5. p + q \in Int /\ x = Size * (p + q) + r
  BY <1>1, <1>3, <1>4
<1>6. x % Size = r
  BY <1>1, <1>4, <1>5, ModUnique
<1> QED BY <1>2, <1>6 DEF r

(* Congruence goes with the operations of the hash.                        *)
LEMMA CongruentSum ==
  ASSUME NEW x \in Int, NEW y \in Int, NEW z \in Int, Congruent(x, y)
  PROVE  Congruent(x + z, y + z)
<1>1. Size \in Nat \ {0}
  BY TextAssumption DEF Size
<1> QED BY <1>1 DEF Congruent

(* And with a factor.                                                      *)
LEMMA CongruentProduct ==
  ASSUME NEW x \in Int, NEW y \in Int, NEW z \in Int, Congruent(x, y)
  PROVE  Congruent(z * x, z * y)
<1>1. Size \in Nat \ {0}
  BY TextAssumption DEF Size
<1>2. PICK q \in Int : x = y + Size * q
  BY DEF Congruent
<1>3. z * q \in Int /\ z * x = z * y + Size * (z * q)
  <2>1. z * (Size * q) = Size * (z * q)
    BY <1>1
  <2>2. z * (y + Size * q) = z * y + z * (Size * q)
    BY <1>1
  <2> QED BY <1>2, <2>1, <2>2
<1> QED BY <1>3 DEF Congruent

(* It is symmetric,                                                        *)
LEMMA CongruentSwap ==
  ASSUME NEW x \in Int, NEW y \in Int, Congruent(x, y)
  PROVE  Congruent(y, x)
<1>1. Size \in Nat \ {0}
  BY TextAssumption DEF Size
<1>2. PICK q \in Int : x = y + Size * q
  BY DEF Congruent
<1>3. -q \in Int /\ y = x + Size * (-q)
  BY <1>1, <1>2
<1> QED BY <1>3 DEF Congruent

(* and transitive.                                                         *)
LEMMA CongruentChain ==
  ASSUME NEW x \in Int, NEW y \in Int, NEW z \in Int, Congruent(x, y), Congruent(y, z)
  PROVE  Congruent(x, z)
<1>1. Size \in Nat \ {0}
  BY TextAssumption DEF Size
<1>2. PICK q \in Int : x = y + Size * q
  BY DEF Congruent
<1>3. PICK p \in Int : y = z + Size * p
  BY DEF Congruent
<1>4. p + q \in Int /\ x = z + Size * (p + q)
  BY <1>1, <1>2, <1>3
<1> QED BY <1>4 DEF Congruent

-----------------------------------------------------------------------------
(* What the loop of the constructor goes through.                          *)
Powers(p, n) == p \in [0..n -> Nat] /\ p[0] = 1 /\ \A k \in 1..n : p[k] = Mask(p[k - 1] * B)

(* The loop is well defined.                                               *)
LEMMA PowersExist ==
  ASSUME NEW n \in Nat
  PROVE  \E p : Powers(p, n)
<1> DEFINE f == [k \in 1..n |-> [x \in Nat |-> Mask(x * B)]]
<1>1. \A x \in Nat : Mask(x * B) \in Nat
  <2> SUFFICES ASSUME NEW x \in Nat PROVE Mask(x * B) \in Nat
    OBVIOUS
  <2>1. x * B \in Int
    BY DEF B
  <2> QED BY <2>1, MaskCongruent
<1>2. f \in [1..n -> [Nat -> Nat]] /\ 1 \in Nat
  BY <1>1
<1>3. \A k \in 1..n, x \in Nat : f[k][x] = Mask(x * B)
  OBVIOUS
<1> HIDE DEF f
<1>4. PICK p : Passes(p, n, Nat, 1, f)
  BY <1>2, Loop
<1>5. ASSUME NEW k \in 1..n PROVE p[k] = Mask(p[k - 1] * B)
  <2>1. k - 1 \in 0..n
    OBVIOUS
  <2> QED BY <1>3, <1>4, <2>1 DEF Passes
<1>6. Powers(p, n)
  BY <1>4, <1>5 DEF Passes, Powers
<1> QED BY <1>6

(* BtoN(k) is what the loop has reached after k passes, whatever n is.     *)
LEMMA PowerReached ==
  ASSUME NEW n \in Nat, NEW p, Powers(p, n), NEW m \in 0..n
  PROVE  BtoN(m) = p[m]
<1> DEFINE Is(h) == h = [i \in 0..m |-> IF i = 0 THEN 1 ELSE Mask(h[i - 1] * B)]
           g == [i \in 0..m |-> p[i]]
           h == CHOOSE h : Is(h)
<1>1. Is(g)
  <2>1. \A i \in 0..m : i # 0 => i - 1 \in 0..m /\ i \in 1..n
    OBVIOUS
  <2>2. \A i \in 0..m : g[i] = IF i = 0 THEN 1 ELSE Mask(g[i - 1] * B)
    BY <2>1 DEF Powers
  <2> HIDE DEF g
  <2>3. g = [i \in 0..m |-> g[i]]
    BY DEF g
  <2>4. g = [i \in 0..m |-> IF i = 0 THEN 1 ELSE Mask(g[i - 1] * B)]
    BY <2>2, <2>3
  <2> QED BY <2>4
<1>2. BtoN(m) = h[m]
  BY DEF BtoN
<1>3. Is(h)
  BY <1>1
<1> HIDE DEF h
<1> DEFINE P == {i \in 0..m : h[i] = p[i]}
<1>4. 0 \in P
  BY <1>3 DEF Powers
<1>5. ASSUME NEW i \in 1..m, i - 1 \in P PROVE i \in P
  BY <1>3, <1>5 DEF Powers
<1>6. m \in P
  <2>1. P \in SUBSET (0..m) /\ m \in Nat
    OBVIOUS
  <2> HIDE DEF P, Is
  <2> QED BY <1>4, <1>5, <2>1, AlongLoop
<1> QED BY <1>2, <1>6

(* Each power is the one before it times B, masked.                        *)
LEMMA PowerSteps ==
  ASSUME NEW n \in Nat
  PROVE  /\ BtoN(n) \in Nat /\ BtoN(0) = 1
         /\ BtoN(n + 1) = Mask(BtoN(n) * B) /\ Congruent(BtoN(n + 1), BtoN(n) * B)
<1>1. PICK p : Powers(p, n + 1)
  BY PowersExist
<1>2. BtoN(n) = p[n] /\ BtoN(0) = p[0] /\ BtoN(n + 1) = p[n + 1]
  BY <1>1, PowerReached
<1>3. p[n] \in Nat /\ p[0] = 1 /\ p[n + 1] = Mask(p[(n + 1) - 1] * B)
  BY <1>1 DEF Powers
<1>4. BtoN(n + 1) = Mask(BtoN(n) * B) /\ BtoN(n) * B \in Int
  BY <1>2, <1>3 DEF B
<1> QED BY <1>2, <1>3, <1>4, MaskCongruent

(* eat() and update(), up to congruence.                                   *)
LEMMA EatCongruent ==
  ASSUME NEW h \in Int, NEW c \in Alphabet
  PROVE  eat(h, c) \in Nat /\ Congruent(eat(h, c), B * h + hashvalues[c])
<1>1. hashvalues[c] \in Nat /\ B * h + hashvalues[c] \in Int
  BY TextAssumption DEF B
<1> QED BY <1>1, MaskCongruent DEF eat

(* update() is eat() less what the outgoing character has become.          *)
LEMMA UpdateCongruent ==
  ASSUME NEW h \in Int, NEW c \in Alphabet, NEW d \in Alphabet, NEW n \in Nat
  PROVE  /\ update(h, n, d, c) \in Nat
         /\ Congruent(update(h, n, d, c), B * h + hashvalues[c] - BtoN(n) * hashvalues[d])
<1>1. hashvalues[c] \in Nat /\ hashvalues[d] \in Nat /\ BtoN(n) \in Nat
  BY TextAssumption, PowerSteps
<1>2. B * h + hashvalues[c] - BtoN(n) * hashvalues[d] \in Int
  BY <1>1 DEF B
<1> QED BY <1>1, <1>2, MaskCongruent DEF update

-----------------------------------------------------------------------------
(* The hash after each character of a window that begins at i.             *)
Eaten(e, s, i, n) ==
  e \in [0..n -> Nat] /\ e[0] = 0 /\ \A k \in 1..n : e[k] = eat(e[k - 1], s[i + k - 1])

(* Such a series of hashes exists.                                         *)
LEMMA EatenExists ==
  ASSUME NEW s \in Seq(Alphabet), NEW n \in Nat, NEW i \in 1..(Len(s) - n + 1)
  PROVE  \E e : Eaten(e, s, i, n)
<1> DEFINE f == [k \in 1..n |-> [x \in Nat |-> eat(x, s[i + k - 1])]]
<1>1. \A k \in 1..n : s[i + k - 1] \in Alphabet
  <2> SUFFICES ASSUME NEW k \in 1..n PROVE s[i + k - 1] \in Alphabet
    OBVIOUS
  <2>1. i + k - 1 \in 1..Len(s)
    OBVIOUS
  <2> QED BY <2>1
<1>2. \A k \in 1..n, x \in Nat : eat(x, s[i + k - 1]) \in Nat
  <2> SUFFICES ASSUME NEW k \in 1..n, NEW x \in Nat PROVE eat(x, s[i + k - 1]) \in Nat
    OBVIOUS
  <2> QED BY <1>1, EatCongruent
<1>3. f \in [1..n -> [Nat -> Nat]] /\ 0 \in Nat
  BY <1>2
<1>4. \A k \in 1..n, x \in Nat : f[k][x] = eat(x, s[i + k - 1])
  OBVIOUS
<1> HIDE DEF f
<1>5. PICK e : Passes(e, n, Nat, 0, f)
  BY <1>3, Loop
<1>6. ASSUME NEW k \in 1..n PROVE e[k] = eat(e[k - 1], s[i + k - 1])
  <2>1. k - 1 \in 0..n
    OBVIOUS
  <2> QED BY <1>4, <1>5, <2>1 DEF Passes
<1>7. Eaten(e, s, i, n)
  BY <1>5, <1>6 DEF Passes, Eaten
<1> QED BY <1>7

(* One more character: what the powers of B add up to.                     *)
LEMMA RollStep ==
  ASSUME NEW x \in Int, NEW y \in Int, NEW p \in Int, NEW q \in Int, NEW v \in Int, NEW w \in Int,
         Congruent(x, y - p * v), Congruent(q, p * B)
  PROVE  Congruent(B * x + w, B * y + w - q * v)
<1>1. B \in Int /\ p * v \in Int /\ q * v \in Int /\ p * B \in Int
  BY DEF B
<1>2. Congruent(v * q, v * (p * B))
  BY <1>1, CongruentProduct
<1>3. Congruent(B * x, B * (y - p * v))
  <2>1. y - p * v \in Int
    BY <1>1
  <2> QED BY <1>1, <2>1, CongruentProduct
<1>4. Congruent(B * x + w, B * (y - p * v) + w)
  <2>1. B * x \in Int /\ B * (y - p * v) \in Int
    BY <1>1
  <2> QED BY <1>3, <2>1, CongruentSum
<1>5. Congruent(v * q + (B * y + w - q * v - v * (p * B)), v * (p * B) + (B * y + w - q * v - v * (p * B)))
  <2>1. v * q \in Int /\ v * (p * B) \in Int /\ B * y + w - q * v - v * (p * B) \in Int
    BY <1>1
  <2> QED BY <1>2, <2>1, CongruentSum
<1>6. v * (p * B) = B * (p * v) /\ v * q = q * v
  BY <1>1
<1>7. B * (y - p * v) = B * y - B * (p * v)
  BY <1>1
<1>8. v * q + (B * y + w - q * v - v * (p * B)) = B * (y - p * v) + w
  <2>1. B * y \in Int /\ B * (p * v) \in Int
    BY <1>1
  <2> QED BY <1>1, <1>6, <1>7, <2>1
<1>9. v * (p * B) + (B * y + w - q * v - v * (p * B)) = B * y + w - q * v
  <2>1. B * y \in Int /\ v * (p * B) \in Int
    BY <1>1
  <2> QED BY <1>1, <2>1
<1>10. Congruent(B * (y - p * v) + w, B * y + w - q * v)
  BY <1>5, <1>8, <1>9
<1>11. B * x + w \in Int /\ B * (y - p * v) + w \in Int /\ B * y + w - q * v \in Int
  BY <1>1
<1> QED BY <1>4, <1>10, <1>11, CongruentChain

(* The powers again, as the proofs below use them.                         *)
LEMMA PowerFacts ==
  /\ B \in Int /\ BtoN(0) = 1
  /\ \A k \in Nat : BtoN(k) \in Int /\ Congruent(BtoN(k + 1), BtoN(k) * B)
<1>1. B \in Int
  BY DEF B
<1>2. 0 \in Nat
  OBVIOUS
<1>3. BtoN(0) = 1
  BY <1>2, PowerSteps
<1>4. ASSUME NEW k \in Nat PROVE BtoN(k) \in Int /\ Congruent(BtoN(k + 1), BtoN(k) * B)
  BY PowerSteps
<1> QED BY <1>1, <1>3, <1>4

(* Integers are closed under what the hash does.                           *)
LEMMA Whole ==
  ASSUME NEW x \in Int, NEW y \in Int
  PROVE  x * y \in Int /\ x + y \in Int /\ x - y \in Int /\ -x \in Int /\ x + (-y) = x - y
OBVIOUS

(* The same character is eaten by a hash and by one that lacks the first character. *)
LEMMA EatTwice ==
  ASSUME NEW x \in Int, NEW y \in Int, NEW p \in Int, NEW q \in Int, NEW v \in Int, NEW w \in Int,
         Congruent(x, y - p * v), Congruent(q, p * B)
  PROVE  /\ Mask(B * x + w) = Mask(B * y + w - q * v)
         /\ Congruent(Mask(B * x + w), Mask(B * y + w) - q * v)
<1>1. Congruent(B * x + w, B * y + w - q * v)
  BY RollStep
<1> DEFINE a == B * x + w
           b == B * y + w
           c == q * v
<1>2. a \in Int /\ b \in Int /\ c \in Int /\ b - c \in Int
  BY DEF B
<1>3. b - c = B * y + w - q * v
  BY DEF B
<1>4. Congruent(a, b - c)
  BY <1>1, <1>3
<1> HIDE DEF a, b, c
<1>5. Mask(a) = Mask(b - c)
  BY <1>2, <1>4, SameMask
<1>6. Mask(a) \in Int /\ Mask(b) \in Int /\ Congruent(Mask(a), a) /\ Congruent(b, Mask(b))
  BY <1>2, MaskCongruent
<1>7. -c \in Int /\ b + (-c) = b - c /\ Mask(b) + (-c) = Mask(b) - c /\ Mask(b) - c \in Int
  BY <1>2, <1>6, Whole
<1>8. Congruent(b - c, Mask(b) - c)
  BY <1>2, <1>6, <1>7, CongruentSum
<1>9. Congruent(Mask(a), Mask(b) - c)
  <2>1. Congruent(Mask(a), b - c)
    BY <1>2, <1>4, <1>6, CongruentChain
  <2> QED BY <1>2, <1>6, <1>7, <1>8, <2>1, CongruentChain
<1>10. a = B * x + w /\ b = B * y + w /\ c = q * v
  BY DEF a, b, c
<1> QED BY <1>5, <1>9, <1>3, <1>10

(* At the start one of them has the first character, the other nothing.    *)
LEMMA EatFirst ==
  ASSUME NEW v \in Int
  PROVE  Congruent(0, Mask(B * 0 + v) - 1 * v)
<1>1. B * 0 + v = v /\ 1 * v = v
  BY DEF B
<1>2. Congruent(v, Mask(v)) /\ Mask(v) \in Int
  BY MaskCongruent
<1>3. -v \in Int /\ v + (-v) = 0 /\ Mask(v) + (-v) = Mask(v) - v
  BY <1>2, Whole
<1>4. Congruent(v + (-v), Mask(v) + (-v))
  BY <1>2, <1>3, CongruentSum
<1> QED BY <1>1, <1>3, <1>4

(* Two windows of numbers, the second one number further on.               *)
LEMMA RollsOn ==
  ASSUME NEW n \in Nat \ {0}, NEW w \in [0..n -> Int], NEW e \in [0..n -> Int], NEW g \in [0..n -> Int],
         e[0] = 0, g[0] = 0,
         \A k \in 1..n : e[k] = Mask(B * e[k - 1] + w[k - 1]),
         \A k \in 1..n : g[k] = Mask(B * g[k - 1] + w[k])
  PROVE  g[n] = Mask(B * e[n] + w[n] - BtoN(n) * w[0])
<1>1. BtoN(0) = 1 /\ \A k \in Nat : BtoN(k) \in Int /\ Congruent(BtoN(k + 1), BtoN(k) * B)
  BY PowerFacts
<1>2. w[0] \in Int
  OBVIOUS
<1> DEFINE P == {k \in 0..(n - 1) : Congruent(g[k], e[k + 1] - BtoN(k) * w[0])}
<1>3. ASSUME NEW k \in 1..n, Congruent(g[k - 1], e[k] - BtoN(k - 1) * w[0])
      PROVE  /\ g[k] = Mask(B * e[k] + w[k] - BtoN(k) * w[0])
             /\ Congruent(g[k], Mask(B * e[k] + w[k]) - BtoN(k) * w[0])
  <2>1. k \in 0..n /\ k - 1 \in 0..n /\ k - 1 \in Nat /\ k \in Nat /\ (k - 1) + 1 = k
    OBVIOUS
  <2>2. e[k] \in Int /\ g[k - 1] \in Int /\ w[k] \in Int
    BY <2>1
  <2>3. BtoN(k) \in Int /\ BtoN(k - 1) \in Int
    BY <1>1, <2>1
  <2>4. Congruent(BtoN((k - 1) + 1), BtoN(k - 1) * B)
    BY <1>1, <2>1
  <2>5. Congruent(BtoN(k), BtoN(k - 1) * B)
    BY <2>1, <2>4
  <2>6. g[k] = Mask(B * g[k - 1] + w[k])
    OBVIOUS
  <2>7. /\ Mask(B * g[k - 1] + w[k]) = Mask(B * e[k] + w[k] - BtoN(k) * w[0])
        /\ Congruent(Mask(B * g[k - 1] + w[k]), Mask(B * e[k] + w[k]) - BtoN(k) * w[0])
    BY <1>2, <1>3, <2>2, <2>3, <2>5, EatTwice
  <2> QED BY ONLY <2>6, <2>7
<1>4. 0 \in P
  <2>1. 1 \in 1..n /\ 1 - 1 = 0 /\ 0 + 1 = 1 /\ 0 \in 0..(n - 1)
    OBVIOUS
  <2>2. e[1] = Mask(B * 0 + w[0])
    BY <2>1
  <2>3. Congruent(0, Mask(B * 0 + w[0]) - 1 * w[0])
    BY <1>2, EatFirst
  <2>4. Congruent(g[0], e[0 + 1] - BtoN(0) * w[0])
    BY <1>1, <2>1, <2>2, <2>3
  <2> QED BY <2>1, <2>4
<1>5. ASSUME NEW k \in 1..(n - 1), k - 1 \in P PROVE k \in P
  <2>1. k \in 1..n /\ k + 1 \in 1..n /\ (k + 1) - 1 = k /\ (k - 1) + 1 = k
    OBVIOUS
  <2>2. Congruent(g[k - 1], e[k] - BtoN(k - 1) * w[0])
    BY <1>5, <2>1
  <2>3. Congruent(g[k], Mask(B * e[k] + w[k]) - BtoN(k) * w[0])
    BY <1>3, <2>1, <2>2
  <2>4. e[k + 1] = Mask(B * e[(k + 1) - 1] + w[(k + 1) - 1])
    BY <2>1
  <2>5. e[k + 1] = Mask(B * e[k] + w[k])
    BY <2>1, <2>4
  <2> QED BY <2>3, <2>5
<1>6. n - 1 \in P
  <2>1. P \in SUBSET (0..(n - 1)) /\ n - 1 \in Nat /\ n - 1 \in 0..(n - 1)
    OBVIOUS
  <2> HIDE DEF P
  <2> QED BY <1>4, <1>5, <2>1, AlongLoop
<1>7. n \in 1..n /\ (n - 1) + 1 = n
  OBVIOUS
<1>8. Congruent(g[n - 1], e[n] - BtoN(n - 1) * w[0])
  BY <1>6, <1>7
<1> QED BY <1>3, <1>7, <1>8

(* Rolling on by one character gives the hash of the next window.          *)
LEMMA Rolls ==
  ASSUME NEW s \in Seq(Alphabet), NEW n \in Nat \ {0}, NEW i \in 1..(Len(s) - n),
         NEW e, Eaten(e, s, i, n), NEW g, Eaten(g, s, i + 1, n)
  PROVE  g[n] = update(e[n], n, s[i], s[i + n])
<1> DEFINE w == [k \in 0..n |-> hashvalues[s[i + k]]]
<1>1. w \in [0..n -> Int]
  <2> SUFFICES ASSUME NEW k \in 0..n PROVE hashvalues[s[i + k]] \in Int
    OBVIOUS
  <2>1. i + k \in 1..Len(s)
    OBVIOUS
  <2>2. s[i + k] \in Alphabet
    BY <2>1
  <2> QED BY <2>2, TextAssumption
<1>2. \A k \in 0..n : w[k] = hashvalues[s[i + k]]
  OBVIOUS
<1>3. /\ e \in [0..n -> Int] /\ g \in [0..n -> Int]
      /\ e[0] = 0 /\ g[0] = 0
  BY DEF Eaten
<1>4. ASSUME NEW k \in 1..n
      PROVE  g[k] = Mask(B * g[k - 1] + w[k]) /\ e[k] = Mask(B * e[k - 1] + w[k - 1])
  <2>1. (i + 1) + k - 1 = i + k /\ i + k - 1 = i + (k - 1) /\ k \in 0..n /\ k - 1 \in 0..n
    OBVIOUS
  <2> HIDE DEF w
  <2> QED BY <1>2, <2>1 DEF Eaten, eat
<1>5. w[n] = hashvalues[s[i + n]] /\ w[0] = hashvalues[s[i]]
  <2>1. n \in 0..n /\ 0 \in 0..n /\ i + 0 = i
    OBVIOUS
  <2> HIDE DEF w
  <2> QED BY <1>2, <2>1
<1> HIDE DEF w
<1>6. g[n] = Mask(B * e[n] + w[n] - BtoN(n) * w[0])
  BY <1>1, <1>3, <1>4, RollsOn
<1> QED BY <1>5, <1>6 DEF update

(* The sum of hash() so far, and what the rolling hash has for the same characters. *)
LEMMA AddTerm ==
  ASSUME NEW a \in Int, NEW e \in Int, NEW p \in Int, NEW q \in Int, NEW v \in Int,
         Congruent(a, p * e), Congruent(p, q * B)
  PROVE  Congruent(Mask(a + Mask(q * v)), q * Mask(B * e + v))
<1> DEFINE m == Mask(q * v)
           u == q * v
           f == B * e + v
           r == p * e
           d == (q * B) * e
<1>1. u \in Int /\ f \in Int /\ r \in Int /\ d \in Int /\ q * B \in Int
  BY DEF B
<1>2. q * f = d + u
  BY <1>1 DEF B
<1>3. Congruent(e * p, e * (q * B))
  BY <1>1, CongruentProduct
<1>4. e * p = r /\ e * (q * B) = d
  BY <1>1
<1>5. Congruent(r, d)
  BY <1>3, <1>4
<1>6. Congruent(a, r)
  OBVIOUS
<1> HIDE DEF r, d, f
<1>7. Congruent(a, d)
  BY <1>1, <1>5, <1>6, CongruentChain
<1>8. m \in Int /\ Congruent(m, u)
  BY <1>1, MaskCongruent
<1> HIDE DEF u, m
<1>9. a + m \in Int /\ d + m \in Int /\ d + u \in Int
  BY <1>1, <1>8
<1>10. Congruent(a + m, d + m)
  BY <1>1, <1>7, <1>8, CongruentSum
<1>11. Congruent(m + d, u + d)
  BY <1>1, <1>8, CongruentSum
<1>12. Congruent(d + m, d + u)
  <2>1. m + d = d + m /\ u + d = d + u
    BY <1>1, <1>8
  <2> QED BY <1>11, <2>1
<1>13. Congruent(a + m, d + u)
  BY <1>9, <1>10, <1>12, CongruentChain
<1>14. Mask(a + m) \in Int /\ Congruent(Mask(a + m), a + m)
  BY <1>9, MaskCongruent
<1>15. Mask(f) \in Int /\ Congruent(f, Mask(f))
  BY <1>1, MaskCongruent
<1>16. Congruent(q * f, q * Mask(f)) /\ q * Mask(f) \in Int
  BY <1>1, <1>15, Whole, CongruentProduct
<1>17. Congruent(Mask(a + m), d + u)
  BY <1>9, <1>13, <1>14, CongruentChain
<1>18. Congruent(Mask(a + m), q * Mask(f))
  BY <1>2, <1>9, <1>14, <1>16, <1>17, CongruentChain
<1> QED BY <1>18 DEF f, m, u

(* What the loop of hash() goes through for a window that begins at i.     *)
Summed(a, s, i, n) ==
  /\ a \in [0..n -> Nat] /\ a[0] = 0
  /\ \A k \in 1..n : a[k] = Mask(a[k - 1] + Mask(BtoN(n - k) * hashvalues[s[i + k - 1]]))

(* Such a series of sums exists.                                           *)
LEMMA SummedExists ==
  ASSUME NEW s \in Seq(Alphabet), NEW n \in Nat, NEW i \in 1..(Len(s) - n + 1)
  PROVE  \E a : Summed(a, s, i, n)
<1> DEFINE term(k) == Mask(BtoN(n - k) * hashvalues[s[i + k - 1]])
           f == [k \in 1..n |-> [x \in Nat |-> Mask(x + term(k))]]
<1>1. ASSUME NEW k \in 1..n PROVE term(k) \in Nat
  <2>1. i + k - 1 \in 1..Len(s) /\ n - k \in Nat
    OBVIOUS
  <2>2. s[i + k - 1] \in Alphabet
    BY <2>1
  <2>3. BtoN(n - k) \in Int /\ hashvalues[s[i + k - 1]] \in Int
    <3>1. BtoN(n - k) \in Nat
      BY <2>1, PowerSteps
    <3>2. hashvalues[s[i + k - 1]] \in Nat
      BY <2>2, TextAssumption
    <3> QED BY <3>1, <3>2
  <2>4. BtoN(n - k) * hashvalues[s[i + k - 1]] \in Int
    BY <2>3, Whole
  <2> QED BY <2>4, MaskCongruent
<1> HIDE DEF term
<1>2. ASSUME NEW k \in 1..n, NEW x \in Nat PROVE Mask(x + term(k)) \in Nat
  <2>1. x + term(k) \in Int
    BY <1>1
  <2> QED BY <2>1, MaskCongruent
<1>3. f \in [1..n -> [Nat -> Nat]] /\ 0 \in Nat
  BY <1>2
<1>4. \A k \in 1..n, x \in Nat : f[k][x] = Mask(x + term(k))
  OBVIOUS
<1> HIDE DEF f
<1>5. PICK a : Passes(a, n, Nat, 0, f)
  BY <1>3, Loop
<1>6. ASSUME NEW k \in 1..n PROVE a[k] = Mask(a[k - 1] + term(k))
  <2>1. k - 1 \in 0..n
    OBVIOUS
  <2> QED BY <1>4, <1>5, <2>1 DEF Passes
<1>7. Summed(a, s, i, n)
  BY <1>5, <1>6 DEF Passes, Summed, term
<1> QED BY <1>7

(* hash() of a window is what eating its characters one by one gives.      *)
LEMMA SumIsEaten ==
  ASSUME NEW s \in Seq(Alphabet), NEW n \in Nat \ {0}, NEW i \in 1..(Len(s) - n + 1),
         NEW e, Eaten(e, s, i, n), NEW a, Summed(a, s, i, n)
  PROVE  a[n] = e[n]
<1>1. BtoN(0) = 1 /\ \A k \in Nat : BtoN(k) \in Int /\ Congruent(BtoN(k + 1), BtoN(k) * B)
  BY PowerFacts
<1> DEFINE P == {k \in 0..n : Congruent(a[k], BtoN(n - k) * e[k])}
<1>2. 0 \in P
  <2>1. n - 0 \in Nat
    OBVIOUS
  <2>2. BtoN(n - 0) \in Int
    BY <1>1, <2>1
  <2>3. BtoN(n - 0) * 0 = 0
    BY <2>2
  <2>4. Congruent(0, 0)
    <3>1. 0 = 0 + Size * 0
      BY TextAssumption DEF Size
    <3> QED BY <3>1 DEF Congruent
  <2>5. a[0] = 0 /\ e[0] = 0
    BY DEF Eaten, Summed
  <2> QED BY <2>3, <2>4, <2>5
<1>3. ASSUME NEW k \in 1..n, k - 1 \in P PROVE k \in P
  <2>1. k \in 0..n /\ k - 1 \in 0..n /\ n - k \in Nat /\ n - (k - 1) = (n - k) + 1 /\ i + k - 1 \in 1..Len(s)
    OBVIOUS
  <2>2. a[k - 1] \in Int /\ e[k - 1] \in Int
    BY <2>1 DEF Eaten, Summed
  <2>3. hashvalues[s[i + k - 1]] \in Int
    <3>1. s[i + k - 1] \in Alphabet
      BY <2>1
    <3> QED BY <3>1, TextAssumption
  <2>4. BtoN(n - k) \in Int /\ BtoN(n - (k - 1)) \in Int /\ Congruent(BtoN(n - (k - 1)), BtoN(n - k) * B)
    <3>1. PICK m \in Nat : m = n - k
      BY <2>1
    <3>2. n - (k - 1) = m + 1 /\ m + 1 \in Nat
      BY <2>1, <3>1
    <3>3. BtoN(m) \in Int /\ Congruent(BtoN(m + 1), BtoN(m) * B)
      BY <1>1
    <3>4. BtoN(m + 1) \in Int
      BY <1>1, <3>2
    <3> QED BY <3>1, <3>2, <3>3, <3>4
  <2>5. Congruent(a[k - 1], BtoN(n - (k - 1)) * e[k - 1])
    BY <1>3
  <2>6. a[k] = Mask(a[k - 1] + Mask(BtoN(n - k) * hashvalues[s[i + k - 1]]))
    BY DEF Summed
  <2>7. e[k] = Mask(B * e[k - 1] + hashvalues[s[i + k - 1]])
    BY DEF Eaten, eat
  <2>8. Congruent(Mask(a[k - 1] + Mask(BtoN(n - k) * hashvalues[s[i + k - 1]])),
                  BtoN(n - k) * Mask(B * e[k - 1] + hashvalues[s[i + k - 1]]))
    <3> HIDE DEF P
    <3> QED BY <2>2, <2>3, <2>4, <2>5, AddTerm
  <2>9. Congruent(a[k], BtoN(n - k) * e[k])
    BY ONLY <2>6, <2>7, <2>8
  <2> QED BY <2>1, <2>9
<1>4. n \in P
  <2>1. P \in SUBSET (0..n) /\ n \in Nat /\ n \in 0..n
    OBVIOUS
  <2> HIDE DEF P
  <2> QED BY <1>2, <1>3, <2>1, AlongLoop
<1>5. n \in 1..n /\ n - n = 0 /\ n - 1 \in 0..n /\ n \in 0..n
  OBVIOUS
<1>6. a[n] \in Int /\ e[n] \in Int /\ a[n - 1] \in Int /\ e[n - 1] \in Int
  BY <1>5 DEF Eaten, Summed
<1>7. Congruent(a[n], e[n])
  <2>1. Congruent(a[n], BtoN(0) * e[n])
    BY <1>4, <1>5
  <2>2. 1 * e[n] = e[n]
    BY <1>6
  <2> QED BY <1>1, <2>1, <2>2
<1> HIDE DEF P
<1>8. hashvalues[s[i + n - 1]] \in Int /\ BtoN(n - n) \in Int
  <2>1. i + n - 1 \in 1..Len(s)
    OBVIOUS
  <2>2. s[i + n - 1] \in Alphabet
    BY <2>1
  <2>3. hashvalues[s[i + n - 1]] \in Nat
    BY <2>2, TextAssumption
  <2>4. BtoN(0) \in Int
    BY <1>1
  <2> QED BY <1>5, <2>3, <2>4
<1> DEFINE x == a[n - 1] + Mask(BtoN(n - n) * hashvalues[s[i + n - 1]])
           y == B * e[n - 1] + hashvalues[s[i + n - 1]]
<1>9. a[n] = Mask(x) /\ e[n] = Mask(y)
  BY <1>5 DEF Eaten, Summed, eat
<1>10. x \in Int
  <2>1. BtoN(n - n) * hashvalues[s[i + n - 1]] \in Int
    BY <1>8, Whole
  <2>2. Mask(BtoN(n - n) * hashvalues[s[i + n - 1]]) \in Nat
    <3> DEFINE u == BtoN(n - n) * hashvalues[s[i + n - 1]]
    <3> HIDE DEF u
    <3>1. u \in Int => Mask(u) \in Nat
      BY MaskCongruent
    <3> QED BY <2>1, <3>1 DEF u
  <2> QED BY <1>6, <2>2
<1>11. y \in Int
  <2>1. \A u, v \in Int : 37 * u + v \in Int
    OBVIOUS
  <2> QED BY <1>6, <1>8, <2>1 DEF B
<1> HIDE DEF x, y
<1>12. Congruent(a[n], x) /\ Congruent(e[n], y)
  BY <1>9, <1>10, <1>11, MaskCongruent
<1>13. Congruent(x, a[n])
  BY <1>6, <1>10, <1>12, CongruentSwap
<1>14. Congruent(a[n], y)
  BY <1>6, <1>7, <1>11, <1>12, CongruentChain
<1>15. Congruent(x, y)
  BY <1>6, <1>10, <1>11, <1>13, <1>14, CongruentChain
<1> QED BY <1>9, <1>10, <1>11, <1>15, SameMask

(* So hash() of a window of characters is its last hash.                   *)
LEMMA HashIsEaten ==
  ASSUME NEW s \in Seq(Alphabet), NEW n \in Nat \ {0}, NEW i \in 1..(Len(s) - n + 1),
         NEW e, Eaten(e, s, i, n)
  PROVE  hash(SubSeq(s, i, i + n - 1)) = e[n]
<1> DEFINE c == SubSeq(s, i, i + n - 1)
<1>1. Len(c) = n /\ \A k \in 1..n : c[k] = s[i + k - 1]
  <2>1. i \in 1..Len(s) /\ i + n - 1 \in 1..Len(s)
    OBVIOUS
  <2> QED BY <2>1, SubSeqProperties
<1>2. PICK a : Summed(a, s, i, n)
  BY SummedExists
<1> HIDE DEF c
<1> DEFINE Is(h) == h = [k \in 0..Len(c) |->
                         IF k = 0 THEN 0 ELSE Mask(h[k - 1] + Mask(BtoN(Len(c) - k) * hashvalues[c[k]]))]
           h == CHOOSE h : Is(h)
<1>3. hash(c) = h[n]
  BY <1>1 DEF hash
<1>4. Is(a)
  <2>1. \A k \in 0..n : a[k] = IF k = 0 THEN 0 ELSE Mask(a[k - 1] + Mask(BtoN(n - k) * hashvalues[c[k]]))
    <3> SUFFICES ASSUME NEW k \in 0..n, k # 0
                 PROVE  a[k] = Mask(a[k - 1] + Mask(BtoN(n - k) * hashvalues[c[k]]))
      BY <1>2 DEF Summed
    <3>1. k \in 1..n
      OBVIOUS
    <3> QED BY <1>1, <1>2, <3>1 DEF Summed
  <2>2. a = [k \in 0..n |-> a[k]]
    BY <1>2 DEF Summed
  <2>3. a = [k \in 0..n |-> IF k = 0 THEN 0 ELSE Mask(a[k - 1] + Mask(BtoN(n - k) * hashvalues[c[k]]))]
    BY <2>1, <2>2
  <2> QED BY <1>1, <2>3
<1>5. Is(h)
  BY <1>4
<1> HIDE DEF h
<1>6. h = [k \in 0..n |-> IF k = 0 THEN 0 ELSE Mask(h[k - 1] + Mask(BtoN(n - k) * hashvalues[c[k]]))]
  BY <1>1, <1>5
<1> HIDE DEF Is
<1>7. h[0] = 0 /\ \A k \in 1..n : h[k] = Mask(h[k - 1] + Mask(BtoN(n - k) * hashvalues[s[i + k - 1]]))
  BY <1>1, <1>6
<1> DEFINE P == {k \in 0..n : h[k] = a[k]}
<1>8. 0 \in P
  BY <1>2, <1>7 DEF Summed
<1>9. ASSUME NEW k \in 1..n, k - 1 \in P PROVE k \in P
  <2>1. h[k - 1] = a[k - 1]
    BY <1>9
  <2>2. a[k] = Mask(a[k - 1] + Mask(BtoN(n - k) * hashvalues[s[i + k - 1]]))
    BY <1>2 DEF Summed
  <2>3. h[k] = a[k]
    BY <1>7, <2>1, <2>2
  <2> QED BY <2>3
<1>10. n \in P
  <2>1. P \in SUBSET (0..n) /\ n \in Nat /\ n \in 0..n
    OBVIOUS
  <2> HIDE DEF P
  <2> QED BY <1>8, <1>9, <2>1, AlongLoop
<1>11. hash(c) = a[n]
  BY <1>3, <1>10
<1> HIDE DEF P
<1> QED BY <1>2, <1>11, SumIsEaten DEF c

(* What the loop over the data goes through.                               *)
Rolled(h, s, n) ==
  /\ h \in [0..Len(s) -> Nat] /\ h[0] = 0
  /\ \A k \in 1..Len(s) : h[k] = IF k <= n THEN eat(h[k - 1], s[k]) ELSE update(h[k - 1], n, s[k - n], s[k])

(* Such a series of hashes exists.                                         *)
LEMMA RolledExists ==
  ASSUME NEW s \in Seq(Alphabet), NEW n \in Nat \ {0}
  PROVE  \E h : Rolled(h, s, n)
<1> DEFINE step(k, x) == IF k <= n THEN eat(x, s[k]) ELSE update(x, n, s[k - n], s[k])
           f == [k \in 1..Len(s) |-> [x \in Nat |-> step(k, x)]]
<1>1. ASSUME NEW k \in 1..Len(s), NEW x \in Nat PROVE step(k, x) \in Nat
  <2>1. CASE k <= n
    BY <2>1, EatCongruent
  <2>2. CASE ~(k <= n)
    <3>1. k - n \in 1..Len(s)
      BY <2>2
    <3>2. s[k] \in Alphabet /\ s[k - n] \in Alphabet
      BY <3>1
    <3>3. x \in Int /\ n \in Nat
      OBVIOUS
    <3> HIDE DEF step, f
    <3>4. update(x, n, s[k - n], s[k]) \in Nat
      BY ONLY <3>2, <3>3, UpdateCongruent
    <3> QED BY <2>2, <3>4 DEF step
  <2> QED BY <2>1, <2>2
<1> HIDE DEF step
<1>2. f \in [1..Len(s) -> [Nat -> Nat]] /\ 0 \in Nat /\ Len(s) \in Nat
  BY <1>1
<1>3. \A k \in 1..Len(s), x \in Nat : f[k][x] = step(k, x)
  OBVIOUS
<1> HIDE DEF f
<1>4. PICK h : Passes(h, Len(s), Nat, 0, f)
  BY <1>2, Loop
<1>5. ASSUME NEW k \in 1..Len(s) PROVE h[k] = step(k, h[k - 1])
  <2>1. k - 1 \in 0..Len(s)
    OBVIOUS
  <2> QED BY <1>3, <1>4, <2>1 DEF Passes
<1>6. Rolled(h, s, n)
  BY <1>4, <1>5 DEF Passes, Rolled, step
<1> QED BY <1>6

(* However far the hash has rolled, it is the hash of the last n characters. *)
LEMMA RolledIsHash ==
  ASSUME NEW s \in Seq(Alphabet), NEW n \in 1..Len(s), NEW h, Rolled(h, s, n), NEW m \in n..Len(s)
  PROVE  h[m] = hash(SubSeq(s, m - n + 1, m))
<1>1. n \in Nat \ {0} /\ Len(s) \in Nat /\ 1 \in 1..(Len(s) - n + 1)
  OBVIOUS
<1>2. PICK e : Eaten(e, s, 1, n)
  BY <1>1, EatenExists
<1> DEFINE P == {k \in 0..Len(s) : /\ k <= n => h[k] = e[k]
                                   /\ k >= n => h[k] = hash(SubSeq(s, k - n + 1, k))}
<1>3. 0 \in P
  BY <1>1, <1>2 DEF Eaten, Rolled
<1>4. ASSUME NEW k \in 1..Len(s), k - 1 \in P PROVE k \in P
  <2>1. CASE k <= n
    <3>1. h[k] = eat(h[k - 1], s[k]) /\ h[k - 1] = e[k - 1]
      BY <1>4, <2>1 DEF Rolled
    <3>2. e[k] = eat(e[k - 1], s[k])
      <4>1. 1 + k - 1 = k /\ k \in 1..n
        BY <2>1
      <4> QED BY <1>2, <4>1 DEF Eaten
    <3>3. h[k] = e[k]
      BY <3>1, <3>2
    <3>4. CASE k = n
      <4>1. hash(SubSeq(s, 1, 1 + n - 1)) = e[n]
        BY <1>1, <1>2, HashIsEaten
      <4>2. 1 + n - 1 = k /\ k - n + 1 = 1
        BY <3>4
      <4>3. h[k] = hash(SubSeq(s, k - n + 1, k))
        BY <3>3, <3>4, <4>1, <4>2
      <4>4. k \in 0..Len(s)
        OBVIOUS
      <4> HIDE DEF P
      <4>5. k \in P
        BY <3>3, <4>3, <4>4 DEF P
      <4> QED BY <4>5
    <3>5. CASE k # n
      BY <2>1, <3>3, <3>5
    <3> QED BY <3>4, <3>5
  <2>2. CASE k > n
    <3> DEFINE i == k - n
    <3>1. /\ i \in 1..(Len(s) - n) /\ i \in 1..(Len(s) - n + 1) /\ i + 1 \in 1..(Len(s) - n + 1)
          /\ i + n = k /\ i + n - 1 = k - 1 /\ (i + 1) + n - 1 = k /\ (k - 1) - n + 1 = i /\ k - n + 1 = i + 1
      BY <2>2
    <3> HIDE DEF i
    <3>2. PICK d : Eaten(d, s, i, n)
      BY <1>1, <3>1, EatenExists
    <3>3. PICK g : Eaten(g, s, i + 1, n)
      BY <1>1, <3>1, EatenExists
    <3>4. hash(SubSeq(s, i, i + n - 1)) = d[n] /\ hash(SubSeq(s, i + 1, (i + 1) + n - 1)) = g[n]
      BY <1>1, <3>1, <3>2, <3>3, HashIsEaten
    <3>5. g[n] = update(d[n], n, s[i], s[i + n])
      BY <1>1, <3>1, <3>2, <3>3, Rolls
    <3>6. h[k] = update(h[k - 1], n, s[k - n], s[k])
      BY <2>2 DEF Rolled
    <3>7. k - 1 >= n /\ h[k - 1] = hash(SubSeq(s, (k - 1) - n + 1, k - 1))
      BY <1>4, <2>2
    <3>8. h[k - 1] = d[n]
      BY <3>1, <3>4, <3>7
    <3>9. h[k] = hash(SubSeq(s, k - n + 1, k))
      BY <3>1, <3>4, <3>5, <3>6, <3>8 DEF i
    <3> QED BY <2>2, <3>9
  <2> QED BY <2>1, <2>2
<1>5. m \in P
  <2>1. P \in SUBSET (0..Len(s)) /\ m \in 0..Len(s)
    OBVIOUS
  <2> HIDE DEF P
  <2> QED BY <1>1, <1>3, <1>4, <2>1, AlongLoop
<1> QED BY <1>5

(* The hashes are those of the n-grams.                                    *)
LEMMA HashesOfGrams ==
  ASSUME NEW s \in Seq(Alphabet), NEW n \in 1..Len(s)
  PROVE  /\ Hashes(s, n) = [i \in 1..(Len(s) - n + 1) |-> Hashes(s, n)[i]]
         /\ \A i \in 1..(Len(s) - n + 1) : Hashes(s, n)[i] = hash(SubSeq(s, i, i + n - 1))
<1> DEFINE Is(h) == h = [k \in 0..Len(s) |->
                          IF k = 0 THEN 0
                          ELSE IF k <= n THEN eat(h[k - 1], s[k])
                          ELSE update(h[k - 1], n, s[k - n], s[k])]
           h == CHOOSE h : Is(h)
<1>1. Hashes(s, n) = [i \in 1..(Len(s) - n + 1) |-> h[i + n - 1]]
  BY DEF Hashes
<1>2. PICK r : Rolled(r, s, n)
  BY RolledExists
<1>3. Is(r)
  <2>1. \A k \in 0..Len(s) : r[k] = IF k = 0 THEN 0
                          ELSE IF k <= n THEN eat(r[k - 1], s[k])
                          ELSE update(r[k - 1], n, s[k - n], s[k])
    BY <1>2 DEF Rolled
  <2>2. r = [k \in 0..Len(s) |-> r[k]]
    BY <1>2 DEF Rolled
  <2> QED BY <2>1, <2>2
<1>4. Is(h)
  BY <1>3
<1> HIDE DEF h
<1> DEFINE P == {k \in 0..Len(s) : h[k] = r[k]}
<1>5. 0 \in P
  BY <1>2, <1>4 DEF Rolled
<1>6. ASSUME NEW k \in 1..Len(s), k - 1 \in P PROVE k \in P
  BY <1>2, <1>4, <1>6 DEF Rolled
<1>7. \A k \in 0..Len(s) : k \in P
  <2>1. P \in SUBSET (0..Len(s)) /\ Len(s) \in Nat
    OBVIOUS
  <2> HIDE DEF P, Is
  <2> QED BY <1>5, <1>6, <2>1, AlongLoop
<1> HIDE DEF Is
<1>8. ASSUME NEW i \in 1..(Len(s) - n + 1) PROVE Hashes(s, n)[i] = hash(SubSeq(s, i, i + n - 1))
  <2> DEFINE m == i + n - 1
  <2>1. m \in n..Len(s) /\ m - n + 1 = i /\ m \in 0..Len(s)
    OBVIOUS
  <2>2. Hashes(s, n)[i] = h[m]
    BY <1>1
  <2> HIDE DEF m, P
  <2>3. r[m] = hash(SubSeq(s, m - n + 1, m))
    BY <1>2, <2>1, RolledIsHash
  <2>4. h[m] = r[m]
    BY <1>7, <2>1 DEF P
  <2> QED BY <2>1, <2>2, <2>3, <2>4 DEF m
<1> QED BY <1>1, <1>8

-----------------------------------------------------------------------------
(* Where a hash was first seen.                                            *)
LEMMA FirstSeen ==
  ASSUME NEW N \in Nat, NEW hs \in [1..N -> Nat], NEW k \in 1..N
  PROVE  /\ IndexIn(hs, hs[k]) \in 1..k /\ hs[IndexIn(hs, hs[k])] = hs[k]
         /\ \A j \in 1..N : hs[j] = hs[k] => IndexIn(hs, hs[k]) <= j /\ IndexIn(hs, hs[j]) = IndexIn(hs, hs[k])
<1> DEFINE I == {i \in 1..Len(hs) : hs[i] = hs[k]}
<1>1. Len(hs) = N
  OBVIOUS
<1>2. k \in I /\ I \in SUBSET Nat /\ I \in SUBSET (1..N)
  BY <1>1
<1>3. IndexIn(hs, hs[k]) = Min(I)
  BY <1>2 DEF IndexIn, SelectInSeq
<1>4. Min(I) \in I /\ \A j \in I : Min(I) <= j
  <2> HIDE DEF I
  <2>1. I # {}
    BY <1>2
  <2> QED BY <1>2, <2>1, Least
<1>5. ASSUME NEW j \in 1..N, hs[j] = hs[k]
      PROVE  IndexIn(hs, hs[k]) <= j /\ IndexIn(hs, hs[j]) = IndexIn(hs, hs[k])
  <2>1. j \in I
    BY <1>1, <1>5
  <2> HIDE DEF I
  <2> QED BY <1>3, <1>4, <1>5, <2>1
<1>6. Min(I) \in 1..k /\ hs[Min(I)] = hs[k]
  BY <1>1, <1>2, <1>4
<1> QED BY <1>3, <1>5, <1>6

(* The positions up to k that have the hash of position i.                 *)
SameHash(hs, i, k) == {j \in 1..k : hs[j] = hs[i]}

(* They are finitely many.                                                 *)
LEMMA SameHashFinite ==
  ASSUME NEW hs, NEW i, NEW k \in Nat
  PROVE  IsFiniteSet(SameHash(hs, i, k)) /\ Cardinality(SameHash(hs, i, k)) \in Nat
<1>1. IsFiniteSet(1..k)
  BY FS_Interval
<1>2. SameHash(hs, i, k) \in SUBSET (1..k)
  BY DEF SameHash
<1>3. IsFiniteSet(SameHash(hs, i, k))
  BY <1>1, <1>2, FS_Subset
<1> QED BY <1>3, FS_CardinalityType

(* One more position has that hash or another.                             *)
LEMMA SameHashGrows ==
  ASSUME NEW hs, NEW i, NEW k \in Nat \ {0}
  PROVE  /\ hs[k] = hs[i] => Cardinality(SameHash(hs, i, k)) = Cardinality(SameHash(hs, i, k - 1)) + 1
         /\ hs[k] # hs[i] => SameHash(hs, i, k) = SameHash(hs, i, k - 1)
<1>1. k - 1 \in Nat /\ \A j \in 1..k : j = k \/ j \in 1..(k - 1)
  OBVIOUS
<1>2. CASE hs[k] = hs[i]
  <2>1. SameHash(hs, i, k) = SameHash(hs, i, k - 1) \union {k} /\ k \notin SameHash(hs, i, k - 1)
    BY <1>1, <1>2 DEF SameHash
  <2>2. IsFiniteSet(SameHash(hs, i, k - 1))
    BY <1>1, SameHashFinite
  <2> QED BY <1>2, <2>1, <2>2, FS_AddElement
<1>3. CASE hs[k] # hs[i]
  BY <1>1, <1>3 DEF SameHash
<1> QED BY <1>2, <1>3

(* Where a hash is first seen there is one of it.                          *)
LEMMA SameHashOfFirst ==
  ASSUME NEW N \in Nat, NEW hs \in [1..N -> Nat], NEW k \in 1..N, IndexIn(hs, hs[k]) = k
  PROVE  Cardinality(SameHash(hs, k, k)) = 1
<1>1. ASSUME NEW j \in 1..k, hs[j] = hs[k] PROVE j = k
  <2>1. j \in 1..N
    OBVIOUS
  <2>2. IndexIn(hs, hs[k]) <= j
    BY <1>1, <2>1, FirstSeen
  <2> QED BY <2>2
<1>2. SameHash(hs, k, k) = {k}
  BY <1>1 DEF SameHash
<1> QED BY <1>2, FS_Singleton

(* One more at one place, and none at another.                             *)
LEMMA TwoPlaces ==
  ASSUME NEW N \in Nat, NEW x \in [1..N -> Nat], NEW a \in 1..N, NEW b \in 1..N, a # b
  PROVE  /\ [x EXCEPT ![a] = @ + 1, ![b] = 0] \in [1..N -> Nat]
         /\ \A i \in 1..N : [x EXCEPT ![a] = @ + 1, ![b] = 0][i]
                             = IF i = b THEN 0 ELSE IF i = a THEN x[i] + 1 ELSE x[i]
<1> DEFINE y == [x EXCEPT ![a] = @ + 1]
           z == [y EXCEPT ![b] = 0]
<1>1. x[a] + 1 \in Nat
  OBVIOUS
<1>2. y \in [1..N -> Nat]
  BY <1>1
<1>3. \A i \in 1..N : y[i] = IF i = a THEN x[i] + 1 ELSE x[i]
  BY <1>1
<1> HIDE DEF y
<1>4. z \in [1..N -> Nat]
  BY <1>2
<1>5. \A i \in 1..N : z[i] = IF i = b THEN 0 ELSE y[i]
  BY <1>2
<1>6. z = [x EXCEPT ![a] = @ + 1, ![b] = 0]
  BY DEF y
<1> HIDE DEF z
<1> QED BY <1>3, <1>4, <1>5, <1>6

(* What the loop over the hashes goes through.                             *)
Counting(d, hs, N) ==
  /\ d \in [0..N -> [1..N -> Nat]] /\ d[0] = [j \in 1..N |-> 1]
  /\ \A k \in 1..N : d[k] = IF IndexIn(hs, hs[k]) = k THEN d[k - 1]
                            ELSE [d[k - 1] EXCEPT ![IndexIn(hs, hs[k])] = @ + 1, ![k] = 0]

(* Such a series of counts exists.                                         *)
LEMMA CountingExists ==
  ASSUME NEW N \in Nat, NEW hs \in [1..N -> Nat]
  PROVE  \E d : Counting(d, hs, N)
<1> DEFINE S == [1..N -> Nat]
           first(k) == IndexIn(hs, hs[k])
           step(k, x) == IF first(k) = k THEN x ELSE [x EXCEPT ![first(k)] = @ + 1, ![k] = 0]
           base == [j \in 1..N |-> 1]
           f == [k \in 1..N |-> [x \in S |-> step(k, x)]]
<1>1. ASSUME NEW k \in 1..N, NEW x \in S PROVE step(k, x) \in S
  <2>1. first(k) \in 1..k
    BY FirstSeen
  <2>2. first(k) \in 1..N
    BY <2>1
  <2> HIDE DEF first
  <2>3. first(k) # k => [x EXCEPT ![first(k)] = @ + 1, ![k] = 0] \in S
    BY <2>2, TwoPlaces
  <2> QED BY <2>3
<1>2. base \in S
  OBVIOUS
<1> HIDE DEF step, S, base
<1>3. f \in [1..N -> [S -> S]]
  BY <1>1
<1>4. \A k \in 1..N, x \in S : f[k][x] = step(k, x)
  OBVIOUS
<1> HIDE DEF f
<1>5. PICK d : Passes(d, N, S, base, f)
  BY <1>2, <1>3, Loop
<1>6. ASSUME NEW k \in 1..N PROVE d[k] = step(k, d[k - 1])
  <2>1. k - 1 \in 0..N
    OBVIOUS
  <2> QED BY <1>4, <1>5, <2>1 DEF Passes
<1>7. Counting(d, hs, N)
  BY <1>5, <1>6 DEF Passes, Counting, step, base, S
<1> QED BY <1>7

(* Each hash is counted at its first position, and nowhere else.           *)
LEMMA CountedOnce ==
  ASSUME NEW N \in Nat, NEW hs \in [1..N -> Nat], NEW d, Counting(d, hs, N), NEW i \in 1..N
  PROVE  d[N][i] = IF IndexIn(hs, hs[i]) = i THEN Cardinality(SameHash(hs, i, N)) ELSE 0
<1> DEFINE first(k) == IndexIn(hs, hs[k])
           P == {k \in 0..N : d[k][i] = IF i > k THEN 1
                                        ELSE IF first(i) = i THEN Cardinality(SameHash(hs, i, k)) ELSE 0}
<1>1. 0 \in P
  BY DEF Counting
<1>2. ASSUME NEW k \in 1..N, k - 1 \in P PROVE k \in P
  <2>1. k \in Nat \ {0} /\ k - 1 \in 0..N /\ k \in 0..N
    OBVIOUS
  <2>2. d[k - 1] \in [1..N -> Nat]
    BY <2>1 DEF Counting
  <2>3. /\ first(k) \in 1..k /\ hs[first(k)] = hs[k] /\ first(i) \in 1..i /\ hs[first(i)] = hs[i]
        /\ hs[i] = hs[k] => first(i) = first(k)
    BY FirstSeen
  <2>4. d[k - 1][i] = IF i > k - 1 THEN 1
                      ELSE IF first(i) = i THEN Cardinality(SameHash(hs, i, k - 1)) ELSE 0
    BY <1>2
  <2>5. d[k] = IF first(k) = k THEN d[k - 1] ELSE [d[k - 1] EXCEPT ![first(k)] = @ + 1, ![k] = 0]
    BY DEF Counting
  <2>6. /\ hs[k] = hs[i] => Cardinality(SameHash(hs, i, k)) = Cardinality(SameHash(hs, i, k - 1)) + 1
        /\ hs[k] # hs[i] => SameHash(hs, i, k) = SameHash(hs, i, k - 1)
    BY <2>1, SameHashGrows
  <2>7. first(k) = k => Cardinality(SameHash(hs, k, k)) = 1
    BY SameHashOfFirst
  <2> SUFFICES d[k][i] = IF i > k THEN 1
                         ELSE IF first(i) = i THEN Cardinality(SameHash(hs, i, k)) ELSE 0
    BY <2>1
  <2> HIDE DEF first, P
  <2>12. /\ first(k) = k => d[k][i] = d[k - 1][i]
         /\ first(k) # k => d[k][i] = IF i = k THEN 0 ELSE IF i = first(k) THEN d[k - 1][i] + 1 ELSE d[k - 1][i]
    <3>1. first(k) \in 1..N
      BY <2>3
    <3> QED BY <2>2, <2>5, <3>1, TwoPlaces
  <2>8. CASE i > k
    <3>1. first(k) # i /\ i # k /\ i > k - 1
      BY <2>3, <2>8
    <3> QED BY <2>4, <2>8, <2>12, <3>1
  <2>9. CASE i = k
    BY <2>3, <2>4, <2>7, <2>9, <2>12
  <2>10. CASE i < k /\ hs[k] # hs[i]
    <3>1. first(k) # i
      BY <2>3, <2>10
    <3> QED BY <2>4, <2>6, <2>10, <2>12, <3>1
  <2>11. CASE i < k /\ hs[k] = hs[i]
    <3>1. first(i) = first(k) /\ first(k) # k
      BY <2>3, <2>11
    <3>2. d[k][i] = IF first(k) = i THEN d[k - 1][i] + 1 ELSE d[k - 1][i]
      BY <2>11, <2>12, <3>1
    <3>3. ~(i > k - 1) /\ ~(i > k)
      BY <2>11
    <3> QED BY <2>4, <2>6, <2>11, <3>1, <3>2, <3>3
  <2> QED BY <2>8, <2>9, <2>10, <2>11
<1>3. N \in P
  <2>1. P \in SUBSET (0..N) /\ N \in 0..N
    OBVIOUS
  <2> HIDE DEF P
  <2> QED BY <1>1, <1>2, <2>1, AlongLoop
<1>4. ~(i > N)
  OBVIOUS
<1> QED BY <1>3, <1>4

(* There is a hash for each n-gram.                                        *)
LEMMA HashesType ==
  ASSUME NEW s \in Seq(Alphabet), NEW n \in 1..Len(s)
  PROVE  /\ Hashes(s, n) \in [1..(Len(s) - n + 1) -> Nat] /\ Len(s) - n + 1 \in Nat \ {0}
         /\ Len(Hashes(s, n)) = Len(s) - n + 1 /\ DOMAIN Hashes(s, n) = 1..(Len(s) - n + 1)
<1> DEFINE N == Len(s) - n + 1
<1>1. N \in Nat \ {0} /\ n \in Nat \ {0}
  OBVIOUS
<1>2. ASSUME NEW i \in 1..N PROVE Hashes(s, n)[i] \in Nat
  <2>1. PICK e : Eaten(e, s, i, n)
    BY <1>1, EatenExists
  <2>2. Hashes(s, n)[i] = hash(SubSeq(s, i, i + n - 1))
    BY HashesOfGrams
  <2>3. hash(SubSeq(s, i, i + n - 1)) = e[n]
    BY <1>1, <2>1, HashIsEaten
  <2>4. e[n] \in Nat
    BY <2>1 DEF Eaten
  <2> QED BY <2>2, <2>3, <2>4
<1>3. Hashes(s, n) = [i \in 1..N |-> Hashes(s, n)[i]]
  BY HashesOfGrams
<1>4. Hashes(s, n) \in [1..N -> Nat]
  <2> HIDE DEF N
  <2> QED BY <1>2, <1>3
<1> QED BY <1>1, <1>4

(* countNgrams() has, where an n-gram is first, the number of its hash.    *)
LEMMA CountsOfHashes ==
  ASSUME NEW s \in Seq(Alphabet), NEW n \in 1..Len(s)
  PROVE  /\ DOMAIN countNgrams(s, n) = 1..(Len(s) - n + 1)
         /\ \A i \in 1..(Len(s) - n + 1) :
              countNgrams(s, n)[i] = IF IndexIn(Hashes(s, n), Hashes(s, n)[i]) = i
                                     THEN Cardinality(SameHash(Hashes(s, n), i, Len(s) - n + 1)) ELSE 0
<1> DEFINE N == Len(s) - n + 1
           hs == Hashes(s, n)
<1>1. N \in Nat /\ hs \in [1..N -> Nat] /\ Len(hs) = N /\ DOMAIN hs = 1..N
  BY HashesType
<1> HIDE DEF N, hs
<1> DEFINE Is(h) == h = [k \in 0..Len(hs) |->
                          IF k = 0 THEN [j \in DOMAIN hs |-> 1]
                          ELSE IF IndexIn(hs, hs[k]) = k THEN h[k - 1]
                          ELSE [h[k - 1] EXCEPT ![IndexIn(hs, hs[k])] = @ + 1, ![k] = 0]]
           h == CHOOSE h : Is(h)
<1>2. countNgrams(s, n) = h[N]
  BY <1>1 DEF countNgrams, hs
<1>3. PICK d : Counting(d, hs, N)
  BY <1>1, CountingExists
<1>4. Is(d)
  <2>1. \A k \in 0..N : d[k] = IF k = 0 THEN [j \in 1..N |-> 1]
                          ELSE IF IndexIn(hs, hs[k]) = k THEN d[k - 1]
                          ELSE [d[k - 1] EXCEPT ![IndexIn(hs, hs[k])] = @ + 1, ![k] = 0]
    <3> SUFFICES ASSUME NEW k \in 0..N, k # 0
                 PROVE  d[k] = IF IndexIn(hs, hs[k]) = k THEN d[k - 1]
                               ELSE [d[k - 1] EXCEPT ![IndexIn(hs, hs[k])] = @ + 1, ![k] = 0]
      BY <1>3 DEF Counting
    <3>1. k \in 1..N
      BY <1>1
    <3> QED BY <1>3, <3>1 DEF Counting
  <2>2. d = [k \in 0..N |-> d[k]]
    BY <1>3 DEF Counting
  <2>3. d = [k \in 0..N |-> IF k = 0 THEN [j \in 1..N |-> 1]
                            ELSE IF IndexIn(hs, hs[k]) = k THEN d[k - 1]
                            ELSE [d[k - 1] EXCEPT ![IndexIn(hs, hs[k])] = @ + 1, ![k] = 0]]
    BY <2>1, <2>2
  <2> QED BY <1>1, <2>3
<1>5. Is(h)
  BY <1>4
<1> HIDE DEF h
<1>6. /\ h[0] = [j \in 1..N |-> 1]
      /\ \A k \in 1..N : h[k] = IF IndexIn(hs, hs[k]) = k THEN h[k - 1]
                                ELSE [h[k - 1] EXCEPT ![IndexIn(hs, hs[k])] = @ + 1, ![k] = 0]
  <2>1. h = [k \in 0..N |->
              IF k = 0 THEN [j \in 1..N |-> 1]
              ELSE IF IndexIn(hs, hs[k]) = k THEN h[k - 1]
              ELSE [h[k - 1] EXCEPT ![IndexIn(hs, hs[k])] = @ + 1, ![k] = 0]]
    BY <1>1, <1>5
  <2> HIDE DEF Is
  <2>2. 0 \in 0..N /\ \A k \in 1..N : k \in 0..N /\ k # 0
    BY <1>1
  <2>3. h[0] = [j \in 1..N |-> 1]
    BY <2>1, <2>2
  <2>4. ASSUME NEW k \in 1..N
        PROVE  h[k] = IF IndexIn(hs, hs[k]) = k THEN h[k - 1]
                      ELSE [h[k - 1] EXCEPT ![IndexIn(hs, hs[k])] = @ + 1, ![k] = 0]
    <3>1. k \in 0..N /\ k # 0
      BY <2>2
    <3> QED BY <2>1, <3>1
  <2> QED BY <2>3, <2>4
<1> HIDE DEF Is
<1> DEFINE P == {k \in 0..N : h[k] = d[k]}
<1>7. 0 \in P
  BY <1>1, <1>3, <1>6 DEF Counting
<1>8. ASSUME NEW k \in 1..N, k - 1 \in P PROVE k \in P
  <2>1. h[k - 1] = d[k - 1]
    BY <1>8
  <2>2. h[k] = IF IndexIn(hs, hs[k]) = k THEN h[k - 1]
               ELSE [h[k - 1] EXCEPT ![IndexIn(hs, hs[k])] = @ + 1, ![k] = 0]
    BY <1>6
  <2>3. d[k] = IF IndexIn(hs, hs[k]) = k THEN d[k - 1]
               ELSE [d[k - 1] EXCEPT ![IndexIn(hs, hs[k])] = @ + 1, ![k] = 0]
    BY <1>3 DEF Counting
  <2>4. h[k] = d[k]
    BY ONLY <2>1, <2>2, <2>3
  <2> QED BY <1>1, <2>4
<1>9. N \in P
  <2>1. P \in SUBSET (0..N) /\ N \in 0..N
    BY <1>1
  <2> HIDE DEF P
  <2> QED BY <1>1, <1>7, <1>8, <2>1, AlongLoop
<1>10. countNgrams(s, n) = d[N]
  BY <1>2, <1>9
<1> HIDE DEF P
<1>11. \A i \in 1..N : d[N][i] = IF IndexIn(hs, hs[i]) = i THEN Cardinality(SameHash(hs, i, N)) ELSE 0
  BY <1>1, <1>3, CountedOnce
<1>12. DOMAIN d[N] = 1..N
  BY <1>1, <1>3 DEF Counting
<1> QED BY <1>10, <1>11, <1>12 DEF N, hs

(* No two n-grams have the same hash; each is listed with the number of its occurrences. *)
Apart(s, n) ==
  \A i, j \in DOMAIN Windows(s, n) : Hashes(s, n)[i] = Hashes(s, n)[j] => Windows(s, n)[i] = Windows(s, n)[j]

Listed(s, n, grams) ==
  getNgrams(s, n) = {<<g, Cardinality({j \in DOMAIN grams : grams[j] = g})>> : g \in ToSet(grams)}

(* Each n-gram is counted once for each place where it stands.             *)
LEMMA GramsCounted ==
  ASSUME NEW s \in Seq(Alphabet), NEW n \in 1..Len(s), Apart(s, n)
  PROVE  Listed(s, n, Windows(s, n))
<1> DEFINE grams == Windows(s, n)
           N == Len(s) - n + 1
           hs == Hashes(s, n)
           counts == countNgrams(s, n)
           number(g) == Cardinality({j \in DOMAIN grams : grams[j] = g})
<1>1. /\ N \in Nat /\ hs \in [1..N -> Nat] /\ DOMAIN grams = 1..N
      /\ \A i \in 1..N : grams[i] = SubSeq(s, i, i + n - 1) /\ hs[i] = hash(grams[i])
  <2>1. DOMAIN grams = 1..N /\ \A i \in 1..N : grams[i] = SubSeq(s, i, i + n - 1)
    BY DEF Windows
  <2> QED BY <2>1, HashesType, HashesOfGrams
<1>2. /\ DOMAIN counts = 1..N
      /\ \A i \in 1..N : counts[i] = IF IndexIn(hs, hs[i]) = i THEN Cardinality(SameHash(hs, i, N)) ELSE 0
  BY CountsOfHashes
<1>3. getNgrams(s, n) = {<<SubSeq(s, i, i + n - 1), counts[i]>> : i \in {j \in DOMAIN counts : counts[j] > 0}}
  BY DEF getNgrams
<1>4. \A i, j \in 1..N : hs[i] = hs[j] => grams[i] = grams[j]
  BY <1>1 DEF Apart
<1> HIDE DEF N, hs, counts, grams
<1>5. ASSUME NEW i \in 1..N
      PROVE  SameHash(hs, i, N) = {j \in DOMAIN grams : grams[j] = grams[i]}
  <2>1. \A j \in 1..N : hs[j] = hs[i] <=> grams[j] = grams[i]
    BY <1>1, <1>4
  <2> QED BY <1>1, <2>1 DEF SameHash
<1>6. ASSUME NEW i \in 1..N
      PROVE  counts[i] > 0 => IndexIn(hs, hs[i]) = i
  <2>1. IndexIn(hs, hs[i]) # i => counts[i] = 0
    BY <1>2
  <2> QED BY <2>1
<1>7. ASSUME NEW i \in 1..N, IndexIn(hs, hs[i]) = i
      PROVE  counts[i] = number(grams[i]) /\ counts[i] > 0
  <2>1. counts[i] = Cardinality(SameHash(hs, i, N))
    BY <1>2, <1>7
  <2>2. IsFiniteSet(SameHash(hs, i, N)) /\ Cardinality(SameHash(hs, i, N)) \in Nat
    BY <1>1, SameHashFinite
  <2>4. i \in SameHash(hs, i, N)
    BY <1>1 DEF SameHash
  <2>3. Cardinality(SameHash(hs, i, N)) # 0
    BY <2>2, <2>4, FS_EmptySet
  <2>5. counts[i] = number(grams[i])
    BY <1>5, <2>1
  <2> QED BY <2>1, <2>2, <2>3, <2>5
<1> HIDE DEF number
<1>8. ASSUME NEW x \in getNgrams(s, n)
      PROVE  x \in {<<g, number(g)>> : g \in ToSet(grams)}
  <2>1. PICK i \in 1..N : counts[i] > 0 /\ x = <<SubSeq(s, i, i + n - 1), counts[i]>>
    BY <1>2, <1>3, <1>8
  <2>2. x = <<grams[i], number(grams[i])>>
    BY <1>1, <1>6, <1>7, <2>1
  <2>3. grams[i] \in ToSet(grams)
    BY <1>1 DEF ToSet
  <2> QED BY <2>2, <2>3
<1>9. ASSUME NEW g \in ToSet(grams)
      PROVE  <<g, number(g)>> \in getNgrams(s, n)
  <2>1. PICK k \in 1..N : grams[k] = g
    BY <1>1 DEF ToSet
  <2> DEFINE i == IndexIn(hs, hs[k])
  <2>2. i \in 1..k /\ hs[i] = hs[k]
    BY <1>1, FirstSeen
  <2>3. i \in 1..N
    BY <1>1, <2>2
  <2>4. IndexIn(hs, hs[i]) = i
    BY <2>2
  <2> HIDE DEF i
  <2>5. grams[i] = g
    BY <1>4, <2>1, <2>2, <2>3
  <2>6. counts[i] = number(g) /\ counts[i] > 0
    BY <1>7, <2>3, <2>4, <2>5
  <2>7. SubSeq(s, i, i + n - 1) = g
    BY <1>1, <2>3, <2>5
  <2> QED BY <1>2, <1>3, <2>3, <2>6, <2>7
<1>10. getNgrams(s, n) = {<<g, number(g)>> : g \in ToSet(grams)}
  BY <1>8, <1>9
<1> QED BY <1>10 DEF Listed, number, grams

-----------------------------------------------------------------------------
(* The text has characters of the alphabet.                                *)
IsText == text \in Seq(Alphabet) /\ Len(text) <= MaxText

(* A text is a sequence of its alphabet, no longer than its bound.         *)
LEMMA TextTyped == TextSpec => []IsText
<1>1. TextInit => IsText
  BY TextAssumption DEF TextInit, IsText
<1>2. IsText /\ [WriteText]_text => IsText'
  <2>1. CASE WriteText
    <3> SUFFICES ASSUME IsText, Len(text) < MaxText, NEW c \in Alphabet, text' = Append(text, c)
                 PROVE  IsText'
      BY <2>1 DEF WriteText
    <3> QED BY TextAssumption DEF IsText
  <2>2. CASE UNCHANGED text
    BY <2>2 DEF IsText
  <2> QED BY <2>1, <2>2
<1> QED BY <1>1, <1>2, PTL DEF TextSpec

(* The rolling hash is the hash of its window for any text, any length of  *)
(* the n-grams, any width and any table of character hashes; and the       *)
(* counts are right as long as no two n-grams share a hash.                *)
THEOREM CountsHold == TextSpec => []NgramsCounted
<1>1. IsText => NgramsCounted
  <2> SUFFICES ASSUME IsText PROVE NgramsCounted
    OBVIOUS
  <2>1. text \in Seq(Alphabet)
    BY DEF IsText
  <2>2. ASSUME NEW n \in 1..Len(text), NEW i \in DOMAIN Windows(text, n)
        PROVE  Hashes(text, n)[i] = hash(Windows(text, n)[i])
    BY <2>1, <2>2, HashesOfGrams DEF Windows
  <2>3. ASSUME NEW n \in 1..Len(text), Apart(text, n)
        PROVE  Listed(text, n, Windows(text, n))
    BY <2>1, <2>3, GramsCounted
  <2> QED BY <2>2, <2>3 DEF NgramsCounted, Apart, Listed
<1> QED BY <1>1, TextTyped, PTL

-----------------------------------------------------------------------------
(* The terms of a list of words.                                           *)
Chars == Alphabet \union {" "}

Joining(x, y) == IF x = <<>> THEN y ELSE x \o <<" ">> \o y

(* A term is a text, and stays nonempty once it is.                          *)
LEMMA JoiningType ==
  ASSUME NEW x \in Seq(Chars), NEW y \in Seq(Chars)
  PROVE  Joining(x, y) \in Seq(Chars) /\ (x # <<>> => Joining(x, y) # <<>>)
<1> DEFINE b == " "
           e == <<b>>
<1>1. b \in Chars
  BY DEF Chars
<1> HIDE DEF b
<1>2. e \in Seq(Chars) /\ Len(e) = 1
  BY <1>1
<1> HIDE DEF e
<1> DEFINE z == x \o e
<1>3. z \in Seq(Chars) /\ Len(z) = Len(x) + 1
  <2>1. z \in Seq(Chars)
    BY <1>2
  <2>2. Len(x \o e) = Len(x) + Len(e)
    <3>1. e \in Seq(Chars)
      BY <1>2
    <3> HIDE DEF z
    <3> QED BY ONLY x \in Seq(Chars), <3>1, ConcatProperties
  <2> QED BY <1>2, <2>1, <2>2
<1> HIDE DEF z
<1>4. z \o y \in Seq(Chars) /\ Len(z \o y) = Len(z) + Len(y) /\ Len(y) \in Nat /\ Len(x) \in Nat
  BY <1>3
<1>5. z \o y # <<>>
  BY <1>3, <1>4
<1>6. z \o y = x \o <<" ">> \o y
  BY DEF z, e, b
<1> QED BY <1>4, <1>5, <1>6 DEF Joining

(* What the loop over the words of a window goes through.                  *)
Termed(t, w, i, n) ==
  t \in [0..n -> Seq(Chars)] /\ t[0] = <<>> /\ \A k \in 1..n : t[k] = Joining(t[k - 1], w[i + k - 1])

(* Such a series of terms exists.                                          *)
LEMMA TermedExists ==
  ASSUME NEW w \in Seq(Seq(Chars)), NEW n \in Nat, NEW i \in 1..(Len(w) - n + 1)
  PROVE  \E t : Termed(t, w, i, n)
<1> DEFINE S == Seq(Chars)
           f == [k \in 1..n |-> [x \in S |-> Joining(x, w[i + k - 1])]]
<1>1. ASSUME NEW k \in 1..n PROVE w[i + k - 1] \in S
  <2>1. i + k - 1 \in 1..Len(w)
    OBVIOUS
  <2> QED BY <2>1
<1>2. ASSUME NEW k \in 1..n, NEW x \in S PROVE Joining(x, w[i + k - 1]) \in S
  BY <1>1, JoiningType
<1>3. <<>> \in S
  OBVIOUS
<1> HIDE DEF S
<1>4. f \in [1..n -> [S -> S]]
  BY <1>2
<1>5. \A k \in 1..n, x \in S : f[k][x] = Joining(x, w[i + k - 1])
  OBVIOUS
<1> HIDE DEF f
<1>6. PICK t : Passes(t, n, S, <<>>, f)
  BY <1>3, <1>4, Loop
<1>7. ASSUME NEW k \in 1..n PROVE t[k] = Joining(t[k - 1], w[i + k - 1])
  <2>1. k - 1 \in 0..n
    OBVIOUS
  <2> QED BY <1>5, <1>6, <2>1 DEF Passes
<1>8. Termed(t, w, i, n)
  BY <1>6, <1>7 DEF Passes, Termed, S
<1> QED BY <1>8

(* Term() is the last of them.                                             *)
LEMMA TermReached ==
  ASSUME NEW w, NEW n \in Nat, NEW i, NEW t, Termed(t, w, i, n)
  PROVE  Term(w, i, n) = t[n]
<1> DEFINE Is(h) == h = [k \in 0..n |->
                          IF k = 0 THEN <<>>
                          ELSE IF h[k - 1] = <<>> THEN w[i + k - 1]
                          ELSE h[k - 1] \o <<" ">> \o w[i + k - 1]]
           h == CHOOSE h : Is(h)
<1>1. Term(w, i, n) = h[n]
  BY DEF Term
<1>2. Is(t)
  <2>1. \A k \in 0..n : t[k] = IF k = 0 THEN <<>>
                          ELSE IF t[k - 1] = <<>> THEN w[i + k - 1]
                          ELSE t[k - 1] \o <<" ">> \o w[i + k - 1]
    <3> SUFFICES ASSUME NEW k \in 0..n, k # 0
                 PROVE  t[k] = IF t[k - 1] = <<>> THEN w[i + k - 1]
                               ELSE t[k - 1] \o <<" ">> \o w[i + k - 1]
      BY DEF Termed
    <3>1. k \in 1..n
      OBVIOUS
    <3>2. t[k] = Joining(t[k - 1], w[i + k - 1])
      BY <3>1 DEF Termed
    <3> QED BY <3>2 DEF Joining
  <2>2. t = [k \in 0..n |-> t[k]]
    BY DEF Termed
  <2> QED BY <2>1, <2>2
<1>3. Is(h)
  BY <1>2
<1> HIDE DEF h
<1>4. h[0] = <<>>
  <2>1. 0 \in 0..n
    OBVIOUS
  <2> QED BY <1>3, <2>1
<1>5. ASSUME NEW k \in 1..n PROVE h[k] = Joining(h[k - 1], w[i + k - 1])
  <2>1. k \in 0..n /\ k # 0
    OBVIOUS
  <2>2. h[k] = IF h[k - 1] = <<>> THEN w[i + k - 1] ELSE h[k - 1] \o <<" ">> \o w[i + k - 1]
    BY <1>3, <2>1
  <2> QED BY <2>2 DEF Joining
<1> HIDE DEF Is
<1> DEFINE P == {k \in 0..n : h[k] = t[k]}
<1>6. 0 \in P
  BY <1>4 DEF Termed
<1>7. ASSUME NEW k \in 1..n, k - 1 \in P PROVE k \in P
  <2>1. h[k - 1] = t[k - 1]
    BY <1>7
  <2>2. h[k] = t[k]
    BY <1>5, <2>1 DEF Termed
  <2> QED BY <2>2
<1>8. n \in P
  <2>1. P \in SUBSET (0..n) /\ n \in 0..n
    OBVIOUS
  <2> HIDE DEF P
  <2> QED BY <1>6, <1>7, <2>1, AlongLoop
<1> QED BY <1>1, <1>8

(* The words of a window from its first word that is not empty.            *)
TermOf(window) ==
  LET first == SelectInSeq(window, LAMBDA w : w # <<>>)
  IN  IF first = 0 THEN <<>> ELSE Join(SubSeq(window, first, Len(window)), <<" ">>)

(* Before that word there is no term, and from it on the term is the words joined. *)
LEMMA TermIsJoined ==
  ASSUME NEW w \in Seq(Seq(Chars)), NEW n \in Nat \ {0}, NEW i \in 1..(Len(w) - n + 1)
  PROVE  Term(w, i, n) = TermOf(SubSeq(w, i, i + n - 1))
<1> DEFINE v == SubSeq(w, i, i + n - 1)
           I == {k \in 1..Len(v) : v[k] # <<>>}
           first == SelectInSeq(v, LAMBDA x : x # <<>>)
<1>1. v \in Seq(Seq(Chars)) /\ Len(v) = n /\ \A k \in 1..n : v[k] = w[i + k - 1]
  <2>1. i \in 1..Len(w) /\ i + n - 1 \in 1..Len(w)
    OBVIOUS
  <2> QED BY <2>1, SubSeqProperties
<1>2. PICK t : Termed(t, w, i, n)
  BY TermedExists
<1>3. Term(w, i, n) = t[n]
  BY <1>2, TermReached
<1>4. TermOf(v) = IF first = 0 THEN <<>> ELSE Join(SubSeq(v, first, Len(v)), <<" ">>)
  BY DEF TermOf
<1>5. first = IF I # {} THEN Min(I) ELSE 0
  BY DEF SelectInSeq
<1> HIDE DEF v, first
<1>6. t[0] = <<>> /\ \A k \in 1..n : t[k] = Joining(t[k - 1], v[k])
  BY <1>1, <1>2 DEF Termed
<1>7. \A k \in 0..n : t[k] \in Seq(Chars)
  BY <1>2 DEF Termed
<1>8. CASE I = {}
  <2>1. first = 0 /\ \A k \in 1..n : v[k] = <<>>
    BY <1>1, <1>5, <1>8
  <2> DEFINE P == {k \in 0..n : t[k] = <<>>}
  <2>2. 0 \in P
    BY <1>6
  <2>3. ASSUME NEW k \in 1..n, k - 1 \in P PROVE k \in P
    <3>1. t[k - 1] = <<>> /\ v[k] = <<>>
      BY <2>1, <2>3
    <3>2. t[k] = Joining(t[k - 1], v[k])
      BY <1>6
    <3>3. t[k] = <<>>
      BY <3>1, <3>2 DEF Joining
    <3> QED BY <3>3
  <2>4. n \in P
    <3>1. P \in SUBSET (0..n) /\ n \in 0..n
      OBVIOUS
    <3> HIDE DEF P
    <3> QED BY <2>2, <2>3, <3>1, AlongLoop
  <2> QED BY <1>3, <1>4, <2>1, <2>4 DEF v
<1>9. CASE I # {}
  <2>1. first \in I /\ \A k \in I : first <= k
    <3>1. I \in SUBSET Nat
      OBVIOUS
    <3> HIDE DEF I
    <3> QED BY <1>5, <1>9, <3>1, Least
  <2>2. first \in 1..n /\ v[first] # <<>> /\ \A k \in 1..(first - 1) : v[k] = <<>>
    BY <1>1, <2>1
  <2> HIDE DEF I
  <2>3. t[first - 1] = <<>>
    <3> DEFINE P == {k \in 0..(first - 1) : t[k] = <<>>}
    <3>1. 0 \in P
      BY <1>6, <2>2
    <3>2. ASSUME NEW k \in 1..(first - 1), k - 1 \in P PROVE k \in P
      <4>1. k \in 1..n /\ t[k - 1] = <<>> /\ v[k] = <<>>
        BY <2>2, <3>2
      <4>2. t[k] = <<>>
        BY <1>6, <4>1 DEF Joining
      <4> QED BY <2>2, <4>2
    <3>3. first - 1 \in P
      <4>1. P \in SUBSET (0..(first - 1)) /\ first - 1 \in 0..(first - 1) /\ first - 1 \in Nat
        BY <2>2
      <4> HIDE DEF P
      <4> QED BY <3>1, <3>2, <4>1, AlongLoop
    <3> QED BY <3>3
  <2>4. t[first] = v[first]
    BY <1>6, <2>2, <2>3 DEF Joining
  <2> DEFINE m == n - first + 1
             u == SubSeq(v, first, n)
             g == [k \in 1..m |-> t[first + k - 1]]
  <2>5. Len(u) = m /\ \A k \in 1..m : u[k] = v[first + k - 1]
    <3>1. first \in 1..Len(v) /\ n \in 1..Len(v)
      BY <1>1, <2>2
    <3> QED BY <1>1, <3>1, SubSeqProperties
  <2>6. m \in Nat \ {0} /\ first + 1 - 1 = first /\ first + m - 1 = n
    <3>1. first \in 1..n
      BY <2>2
    <3> HIDE DEF u, g
    <3> QED BY ONLY <3>1, n \in Nat \ {0}
  <2> HIDE DEF u
  <2>7. g[1] = u[1]
    BY <2>4, <2>5, <2>6
  <2>8. \A k \in 1..m : first + k - 1 \in 1..n /\ first + k - 1 \in 0..n
    <3>1. first \in 1..n
      BY <2>2
    <3> HIDE DEF g
    <3> QED BY ONLY <3>1, n \in Nat \ {0}
  <2> HIDE DEF m
  <2>9. \A k \in 1..m : g[k] = t[first + k - 1]
    OBVIOUS
  <2> HIDE DEF g
  <2>10. ASSUME NEW k \in 2..m PROVE g[k] = Joining(g[k - 1], u[k])
    <3>1. k \in 1..m /\ k - 1 \in 1..m /\ (first + k - 1) - 1 = first + (k - 1) - 1
      BY <2>2, <2>6
    <3>2. t[first + k - 1] = Joining(t[(first + k - 1) - 1], v[first + k - 1])
      BY <1>6, <2>8, <3>1
    <3> QED BY <2>5, <2>9, <3>1, <3>2
  <2>11. ASSUME NEW k \in 1..m PROVE g[k] # <<>>
    <3> DEFINE P == {j \in 0..(m - 1) : g[j + 1] # <<>>}
    <3>1. 0 \in P
      <4>1. u[1] # <<>>
        BY <2>2, <2>5, <2>6
      <4> QED BY <2>6, <2>7, <4>1
    <3>2. ASSUME NEW j \in 1..(m - 1), j - 1 \in P PROVE j \in P
      <4>1. j + 1 \in 2..m /\ (j + 1) - 1 = j /\ (j - 1) + 1 = j /\ j \in 1..m /\ j + 1 \in 1..m
        BY <2>6
      <4>2. g[j + 1] = Joining(g[j], u[j + 1]) /\ g[j] # <<>>
        BY <2>10, <3>2, <4>1
      <4>3. g[j] \in Seq(Chars)
        BY <1>7, <2>8, <2>9, <4>1
      <4>4. u[j + 1] \in Seq(Chars)
        BY <1>1, <2>5, <2>8, <4>1
      <4>5. g[j + 1] # <<>>
        BY <4>2, <4>3, <4>4, JoiningType
      <4> QED BY <2>6, <4>5
    <3>3. k - 1 \in P
      <4>1. P \in SUBSET (0..(m - 1)) /\ m - 1 \in Nat /\ k - 1 \in 0..(m - 1)
        BY <2>6
      <4> HIDE DEF P
      <4> QED BY <3>1, <3>2, <4>1, AlongLoop
    <3> QED BY <3>3
  <2> DEFINE Is(h) == h = [k \in 1..Len(u) |-> IF k = 1 THEN u[1] ELSE h[k - 1] \o <<" ">> \o u[k]]
             h == CHOOSE h : Is(h)
  <2>12. Join(u, <<" ">>) = h[m]
    BY <2>5 DEF Join
  <2>13. ASSUME NEW k \in 2..m PROVE g[k] = g[k - 1] \o <<" ">> \o u[k]
    <3>1. k - 1 \in 1..m
      BY <2>6
    <3> QED BY <2>10, <2>11, <3>1 DEF Joining
  <2>14. Is(g)
    <3>1. \A k \in 1..m : g[k] = IF k = 1 THEN u[1] ELSE g[k - 1] \o <<" ">> \o u[k]
      <4> SUFFICES ASSUME NEW k \in 1..m, k # 1 PROVE g[k] = g[k - 1] \o <<" ">> \o u[k]
        BY <2>7
      <4>1. k \in 2..m
        BY <2>6
      <4> QED BY <2>13, <4>1
    <3>2. g = [k \in 1..m |-> g[k]]
      BY DEF g
    <3> QED BY <2>5, <3>1, <3>2
  <2>15. Is(h)
    BY <2>14
  <2> HIDE DEF h
  <2>16. h[1] = u[1]
    <3>1. 1 \in 1..Len(u)
      BY <2>5, <2>6
    <3> QED BY <2>15, <3>1
  <2>17. ASSUME NEW k \in 2..m PROVE h[k] = h[k - 1] \o <<" ">> \o u[k]
    <3>1. k \in 1..Len(u) /\ k # 1
      BY <2>5, <2>6
    <3> QED BY <2>15, <3>1
  <2> HIDE DEF Is
  <2> DEFINE P == {j \in 0..(m - 1) : h[j + 1] = g[j + 1]}
  <2>18. 0 \in P
    BY <2>6, <2>7, <2>16
  <2>19. ASSUME NEW j \in 1..(m - 1), j - 1 \in P PROVE j \in P
    <3>1. j + 1 \in 2..m /\ (j + 1) - 1 = j /\ (j - 1) + 1 = j
      BY <2>6
    <3>2. h[j] = g[j]
      BY <2>19, <3>1
    <3>3. h[j + 1] = h[j] \o <<" ">> \o u[j + 1] /\ g[j + 1] = g[j] \o <<" ">> \o u[j + 1]
      BY <2>13, <2>17, <3>1
    <3>4. h[j + 1] = g[j + 1]
      BY ONLY <3>2, <3>3
    <3> QED BY <2>6, <3>4
  <2>20. m - 1 \in P
    <3>1. P \in SUBSET (0..(m - 1)) /\ m - 1 \in Nat /\ m - 1 \in 0..(m - 1)
      BY <2>6
    <3> HIDE DEF P
    <3> QED BY <2>18, <2>19, <3>1, AlongLoop
  <2>21. h[m] = g[m]
    BY <2>6, <2>20
  <2>22. g[m] = t[n]
    BY <2>6, <2>9
  <2>23. first # 0 /\ Len(v) = n
    BY <1>1, <2>2
  <2>24. TermOf(v) = Join(u, <<" ">>)
    BY <1>4, <2>23 DEF u
  <2> QED BY <1>3, <2>12, <2>21, <2>22, <2>24 DEF v
<1> QED BY <1>8, <1>9

(* A list in memory is not longer than an unsigned number can say.         *)
LEMMA Unwrapped ==
  ASSUME NEW x \in 0..MaxText
  PROVE  Uint(x) = x
<1> DEFINE m == 2^UintBits
<1>1. MaxText \in Nat /\ m \in Nat \ {0} /\ MaxText < m
  BY TextAssumption
<1> HIDE DEF m
<1>2. x \in 0..(m - 1) /\ x \in Int /\ 0 \in Int /\ x = m * 0 + x
  BY <1>1
<1>3. x % m = x
  BY <1>1, <1>2, ModUnique
<1> QED BY <1>3 DEF Uint, m

(* A list of one list, flattened.                                          *)
LEMMA OfOne ==
  ASSUME NEW x
  PROVE  FlattenSeq([k \in 1..1 |-> x]) = x
<1> DEFINE c == [k \in 1..1 |-> x]
           Is(h) == h = [i \in 1..Len(c) |-> IF i = 1 THEN c[i] ELSE h[i - 1] \o c[i]]
           h == CHOOSE h : Is(h)
<1>1. Len(c) = 1 /\ c[1] = x
  OBVIOUS
<1> HIDE DEF c
<1>2. FlattenSeq(c) = h[1]
  BY <1>1 DEF FlattenSeq
<1> DEFINE g == [i \in 1..Len(c) |-> x]
<1>3. Is(g)
  <2>1. \A i \in 1..Len(c) : i = 1
    BY <1>1
  <2>2. g = [i \in 1..Len(c) |-> IF i = 1 THEN c[i] ELSE g[i - 1] \o c[i]]
    BY <1>1, <2>1
  <2> QED BY <2>2
<1>4. Is(h)
  BY <1>3
<1> HIDE DEF h
<1>5. h[1] = x
  BY <1>1, <1>4
<1> QED BY <1>2, <1>5 DEF c

(* The terms of one size are those of the windows of this size.            *)
LEMMA TermsOfSize ==
  ASSUME NEW w \in Seq(Seq(Chars)), Len(w) <= MaxText, NEW n \in 1..(Len(w) + 1)
  PROVE  generateNgram(w, n) = [i \in DOMAIN Windows(w, n) |-> TermOf(Windows(w, n)[i])]
<1> DEFINE N == Len(w) - n + 1
<1>1. N \in 0..MaxText /\ n \in Nat \ {0}
  BY TextAssumption
<1>2. NumTerms(w, n) = N
  BY <1>1, Unwrapped DEF NumTerms
<1>3. DOMAIN Windows(w, n) = 1..N /\ \A i \in 1..N : Windows(w, n)[i] = SubSeq(w, i, i + n - 1)
  BY DEF Windows
<1>4. \A i \in 1..N : Term(w, i, n) = TermOf(Windows(w, n)[i])
  BY <1>1, <1>3, TermIsJoined
<1>5. generateNgram(w, n) = [i \in 1..N |-> Term(w, i, n)]
  BY <1>2 DEF generateNgram
<1> HIDE DEF N
<1> QED BY <1>3, <1>4, <1>5

(* The words of a text: a word for each character but the space, which is an empty word. *)
WordsIn(s) == [i \in DOMAIN s |-> IF s[i] = " " THEN <<>> ELSE <<s[i]>>]

(* They are a list of words, one for each character.                       *)
LEMMA WordsInType ==
  ASSUME NEW s \in Seq(Alphabet)
  PROVE  WordsIn(s) \in Seq(Seq(Chars)) /\ Len(WordsIn(s)) = Len(s)
<1>1. ASSUME NEW i \in 1..Len(s) PROVE WordsIn(s)[i] \in Seq(Chars)
  <2>1. s[i] \in Chars
    <3>1. s[i] \in Alphabet
      OBVIOUS
    <3> QED BY <3>1 DEF Chars
  <2>2. WordsIn(s)[i] = IF s[i] = " " THEN <<>> ELSE <<s[i]>>
    <3>1. i \in DOMAIN s
      OBVIOUS
    <3> QED BY <3>1 DEF WordsIn
  <2>3. <<s[i]>> \in Seq(Chars) /\ <<>> \in Seq(Chars)
    BY <2>1
  <2> QED BY <2>2, <2>3
<1>2. WordsIn(s) = [i \in 1..Len(s) |-> WordsIn(s)[i]]
  BY DEF WordsIn
<1> HIDE DEF WordsIn
<1> QED BY <1>1, <1>2

(* Terms of several sizes, given in either order of the limits.            *)
TermsIn(w, n) == [i \in DOMAIN Windows(w, n) |-> TermOf(Windows(w, n)[i])]

(* The terms of a range of sizes, in whichever order its ends are given.   *)
LEMMA SizesInOrder ==
  ASSUME NEW w \in Seq(Seq(Chars)), Len(w) <= MaxText, NEW lo \in 1..(Len(w) + 1), NEW hi \in 1..(Len(w) + 1)
  PROVE  /\ lo <= hi => generateNgrams(w, lo, hi) = FlattenSeq([k \in 1..(hi - lo + 1) |-> TermsIn(w, lo + k - 1)])
         /\ hi <= lo => generateNgrams(w, lo, hi) = TermsIn(w, hi)
<1>1. ASSUME NEW n \in 1..(Len(w) + 1) PROVE generateNgram(w, n) = TermsIn(w, n)
  BY TermsOfSize DEF TermsIn
<1>2. CASE lo <= hi
  <2> DEFINE a == [k \in 1..(hi - lo + 1) |-> generateNgram(w, lo + k - 1)]
             b == [k \in 1..(hi - lo + 1) |-> TermsIn(w, lo + k - 1)]
  <2>1. generateNgrams(w, lo, hi) = FlattenSeq(a)
    BY <1>2 DEF generateNgrams
  <2>2. ASSUME NEW k \in 1..(hi - lo + 1) PROVE generateNgram(w, lo + k - 1) = TermsIn(w, lo + k - 1)
    <3>1. lo + k - 1 \in 1..(Len(w) + 1)
      OBVIOUS
    <3> QED BY <1>1, <3>1
  <2>3. a = b
    BY <2>2
  <2> HIDE DEF a
  <2>4. generateNgrams(w, lo, hi) = FlattenSeq(b)
    BY <2>1, <2>3
  <2>5. CASE lo = hi
    <3>1. hi - lo + 1 = 1 /\ lo + 1 - 1 = hi
      BY <2>5
    <3>2. b = [k \in 1..1 |-> TermsIn(w, hi)]
      <4>1. \A k \in 1..1 : lo + k - 1 = hi
        BY <2>5
      <4> QED BY <3>1, <4>1
    <3> QED BY <1>2, <2>4, <3>2, OfOne
  <2>6. CASE lo # hi
    BY <1>2, <2>4, <2>6
  <2> QED BY <2>5, <2>6
<1>3. CASE hi <= lo
  <2>1. generateNgrams(w, lo, hi) = FlattenSeq([k \in 1..(hi - hi + 1) |-> generateNgram(w, hi + k - 1)])
    <3>1. CASE lo = hi
      BY <3>1 DEF generateNgrams
    <3>2. CASE lo > hi
      BY <3>2 DEF generateNgrams
    <3> QED BY <1>3, <3>1, <3>2
  <2>2. [k \in 1..(hi - hi + 1) |-> generateNgram(w, hi + k - 1)] = [k \in 1..1 |-> TermsIn(w, hi)]
    <3>1. hi - hi + 1 = 1 /\ \A k \in 1..1 : hi + k - 1 = hi
      OBVIOUS
    <3> QED BY <1>1, <3>1
  <2>3. generateNgrams(w, lo, hi) = TermsIn(w, hi)
    BY <2>1, <2>2, OfOne
  <2> QED BY <1>2, <2>3
<1> QED BY <1>2, <1>3

(* For any text and any two sizes the terms are those of all windows.      *)
THEOREM TermsHold == TextSpec => []NgramsAsDefined
<1>1. IsText => NgramsAsDefined
  <2> SUFFICES ASSUME IsText PROVE NgramsAsDefined
    OBVIOUS
  <2>1. WordsIn(text) \in Seq(Seq(Chars)) /\ Len(WordsIn(text)) <= MaxText
    BY WordsInType DEF IsText
  <2>2. ASSUME NEW lo \in 1..(Len(WordsIn(text)) + 1), NEW hi \in 1..(Len(WordsIn(text)) + 1)
        PROVE  /\ lo <= hi => generateNgrams(WordsIn(text), lo, hi)
                                = FlattenSeq([k \in 1..(hi - lo + 1) |-> TermsIn(WordsIn(text), lo + k - 1)])
               /\ hi <= lo => generateNgrams(WordsIn(text), lo, hi) = TermsIn(WordsIn(text), hi)
    BY <2>1, SizesInOrder
  <2> QED BY <2>2 DEF NgramsAsDefined, WordsIn, TermsIn, TermOf
<1> QED BY <1>1, TextTyped, PTL

-----------------------------------------------------------------------------
(* Recursions from the end of a text                                       *)

(* What a recursion returns at each place.                                 *)
Unwinds(g, n, S, base, next, f) ==
  g \in [1..n -> S] /\ \A i \in 1..n : g[i] = IF next[i] = 0 THEN base[i] ELSE f[i][g[next[i]]]

(* A recursion that stops or goes on at a later place is well defined.     *)
LEMMA LoopBack ==
  ASSUME NEW n \in Nat, NEW S, NEW base \in [1..n -> S], NEW next \in [1..n -> 0..n],
         NEW f \in [1..n -> [S -> S]], \A i \in 1..n : next[i] # 0 => next[i] > i
  PROVE  \E g : Unwinds(g, n, S, base, next, f)
<1> DEFINE Good(g, i) == g[i] = IF next[i] = 0 THEN base[i] ELSE f[i][g[next[i]]]
           T == {m \in Nat : m <= n => \E g \in [1..n -> S] : \A i \in (n - m + 1)..n : Good(g, i)}
<1>1. 0 \in T
  <2>1. \A i \in (n - 0 + 1)..n : Good(base, i)
    OBVIOUS
  <2> QED BY <2>1
<1>2. ASSUME NEW m \in T PROVE m + 1 \in T
  <2>1. m \in Nat /\ m + 1 \in Nat
    <3> HIDE DEF Good
    <3> QED BY DEF T
  <2> SUFFICES ASSUME m + 1 <= n PROVE \E g \in [1..n -> S] : \A i \in (n - (m + 1) + 1)..n : Good(g, i)
    BY <2>1
  <2>2. m <= n
    BY <2>1
  <2>3. PICK g \in [1..n -> S] : \A i \in (n - m + 1)..n : Good(g, i)
    <3> HIDE DEF Good
    <3> QED BY <2>2
  <2> HIDE DEF T
  <2> DEFINE k == n - m
             x == IF next[k] = 0 THEN base[k] ELSE f[k][g[next[k]]]
             h == [g EXCEPT ![k] = x]
  <2>4. k \in 1..n /\ \A i \in (n - (m + 1) + 1)..n : i \in 1..n /\ (i = k \/ (i \in (n - m + 1)..n /\ i > k))
    BY <2>1
  <2> HIDE DEF k
  <2>5. x \in S
    <3>1. next[k] # 0 => next[k] \in 1..n
      BY <2>4
    <3>2. next[k] # 0 => g[next[k]] \in S
      BY <3>1
    <3>3. f[k] \in [S -> S] /\ base[k] \in S
      BY <2>4
    <3> QED BY <3>2, <3>3
  <2> HIDE DEF x
  <2>6. h \in [1..n -> S] /\ h[k] = x /\ \A i \in 1..n : i # k => h[i] = g[i]
    BY <2>4, <2>5
  <2> HIDE DEF h
  <2>7. ASSUME NEW i \in (n - (m + 1) + 1)..n PROVE Good(h, i)
    <3>1. i \in 1..n /\ i >= k
      BY <2>4
    <3>2. next[i] # 0 => next[i] \in 1..n /\ next[i] > i
      BY <3>1
    <3>3. next[i] # 0 => h[next[i]] = g[next[i]]
      <4>1. k \in Int /\ i \in Int
        BY <2>4, <3>1
      <4>2. next[i] # 0 => next[i] # k
        BY <3>1, <3>2, <4>1
      <4> QED BY <2>6, <3>2, <4>2
    <3>4. CASE i = k
      BY <2>6, <3>3, <3>4 DEF x
    <3>5. CASE i # k
      <4>1. Good(g, i)
        BY <2>3, <2>4, <3>5
      <4> QED BY <2>6, <3>1, <3>3, <3>5, <4>1
    <3> QED BY <3>4, <3>5
  <2> HIDE DEF Good
  <2> QED BY <2>6, <2>7
<1>3. T \in SUBSET Nat
  <2> HIDE DEF Good
  <2> QED OBVIOUS
<1> HIDE DEF T
<1>4. n \in T
  BY <1>1, <1>2, <1>3, FromZero
<1>5. PICK g \in [1..n -> S] : \A i \in (n - n + 1)..n : Good(g, i)
  <2> HIDE DEF Good
  <2> QED BY <1>4 DEF T
<1>6. n - n + 1 = 1
  OBVIOUS
<1>7. Unwinds(g, n, S, base, next, f)
  BY <1>5, <1>6 DEF Unwinds
<1> QED BY <1>7

(* What holds at a place if it holds at all later ones holds at each.      *)
LEMMA FromEnd ==
  ASSUME NEW n \in Nat, NEW P \in SUBSET (1..n),
         \A i \in 1..n : (\A j \in (i + 1)..n : j \in P) => i \in P
  PROVE  \A i \in 1..n : i \in P
<1> DEFINE T == {m \in Nat : \A i \in 1..n : i > n - m => i \in P}
<1>1. 0 \in T
  OBVIOUS
<1>2. ASSUME NEW m \in T PROVE m + 1 \in T
  <2> SUFFICES ASSUME NEW i \in 1..n, i > n - (m + 1) PROVE i \in P
    OBVIOUS
  <2>1. ASSUME NEW j \in (i + 1)..n PROVE j \in P
    <3>1. j \in 1..n /\ j > n - m
      OBVIOUS
    <3> QED BY <3>1
  <2> QED BY <2>1
<1>3. T \in SUBSET Nat
  OBVIOUS
<1> HIDE DEF T
<1>4. n \in T
  BY <1>1, <1>2, <1>3, FromZero
<1> QED BY <1>4 DEF T

-----------------------------------------------------------------------------
(* Tokens                                                                  *)

(* Where a token starts.                                                   *)
Starts(s, seps, n) == {j \in 1..n : s[j] \notin seps /\ (j = 1 \/ s[j - 1] \in seps)}

(* What the loop of strtok() goes through.                                 *)
NextTokens(ts, s, seps, k) ==
  IF s[k] \in seps THEN ts
  ELSE IF k = 1 \/ s[k - 1] \in seps THEN Append(ts, <<s[k]>>)
  ELSE [ts EXCEPT ![Len(ts)] = Append(@, s[k])]

Splitting(t, s, seps, n) ==
  t[0] = <<>> /\ \A k \in 1..n : t[k] = NextTokens(t[k - 1], s, seps, k)

Tokened(S) == Seq(Seq(S) \ {<<>>})

(* One more character keeps the tokens nonempty texts.                     *)
LEMMA NextTokensType ==
  ASSUME NEW S, NEW s \in Seq(S), NEW k \in 1..Len(s), NEW seps, NEW ts \in Tokened(S)
  PROVE  NextTokens(ts, s, seps, k) \in Tokened(S)
<1> DEFINE N == Seq(S) \ {<<>>}
           c == s[k]
<1>1. c \in S
  BY ElementOfSeq
<1> HIDE DEF c
<1>2. <<c>> \in N
  BY <1>1
<1>3. ts \in Seq(N) /\ Len(ts) \in Nat
  BY LenProperties DEF Tokened
<1>4. Append(ts, <<c>>) \in Seq(N)
  <2> HIDE DEF N
  <2> QED BY <1>2, <1>3, AppendProperties
<1>5. CASE ts = <<>>
  <2>1. [ts EXCEPT ![Len(ts)] = Append(@, c)] = ts
    BY <1>5
  <2> QED BY <1>3, <1>4, <2>1 DEF NextTokens, Tokened, c
<1>6. CASE ts # <<>>
  <2>1. Len(ts) \in 1..Len(ts)
    BY <1>3, <1>6, EmptySeq
  <2>2. ts[Len(ts)] \in N
    <3> HIDE DEF N
    <3> QED BY <1>3, <2>1, ElementOfSeq
  <2>3. Append(ts[Len(ts)], c) \in N
    BY <1>1, <2>2, AppendProperties
  <2>4. [ts EXCEPT ![Len(ts)] = Append(ts[Len(ts)], c)] \in Seq(N)
    <3> HIDE DEF N
    <3> QED BY <1>3, <2>1, <2>3, ExceptSeq
  <2>5. [ts EXCEPT ![Len(ts)] = Append(@, c)] = [ts EXCEPT ![Len(ts)] = Append(ts[Len(ts)], c)]
    OBVIOUS
  <2> QED BY <1>3, <1>4, <2>4, <2>5 DEF NextTokens, Tokened, c
<1> QED BY <1>5, <1>6

(* Tokens() is the last of them.                                           *)
LEMMA TokensReached ==
  ASSUME NEW S, NEW s \in Seq(S), NEW seps
  PROVE  \E t \in [0..Len(s) -> Tokened(S)] :
           Splitting(t, s, seps, Len(s)) /\ Tokens(s, seps) = t[Len(s)]
<1> DEFINE n == Len(s)
           Body(h, k) == IF k = 0 THEN <<>> ELSE NextTokens(h[k - 1], s, seps, k)
           Is(h) == h = [k \in 0..n |-> Body(h, k)]
           h == CHOOSE h : Is(h)
           f == [k \in 1..n |-> [ts \in Tokened(S) |-> NextTokens(ts, s, seps, k)]]
<1>1. n \in Nat /\ <<>> \in Tokened(S)
  BY LenProperties, EmptySeq DEF Tokened
<1>2. f \in [1..n -> [Tokened(S) -> Tokened(S)]]
  BY NextTokensType
<1>3. \A k \in 1..n : \A ts \in Tokened(S) : f[k][ts] = NextTokens(ts, s, seps, k)
  OBVIOUS
<1> HIDE DEF n, f
<1>4. PICK g : Passes(g, n, Tokened(S), <<>>, f)
  BY <1>1, <1>2, Loop
<1>5. Is(g)
  <2>1. ASSUME NEW k \in 0..n PROVE g[k] = Body(g, k)
    <3>1. CASE k = 0
      BY <1>4, <3>1 DEF Passes
    <3>2. CASE k # 0
      <4>1. k \in 1..n /\ k - 1 \in 0..n
        BY <1>1, <3>2
      <4>2. g[k] = f[k][g[k - 1]] /\ g[k - 1] \in Tokened(S)
        BY <1>4, <4>1 DEF Passes
      <4> QED BY <1>3, <3>2, <4>1, <4>2
    <3> QED BY <3>1, <3>2
  <2>2. g = [k \in 0..n |-> g[k]]
    BY <1>4 DEF Passes
  <2> QED BY <2>1, <2>2
<1>6. Is(h)
  BY <1>5
<1>7. Tokens(s, seps) = h[n]
  BY DEF Tokens, NextTokens, n
<1> HIDE DEF h
<1>8. h[0] = <<>> /\ \A k \in 1..n : h[k] = NextTokens(h[k - 1], s, seps, k)
  <2>1. 0 \in 0..n /\ \A k \in 1..n : k \in 0..n /\ k # 0
    BY <1>1
  <2>2. \A k \in 0..n : h[k] = Body(h, k)
    BY <1>6
  <2> QED BY <2>1, <2>2
<1> DEFINE P == {k \in 0..n : h[k] \in Tokened(S)}
<1>9. \A k \in 0..n : k \in P
  <2>1. 0 \in P
    BY <1>1, <1>8
  <2>2. ASSUME NEW k \in 1..n, k - 1 \in P PROVE k \in P
    <3>1. h[k] \in Tokened(S)
      BY <1>8, <2>2, NextTokensType DEF n
    <3> QED BY <1>1, <3>1
  <2>3. P \in SUBSET (0..n)
    OBVIOUS
  <2> HIDE DEF P
  <2> QED BY <1>1, <2>1, <2>2, <2>3, AlongLoop
<1>10. h \in [0..n -> Tokened(S)]
  <2>1. h = [k \in 0..n |-> h[k]]
    BY <1>6
  <2>2. \A k \in 0..n : h[k] \in Tokened(S)
    BY <1>9
  <2> HIDE DEF Is
  <2> QED BY <2>1, <2>2
<1> QED BY <1>7, <1>8, <1>10 DEF Splitting, n

(* There are finitely many starts of words.                                *)
LEMMA StartsFinite ==
  ASSUME NEW s, NEW seps, NEW n \in Nat
  PROVE  IsFiniteSet(Starts(s, seps, n)) /\ Cardinality(Starts(s, seps, n)) \in Nat
<1>1. IsFiniteSet(1..n)
  BY FS_Interval
<1>2. Starts(s, seps, n) \in SUBSET (1..n)
  BY DEF Starts
<1>3. IsFiniteSet(Starts(s, seps, n))
  BY <1>1, <1>2, FS_Subset
<1> QED BY <1>3, FS_CardinalityType

(* There is a token for each start.                                        *)
LEMMA TokensCounted ==
  ASSUME NEW S, NEW s \in Seq(S), NEW seps
  PROVE  /\ Tokens(s, seps) \in Tokened(S)
         /\ Len(Tokens(s, seps)) = Cardinality(Starts(s, seps, Len(s)))
<1> DEFINE n == Len(s)
<1>1. n \in Nat
  BY LenProperties
<1>2. PICK t \in [0..n -> Tokened(S)] : Splitting(t, s, seps, n) /\ Tokens(s, seps) = t[n]
  BY TokensReached
<1> DEFINE P == {k \in 0..n : Len(t[k]) = Cardinality(Starts(s, seps, k))}
<1>3. 0 \in P
  <2>1. Starts(s, seps, 0) = {}
    BY DEF Starts
  <2>2. Len(t[0]) = 0
    BY <1>2, EmptySeq DEF Splitting
  <2> QED BY <1>1, <2>1, <2>2, FS_EmptySet
<1>4. ASSUME NEW k \in 1..n, k - 1 \in P PROVE k \in P
  <2>1. k - 1 \in 0..n /\ k - 1 \in Nat /\ k \in 0..n /\ k \in Nat
    BY <1>1
  <2>2. Len(t[k - 1]) = Cardinality(Starts(s, seps, k - 1)) /\ t[k - 1] \in Seq(Seq(S) \ {<<>>})
    BY <1>4, <2>1 DEF Tokened
  <2>3. t[k] = NextTokens(t[k - 1], s, seps, k)
    BY <1>2 DEF Splitting
  <2>4. s[k] \in S
    BY ElementOfSeq
  <2> DEFINE begins == s[k] \notin seps /\ (k = 1 \/ s[k - 1] \in seps)
  <2>5. CASE begins
    <3>1. Starts(s, seps, k) = Starts(s, seps, k - 1) \union {k} /\ k \notin Starts(s, seps, k - 1)
      <4>1. \A j \in 1..k : j = k \/ j \in 1..(k - 1)
        BY <2>1
      <4>2. \A j \in 1..(k - 1) : j \in 1..k /\ j # k
        BY <2>1
      <4> QED BY <2>5, <4>1, <4>2 DEF Starts
    <3>2. Cardinality(Starts(s, seps, k)) = Cardinality(Starts(s, seps, k - 1)) + 1
      BY <2>1, <3>1, StartsFinite, FS_AddElement
    <3> DEFINE e == <<s[k]>>
    <3>3. e \in Seq(S) \ {<<>>}
      BY <2>4
    <3>4. t[k] = Append(t[k - 1], e)
      BY <2>3, <2>5 DEF NextTokens
    <3> HIDE DEF e
    <3>5. Len(t[k]) = Len(t[k - 1]) + 1
      BY <2>2, <3>3, <3>4, AppendProperties
    <3> QED BY <2>1, <2>2, <3>2, <3>5
  <2>6. CASE ~begins
    <3>1. Starts(s, seps, k) = Starts(s, seps, k - 1)
      <4>1. \A j \in 1..k : j = k \/ j \in 1..(k - 1)
        BY <2>1
      <4>2. \A j \in 1..(k - 1) : j \in 1..k
        BY <2>1
      <4> QED BY <2>6, <4>1, <4>2 DEF Starts
    <3>2. Len(t[k]) = Len(t[k - 1])
      <4> DEFINE ts == t[k - 1]
      <4>1. t[k] = ts \/ t[k] = [ts EXCEPT ![Len(ts)] = Append(@, s[k])]
        BY <2>3, <2>6 DEF NextTokens
      <4>2. ts \in [1..Len(ts) -> Seq(S) \ {<<>>}] /\ Len(ts) \in Nat
        BY <2>2, LenProperties
      <4>3. Len([ts EXCEPT ![Len(ts)] = Append(@, s[k])]) = Len(ts)
        BY <4>2
      <4> QED BY <4>1, <4>3
    <3> QED BY <2>1, <2>2, <3>1, <3>2
  <2> QED BY <2>5, <2>6
<1>5. n \in P
  <2>1. P \in SUBSET (0..n) /\ n \in 0..n
    BY <1>1
  <2> HIDE DEF P
  <2> QED BY <1>1, <1>3, <1>4, <2>1, AlongLoop
<1> QED BY <1>1, <1>2, <1>5

-----------------------------------------------------------------------------
(* num_words()                                                             *)

(* The inner loop, which skips blanks.                                     *)
Skipping(skip, s, n) ==
  /\ skip \in [1..(n + 1) -> 1..(n + 1)]
  /\ \A i \in 1..(n + 1) : skip[i] = IF i <= n /\ s[i] \in Blank THEN skip[i + 1] ELSE i

SkipBody(h, s, i) == IF i <= Len(s) /\ s[i] \in Blank THEN h[i + 1] ELSE i

IsSkip(h, s) == h = [i \in 1..(Len(s) + 1) |-> SkipBody(h, s, i)]

(* The loop that skips blanks returns a place for each place.              *)
LEMMA SkipReached ==
  ASSUME NEW S, NEW s \in Seq(S)
  PROVE  LET skip == CHOOSE h : IsSkip(h, s) IN Skipping(skip, s, Len(s))
<1> DEFINE n == Len(s)
           m == n + 1
           h == CHOOSE h : IsSkip(h, s)
           base == [i \in 1..m |-> i]
           next == [i \in 1..m |-> IF i <= n /\ s[i] \in Blank THEN i + 1 ELSE 0]
           f == [i \in 1..m |-> [x \in 1..m |-> x]]
<1>1. n \in Nat /\ m \in Nat
  BY LenProperties
<1> HIDE DEF n
<1>2. base \in [1..m -> 1..m] /\ f \in [1..m -> [1..m -> 1..m]]
  OBVIOUS
<1>3. next \in [1..m -> 0..m] /\ \A i \in 1..m : next[i] # 0 => next[i] > i
  BY <1>1
<1>4. \E g : Unwinds(g, m, 1..m, base, next, f)
  <2> DEFINE M == 1..m
  <2>1. base \in [1..m -> M] /\ f \in [1..m -> [M -> M]]
    BY <1>2
  <2> HIDE DEF base, next, f, m, M
  <2>2. \E g : Unwinds(g, m, M, base, next, f)
    BY <1>1, <1>3, <2>1, LoopBack
  <2> QED BY <2>2 DEF M
<1>5. PICK g \in [1..m -> 1..m] : \A i \in 1..m : g[i] = IF next[i] = 0 THEN base[i] ELSE f[i][g[next[i]]]
  BY <1>4 DEF Unwinds
<1>6. IsSkip(g, s)
  <2>1. ASSUME NEW i \in 1..m PROVE g[i] = SkipBody(g, s, i)
    <3>1. CASE i <= n /\ s[i] \in Blank
      <4>1. next[i] = i + 1 /\ i + 1 \in 1..m /\ i + 1 # 0
        BY <1>1, <3>1
      <4>2. g[i + 1] \in 1..m
        BY <4>1
      <4> QED BY <1>5, <3>1, <4>1, <4>2 DEF SkipBody, n
    <3>2. CASE ~(i <= n /\ s[i] \in Blank)
      BY <1>5, <3>2 DEF SkipBody, n
    <3> QED BY <3>1, <3>2
  <2> QED BY <2>1 DEF IsSkip, n
<1>7. IsSkip(h, s)
  BY <1>6
<1> HIDE DEF h
<1>8. \A i \in 1..m : h[i] = SkipBody(h, s, i)
  BY <1>7 DEF IsSkip, n
<1> DEFINE P == {i \in 1..m : h[i] \in 1..m}
<1>9. ASSUME NEW i \in 1..m, \A j \in (i + 1)..m : j \in P PROVE i \in P
  <2>1. i <= n => i + 1 \in (i + 1)..m
    BY <1>1
  <2>2. i <= n => h[i + 1] \in 1..m
    BY <1>9, <2>1
  <2> QED BY <1>8, <2>2 DEF SkipBody, n
<1>10. \A i \in 1..m : i \in P
  <2>1. P \in SUBSET (1..m)
    OBVIOUS
  <2> HIDE DEF P, m
  <2> QED BY <1>1, <1>9, <2>1, FromEnd
<1>11. h \in [1..m -> 1..m]
  <2>1. h = [i \in 1..m |-> h[i]]
    BY <1>7 DEF IsSkip, n
  <2> QED BY <1>10, <2>1
<1> QED BY <1>8, <1>11 DEF Skipping, SkipBody, h, n

(* It skips all blanks and stops at a word or at the end.                  *)
LEMMA Skipped ==
  ASSUME NEW n \in Nat, NEW s, NEW skip, Skipping(skip, s, n), NEW i \in 1..(n + 1)
  PROVE  /\ skip[i] \in i..(n + 1) /\ \A k \in i..(skip[i] - 1) : s[k] \in Blank
         /\ skip[i] <= n => s[skip[i]] \notin Blank
<1> DEFINE m == n + 1
           Right(j) == /\ skip[j] \in j..m /\ \A k \in j..(skip[j] - 1) : s[k] \in Blank
                       /\ skip[j] <= n => s[skip[j]] \notin Blank
           P == {j \in 1..m : Right(j)}
<1>1. m \in Nat
  OBVIOUS
<1>2. ASSUME NEW j \in 1..m, \A k \in (j + 1)..m : k \in P PROVE j \in P
  <2>1. CASE j <= n /\ s[j] \in Blank
    <3>1. j + 1 \in (j + 1)..m
      BY <2>1
    <3>2. Right(j + 1)
      BY <1>2, <3>1
    <3>3. skip[j] = skip[j + 1]
      BY <2>1 DEF Skipping
    <3>4. \A k \in j..(skip[j] - 1) : k = j \/ k \in (j + 1)..(skip[j + 1] - 1)
      BY <3>2, <3>3
    <3>5. Right(j)
      BY <2>1, <3>2, <3>3, <3>4
    <3> QED BY <3>5
  <2>2. CASE ~(j <= n /\ s[j] \in Blank)
    <3>1. skip[j] = j
      BY <2>2 DEF Skipping
    <3> QED BY <2>2, <3>1
  <2> QED BY <2>1, <2>2
<1>3. P \in SUBSET (1..m)
  OBVIOUS
<1>4. i \in P
  <2> HIDE DEF P
  <2>1. \A j \in 1..m : j \in P
    <3> HIDE DEF m
    <3> QED BY <1>1, <1>2, <1>3, FromEnd
  <2> QED BY <2>1
<1> QED BY <1>4

(* The outer loop, which counts the words behind a place.                  *)
CountBody(h, s, skip, i) ==
  IF i > Len(s) THEN 0
  ELSE IF s[i] \notin Blank THEN h[i + 1]
  ELSE IF skip[i + 1] > Len(s) THEN 0 ELSE 1 + h[skip[i + 1]]

IsCount(h, s, skip) == h = [i \in 1..(Len(s) + 1) |-> CountBody(h, s, skip, i)]

(* The loop that counts words returns a number for each place.             *)
LEMMA CountReached ==
  ASSUME NEW S, NEW s \in Seq(S), NEW skip, Skipping(skip, s, Len(s))
  PROVE  LET count == CHOOSE h : IsCount(h, s, skip)
         IN  /\ count \in [1..(Len(s) + 1) -> Nat]
             /\ \A i \in 1..(Len(s) + 1) : count[i] = CountBody(count, s, skip, i)
<1> DEFINE n == Len(s)
           m == n + 1
           h == CHOOSE h : IsCount(h, s, skip)
           base == [i \in 1..m |-> 0]
           next == [i \in 1..m |-> IF i > n THEN 0 ELSE IF s[i] \notin Blank THEN i + 1
                                   ELSE IF skip[i + 1] > n THEN 0 ELSE skip[i + 1]]
           f == [i \in 1..m |-> [x \in Nat |-> IF s[i] \notin Blank THEN x ELSE 1 + x]]
<1>1. n \in Nat /\ m \in Nat
  BY LenProperties
<1>2. \A i \in 1..m : skip[i] \in i..m
  BY <1>1, Skipped
<1> HIDE DEF n
<1>3. base \in [1..m -> Nat] /\ f \in [1..m -> [Nat -> Nat]]
  OBVIOUS
<1>4. next \in [1..m -> 0..m] /\ \A i \in 1..m : next[i] # 0 => next[i] > i
  <2>1. \A i \in 1..m : i <= n => i + 1 \in 1..m /\ skip[i + 1] \in (i + 1)..m
    BY <1>1, <1>2
  <2> QED BY <1>1, <2>1
<1>5. \E g : Unwinds(g, m, Nat, base, next, f)
  <2> HIDE DEF base, next, f, m
  <2> QED BY <1>1, <1>3, <1>4, LoopBack
<1>6. PICK g \in [1..m -> Nat] : \A i \in 1..m : g[i] = IF next[i] = 0 THEN base[i] ELSE f[i][g[next[i]]]
  BY <1>5 DEF Unwinds
<1>7. IsCount(g, s, skip)
  <2>1. ASSUME NEW i \in 1..m PROVE g[i] = CountBody(g, s, skip, i)
    <3>1. CASE i > n
      BY <1>6, <3>1 DEF CountBody, n
    <3>2. CASE i <= n /\ s[i] \notin Blank
      <4>1. next[i] = i + 1 /\ i + 1 \in 1..m /\ i + 1 # 0
        BY <1>1, <3>2
      <4>2. g[i + 1] \in Nat
        BY <4>1
      <4>3. g[i] = g[i + 1]
        BY <1>6, <3>2, <4>1, <4>2
      <4> QED BY <1>1, <3>2, <4>3 DEF CountBody, n
    <3>3. CASE i <= n /\ s[i] \in Blank
      <4>1. skip[i + 1] \in 1..m /\ skip[i + 1] # 0
        BY <1>1, <1>2, <3>3
      <4>2. next[i] = IF skip[i + 1] > n THEN 0 ELSE skip[i + 1]
        BY <1>1, <3>3
      <4>3. g[skip[i + 1]] \in Nat
        BY <4>1
      <4>4. g[i] = IF skip[i + 1] > n THEN 0 ELSE 1 + g[skip[i + 1]]
        BY <1>6, <3>3, <4>1, <4>2, <4>3
      <4> QED BY <1>1, <3>3, <4>4 DEF CountBody, n
    <3> QED BY <1>1, <3>1, <3>2, <3>3
  <2> QED BY <2>1 DEF IsCount, n
<1>8. IsCount(h, s, skip)
  BY <1>7
<1> HIDE DEF h
<1>9. \A i \in 1..m : h[i] = CountBody(h, s, skip, i)
  BY <1>8 DEF IsCount, n
<1> DEFINE P == {i \in 1..m : h[i] \in Nat}
<1>10. ASSUME NEW i \in 1..m, \A j \in (i + 1)..m : j \in P PROVE i \in P
  <2>1. i <= n => i + 1 \in (i + 1)..m /\ skip[i + 1] \in (i + 1)..m
    BY <1>1, <1>2
  <2>2. i <= n => h[i + 1] \in Nat /\ h[skip[i + 1]] \in Nat
    BY <1>10, <2>1
  <2>3. h[i] = CountBody(h, s, skip, i)
    BY <1>9
  <2>4. CountBody(h, s, skip, i) \in Nat
    BY <1>1, <2>2 DEF CountBody, n
  <2> QED BY <2>3, <2>4
<1>11. \A i \in 1..m : i \in P
  <2>1. P \in SUBSET (1..m)
    OBVIOUS
  <2> HIDE DEF P, m
  <2> QED BY <1>1, <1>10, <2>1, FromEnd
<1>12. h \in [1..m -> Nat]
  <2>1. h = [i \in 1..m |-> h[i]]
    BY <1>8 DEF IsCount, n
  <2> QED BY <1>11, <2>1
<1> QED BY <1>9, <1>12 DEF h, n

(* num_words() counts the words but the first.                             *)
LEMMA WordsBehind ==
  ASSUME NEW S, NEW s \in Seq(S), Starts(s, Blank, Len(s)) # {}
  PROVE  num_words(s) + 1 = Cardinality(Starts(s, Blank, Len(s)))
<1> DEFINE n == Len(s)
           m == n + 1
           skip == CHOOSE h : IsSkip(h, s)
           count == CHOOSE h : IsCount(h, s, skip)
           Behind(i) == {j \in Starts(s, Blank, n) : j > i}
<1>1. n \in Nat /\ m \in Nat
  BY LenProperties
<1>2. num_words(s) = count[skip[1]]
  BY DEF num_words, IsCount, CountBody, IsSkip, SkipBody
<1>3. Skipping(skip, s, n)
  BY SkipReached
<1> HIDE DEF skip
<1>4. count \in [1..m -> Nat] /\ \A i \in 1..m : count[i] = CountBody(count, s, skip, i)
  BY <1>3, CountReached
<1> HIDE DEF count
<1>5. ASSUME NEW i \in 1..m
      PROVE  /\ skip[i] \in i..m /\ \A k \in i..(skip[i] - 1) : s[k] \in Blank
             /\ skip[i] <= n => s[skip[i]] \notin Blank
  BY <1>1, <1>3, Skipped
<1>6. \A i \in Nat : IsFiniteSet(Behind(i))
  <2>1. IsFiniteSet(Starts(s, Blank, n))
    BY <1>1, StartsFinite
  <2>2. \A i \in Nat : Behind(i) \in SUBSET Starts(s, Blank, n)
    OBVIOUS
  <2> HIDE DEF Behind, n
  <2> QED BY <2>1, <2>2, FS_Subset
<1> HIDE DEF n
<1> DEFINE P == {i \in 1..m : count[i] = Cardinality(Behind(i))}
<1>7. ASSUME NEW i \in 1..m, \A j \in (i + 1)..m : j \in P PROVE i \in P
  <2>1. count[i] = CountBody(count, s, skip, i)
    BY <1>4
  <2>2. CASE i > n
    <3>1. Behind(i) = {}
      BY <1>1, <2>2 DEF Starts
    <3>2. count[i] = 0
      BY <2>1, <2>2 DEF CountBody, n
    <3> QED BY <3>1, <3>2, FS_EmptySet
  <2>3. CASE i <= n /\ s[i] \notin Blank
    <3>1. Behind(i) = Behind(i + 1)
      <4>1. i + 1 \notin Starts(s, Blank, n)
        BY <2>3 DEF Starts
      <4>2. \A j \in Starts(s, Blank, n) : j \in Int
        BY DEF Starts
      <4> QED BY <4>1, <4>2
    <3>2. i + 1 \in P
      BY <1>1, <1>7, <2>3
    <3>3. count[i] = count[i + 1]
      BY <1>1, <2>1, <2>3 DEF CountBody, n
    <3> QED BY <3>1, <3>2, <3>3
  <2>4. CASE i <= n /\ s[i] \in Blank
    <3> DEFINE k == skip[i + 1]
    <3>1. /\ k \in (i + 1)..m /\ \A l \in (i + 1)..(k - 1) : s[l] \in Blank
          /\ k <= n => s[k] \notin Blank
      BY <1>1, <1>5, <2>4
    <3>2. count[i] = IF k > n THEN 0 ELSE 1 + count[k]
      BY <1>1, <2>1, <2>4 DEF CountBody, n
    <3> HIDE DEF k
    <3>3. \A j \in Starts(s, Blank, n) : j \in 1..n /\ s[j] \notin Blank
      BY DEF Starts
    <3>4. CASE k > n
      <4>1. Behind(i) = {}
        BY <1>1, <3>1, <3>3, <3>4
      <4> QED BY <3>2, <3>4, <4>1, FS_EmptySet
    <3>5. CASE k <= n
      <4>1. k \in Starts(s, Blank, n)
        <5>1. k \in 1..n /\ s[k] \notin Blank
          BY <1>1, <3>1, <3>5
        <5>2. k - 1 = i \/ k - 1 \in (i + 1)..(k - 1)
          BY <1>1, <3>1
        <5>3. s[k - 1] \in Blank
          BY <2>4, <3>1, <5>2
        <5> QED BY <5>1, <5>3 DEF Starts
      <4>2. Behind(i) = Behind(k) \union {k} /\ k \notin Behind(k)
        <5>1. \A j \in Starts(s, Blank, n) : j > i => j \in (i + 1)..(k - 1) \/ j = k \/ j > k
          BY <1>1, <3>1, <3>3
        <5>2. \A j \in Starts(s, Blank, n) : j > i => j = k \/ j > k
          BY <3>1, <3>3, <5>1
        <5>3. \A j \in Starts(s, Blank, n) : j > k => j > i
          BY <1>1, <3>1, <3>3
        <5>4. k > i /\ ~(k > k)
          BY <3>1
        <5> QED BY <4>1, <5>2, <5>3, <5>4
      <4>3. Cardinality(Behind(i)) = Cardinality(Behind(k)) + 1
        <5>1. k \in Nat
          BY <3>1
        <5>2. IsFiniteSet(Behind(k))
          BY <1>6, <5>1
        <5> HIDE DEF Behind
        <5> QED BY <4>2, <5>2, FS_AddElement
      <4>4. k \in P
        BY <1>7, <3>1
      <4>5. count[k] = Cardinality(Behind(k)) /\ count[k] \in Nat
        BY <1>4, <4>4
      <4>6. count[i] = 1 + count[k]
        BY <1>1, <3>1, <3>2, <3>5
      <4> HIDE DEF Behind
      <4> QED BY <4>3, <4>5, <4>6
    <3> QED BY <1>1, <3>1, <3>4, <3>5
  <2> QED BY <1>1, <2>2, <2>3, <2>4
<1>8. \A i \in 1..m : i \in P
  <2>1. P \in SUBSET (1..m)
    OBVIOUS
  <2> HIDE DEF P, m
  <2> QED BY <1>1, <1>7, <2>1, FromEnd
<1> DEFINE k == skip[1]
<1>9. k \in 1..m /\ (\A l \in 1..(k - 1) : s[l] \in Blank) /\ (k <= n => s[k] \notin Blank)
  BY <1>1, <1>5
<1>10. count[k] = Cardinality(Behind(k)) /\ count[k] \in Nat
  BY <1>4, <1>8, <1>9
<1> HIDE DEF k
<1>11. \A j \in Starts(s, Blank, n) : j \in 1..n /\ s[j] \notin Blank
  BY DEF Starts
<1>12. k <= n
  <2>1. PICK j \in Starts(s, Blank, n) : TRUE
    BY DEF n
  <2> QED BY <1>1, <1>9, <1>11, <2>1
<1>13. k \in Starts(s, Blank, n)
  <2>1. k = 1 \/ k - 1 \in 1..(k - 1)
    BY <1>9
  <2> QED BY <1>1, <1>9, <1>12, <2>1 DEF Starts
<1>14. Starts(s, Blank, n) = Behind(k) \union {k} /\ k \notin Behind(k)
  <2>1. \A j \in Starts(s, Blank, n) : j = k \/ j > k
    BY <1>1, <1>9, <1>11
  <2>2. ~(k > k)
    BY <1>9
  <2> QED BY <1>13, <2>1, <2>2
<1>15. IsFiniteSet(Behind(k))
  BY <1>6, <1>9
<1> HIDE DEF Behind
<1>16. Cardinality(Starts(s, Blank, n)) = Cardinality(Behind(k)) + 1
  BY <1>14, <1>15, FS_AddElement
<1> QED BY <1>2, <1>10, <1>16 DEF k, n

(* Each word but the first has a space before it, if it has no tab.        *)
LEMMA SlotsSuffice ==
  ASSUME NEW S, NEW s \in Seq(S), \A i \in 1..Len(s) : s[i] # "\t"
  PROVE  Cardinality(Starts(s, Blank, Len(s))) + 1 <= SplitSlots(s)
<1> DEFINE n == Len(s)
           I == {i \in 1..n : s[i] \notin Blank}
           u == Unindented(s)
           T == {i \in DOMAIN u : u[i] = " "}
<1>1. n \in Nat
  BY LenProperties
<1>2. SplitSlots(s) = Cardinality(T) + 3
  BY DEF SplitSlots, numspaces
<1>3. CASE I = {}
  <2>1. Starts(s, Blank, n) = {}
    BY <1>3 DEF Starts
  <2>2. u = <<>>
    BY <1>3 DEF Unindented, SelectInSeq
  <2>3. T = {}
    BY <2>2
  <2>4. Cardinality(Starts(s, Blank, n)) = 0 /\ Cardinality(T) = 0
    BY <2>1, <2>3, FS_EmptySet
  <2> HIDE DEF T, n
  <2>5. SplitSlots(s) = 3
    BY <1>2, <2>4
  <2> QED BY <2>4, <2>5 DEF n
<1>4. CASE I # {}
  <2> DEFINE k == Min(I)
  <2>1. I \in SUBSET Nat
    OBVIOUS
  <2>2. k \in I /\ \A i \in I : k <= i
    <3> HIDE DEF I
    <3> QED BY <1>4, <2>1, Least
  <2>3. u = SubSeq(s, k, n)
    <3>1. SelectInSeq(s, LAMBDA c : c \notin Blank) = k
      BY <1>4 DEF SelectInSeq
    <3>2. k # 0
      BY <2>2
    <3> HIDE DEF k
    <3> QED BY <3>1, <3>2 DEF Unindented
  <2> HIDE DEF k
  <2>4. k \in 1..n /\ s[k] \notin Blank
    BY <2>2
  <2>5. Len(u) = n - k + 1 /\ DOMAIN u = 1..(n - k + 1) /\ \A i \in 1..(n - k + 1) : u[i] = s[k + i - 1]
    BY <1>1, <2>3, <2>4
  <2>6. IsFiniteSet(T)
    <3>1. IsFiniteSet(1..(n - k + 1))
      BY <1>1, <2>4, FS_Interval
    <3>2. T \in SUBSET (1..(n - k + 1))
      BY <2>5
    <3> HIDE DEF T
    <3> QED BY <3>1, <3>2, FS_Subset
  <2> HIDE DEF u
  <2> DEFINE F == Starts(s, Blank, n) \ {k}
             f == [j \in F |-> j - k]
  <2>7. ASSUME NEW j \in F PROVE j \in (k + 1)..n /\ j - k \in T
    <3>1. j \in 1..n /\ s[j] \notin Blank /\ (j = 1 \/ s[j - 1] \in Blank) /\ j # k
      BY DEF Starts
    <3>2. j \in I
      BY <3>1
    <3>3. j >= k
      BY <2>2, <3>2
    <3>4. j > k /\ j - k \in 1..(n - k + 1) /\ j - 1 \in 1..n /\ k + (j - k) - 1 = j - 1
      BY <1>1, <2>4, <3>1, <3>3
    <3>5. s[j - 1] = " "
      <4>1. j # 1 /\ s[j - 1] # "\t"
        BY <2>4, <3>4
      <4> QED BY <3>1, <4>1 DEF Blank
    <3>6. u[j - k] = " " /\ j - k \in DOMAIN u
      BY <2>5, <3>4, <3>5
    <3>7. j - k \in T
      BY <3>6
    <3>8. j \in (k + 1)..n
      BY <1>1, <2>4, <3>1, <3>4
    <3> QED BY <3>7, <3>8
  <2>8. f \in Injection(F, T)
    <3>1. f \in [F -> T]
      <4> HIDE DEF F, T
      <4> QED BY <2>7
    <3>2. \A a, b \in F : f[a] = f[b] => a = b
      <4>1. \A a \in F : a \in Int
        <5>1. \A a \in (k + 1)..n : a \in Int
          OBVIOUS
        <5> HIDE DEF F, T, n
        <5> QED BY <2>7, <5>1
      <4>2. \A a \in F : f[a] = a - k
        OBVIOUS
      <4> HIDE DEF F, f
      <4> QED BY <2>4, <4>1, <4>2
    <3> HIDE DEF f
    <3> QED BY <3>1, <3>2 DEF Injection, IsInjective
  <2>9. Cardinality(F) <= Cardinality(T) /\ Cardinality(T) \in Nat
    <3> HIDE DEF f, F, T
    <3> QED BY <2>6, <2>8, FS_Injection, FS_CardinalityType
  <2>10. k \in Starts(s, Blank, n)
    <3>1. k = 1 \/ s[k - 1] \in Blank
      <4> SUFFICES ASSUME k # 1, s[k - 1] \notin Blank PROVE FALSE
        OBVIOUS
      <4>1. k - 1 \in I
        BY <2>4
      <4> QED BY <2>2, <2>4, <4>1
    <3> QED BY <2>4, <3>1 DEF Starts
  <2>11. Cardinality(F) = Cardinality(Starts(s, Blank, n)) - 1 /\ Cardinality(Starts(s, Blank, n)) \in Nat
    <3> HIDE DEF n
    <3> QED BY <1>1, <2>10, StartsFinite, FS_RemoveElement
  <2> HIDE DEF F, T
  <2> QED BY <1>2, <2>9, <2>11
<1> QED BY <1>3, <1>4

-----------------------------------------------------------------------------
(* replace()                                                               *)

(* strstr() finds the first place from i on.                               *)
LEMMA FirstPlace ==
  ASSUME NEW s, Len(s) \in Nat, NEW p, Len(p) \in Nat \ {0}, NEW i \in 1..(Len(s) + 1)
  PROVE  /\ strstr(s, p, i) = 0 => \A k \in i..(Len(s) - Len(p) + 1) : SubSeq(s, k, k + Len(p) - 1) # p
         /\ strstr(s, p, i) # 0 =>
              /\ strstr(s, p, i) \in i..(Len(s) - Len(p) + 1)
              /\ SubSeq(s, strstr(s, p, i), strstr(s, p, i) + Len(p) - 1) = p
              /\ \A k \in i..(strstr(s, p, i) - 1) : SubSeq(s, k, k + Len(p) - 1) # p
<1> DEFINE places == {k \in i..(Len(s) - Len(p) + 1) : SubSeq(s, k, k + Len(p) - 1) = p}
           least == CHOOSE k \in places : \A l \in places : k <= l
<1>1. CASE places = {}
  <2>1. strstr(s, p, i) = 0
    BY <1>1 DEF strstr
  <2> QED BY <1>1, <2>1
<1>2. CASE places # {}
  <2>1. strstr(s, p, i) = least
    BY <1>2 DEF strstr
  <2>2. places \in SUBSET Nat
    OBVIOUS
  <2>3. \E k \in places : \A l \in places : k <= l
    <3> HIDE DEF places
    <3> QED BY <1>2, <2>2, Least
  <2>4. least \in places /\ \A l \in places : least <= l
    <3> HIDE DEF places
    <3> QED BY <2>3
  <2> HIDE DEF least
  <2>5. least \in i..(Len(s) - Len(p) + 1) /\ least # 0
    BY <2>4
  <2>6. ASSUME NEW k \in i..(least - 1) PROVE SubSeq(s, k, k + Len(p) - 1) # p
    <3>1. k \in i..(Len(s) - Len(p) + 1) /\ k < least
      BY <2>5
    <3>2. k \notin places
      BY <2>4, <2>5, <3>1
    <3> QED BY <3>1, <3>2
  <2> QED BY <2>1, <2>4, <2>5, <2>6
<1> QED BY <1>1, <1>2

(* The recursion of replace() from each place on.                          *)
CopyBody(h, s, p, to, i) ==
  IF strstr(s, p, i) = 0 THEN SubSeq(s, i, Len(s))
  ELSE SubSeq(s, i, strstr(s, p, i) - 1) \o to \o h[strstr(s, p, i) + Len(p)]

IsCopy(h, s, p, to) == h = [i \in 1..(Len(s) + 1) |-> CopyBody(h, s, p, to, i)]

Copying(h, S, s, p, to) ==
  /\ h \in [1..(Len(s) + 1) -> Seq(S)]
  /\ \A i \in 1..(Len(s) + 1) : h[i] = CopyBody(h, s, p, to, i)

(* The second pass is well defined, from each place on.                    *)
LEMMA Replaced ==
  ASSUME NEW S, NEW s \in Seq(S), NEW p, Len(p) \in Nat \ {0}, NEW to \in Seq(S)
  PROVE  \E copied : Copying(copied, S, s, p, to) /\ replace(s, p, to) = copied[1]
<1> DEFINE n == Len(s)
           m == n + 1
           Q == Seq(S)
           K(i) == strstr(s, p, i)
           h == CHOOSE h : IsCopy(h, s, p, to)
           base == [i \in 1..m |-> SubSeq(s, i, n)]
           next == [i \in 1..m |-> IF K(i) = 0 THEN 0 ELSE K(i) + Len(p)]
           f == [i \in 1..m |-> [x \in Q |-> IF K(i) = 0 THEN x ELSE SubSeq(s, i, K(i) - 1) \o to \o x]]
<1>1. n \in Nat /\ m \in Nat
  BY LenProperties
<1>2. \A i \in 1..m : K(i) # 0 => K(i) \in i..(n - Len(p) + 1)
  <2> HIDE DEF strstr
  <2> QED BY <1>1, FirstPlace
<1> HIDE DEF K
<1>3. \A i \in 1..m : K(i) # 0 => K(i) + Len(p) \in 1..m /\ K(i) + Len(p) # 0 /\ K(i) + Len(p) > i
  BY <1>1, <1>2
<1>4. \A i \in 1..m, j \in 0..n : SubSeq(s, i, j) \in Q
  BY <1>1, SubSeqProperties
<1>5. \A i \in 1..m : SubSeq(s, i, n) \in Q
  <2>1. n \in 0..n
    BY <1>1
  <2> HIDE DEF Q, n, m
  <2> QED BY <1>4, <2>1
<1>6. \A i \in 1..m, x \in Q : K(i) # 0 => SubSeq(s, i, K(i) - 1) \o to \o x \in Q
  <2> SUFFICES ASSUME NEW i \in 1..m, NEW x \in Q, K(i) # 0
               PROVE  SubSeq(s, i, K(i) - 1) \o to \o x \in Q
    OBVIOUS
  <2>1. K(i) - 1 \in 0..n
    BY <1>1, <1>2
  <2>2. SubSeq(s, i, K(i) - 1) \in Q
    BY <1>4, <2>1
  <2> QED BY <2>2, ConcatProperties
<1> HIDE DEF n
<1>7. base \in [1..m -> Q] /\ f \in [1..m -> [Q -> Q]]
  <2>1. \A i \in 1..m : SubSeq(s, i, n) \in Q
    BY <1>5
  <2>2. ASSUME NEW i \in 1..m, NEW x \in Q
        PROVE  (IF K(i) = 0 THEN x ELSE SubSeq(s, i, K(i) - 1) \o to \o x) \in Q
    BY <1>6
  <2> HIDE DEF Q
  <2> QED BY <2>1, <2>2
<1>8. next \in [1..m -> 0..m] /\ \A i \in 1..m : next[i] # 0 => next[i] > i
  BY <1>1, <1>3
<1>9. \E g : Unwinds(g, m, Q, base, next, f)
  <2> HIDE DEF base, next, f, m, Q
  <2> QED BY <1>1, <1>7, <1>8, LoopBack
<1>10. PICK g \in [1..m -> Q] : \A i \in 1..m : g[i] = IF next[i] = 0 THEN base[i] ELSE f[i][g[next[i]]]
  BY <1>9 DEF Unwinds
<1>11. IsCopy(g, s, p, to)
  <2>1. ASSUME NEW i \in 1..m PROVE g[i] = CopyBody(g, s, p, to, i)
    <3>1. CASE K(i) = 0
      BY <1>10, <3>1 DEF CopyBody, K, n
    <3>2. CASE K(i) # 0
      <4>1. next[i] = K(i) + Len(p) /\ next[i] # 0 /\ g[next[i]] \in Q
        BY <1>3, <1>10, <3>2
      <4>2. g[i] = f[i][g[next[i]]]
        <5> HIDE DEF next, f, base
        <5> QED BY <1>10, <4>1
      <4>3. f[i][g[next[i]]] = SubSeq(s, i, K(i) - 1) \o to \o g[next[i]]
        <5> HIDE DEF next, Q
        <5> QED BY <3>2, <4>1
      <4>4. g[i] = SubSeq(s, i, K(i) - 1) \o to \o g[K(i) + Len(p)]
        <5> HIDE DEF next, f, Q
        <5> QED BY <4>1, <4>2, <4>3
      <4> HIDE DEF next, f, Q, base
      <4> QED BY <3>2, <4>4 DEF CopyBody, K
    <3> QED BY <3>1, <3>2
  <2>2. g = [i \in 1..m |-> g[i]]
    OBVIOUS
  <2>3. g = [i \in 1..m |-> CopyBody(g, s, p, to, i)]
    BY <2>1, <2>2
  <2> QED BY <2>3 DEF IsCopy, n
<1>12. IsCopy(h, s, p, to)
  BY <1>11
<1>13. replace(s, p, to) = h[1]
  BY DEF replace, IsCopy, CopyBody
<1> HIDE DEF h
<1>14. \A i \in 1..m : h[i] = CopyBody(h, s, p, to, i)
  BY <1>12 DEF IsCopy, n
<1> DEFINE P == {i \in 1..m : h[i] \in Q}
<1>15. ASSUME NEW i \in 1..m, \A j \in (i + 1)..m : j \in P PROVE i \in P
  <2>1. K(i) # 0 => K(i) + Len(p) \in (i + 1)..m
    BY <1>1, <1>3
  <2>2. K(i) # 0 => h[K(i) + Len(p)] \in Q
    BY <1>15, <2>1
  <2>3. K(i) # 0 => SubSeq(s, i, K(i) - 1) \o to \o h[K(i) + Len(p)] \in Q
    BY <1>6, <2>2
  <2>4. SubSeq(s, i, n) \in Q
    BY <1>5
  <2> HIDE DEF Q
  <2>5. CopyBody(h, s, p, to, i) \in Q
    BY <2>3, <2>4 DEF CopyBody, K, n
  <2> QED BY <1>14, <2>5
<1>16. \A i \in 1..m : i \in P
  <2>1. P \in SUBSET (1..m)
    OBVIOUS
  <2> HIDE DEF P, m
  <2> QED BY <1>1, <1>15, <2>1, FromEnd
<1>17. h \in [1..m -> Q]
  <2>1. h = [i \in 1..m |-> h[i]]
    BY <1>12 DEF IsCopy, n
  <2> QED BY <1>16, <2>1
<1>18. Copying(h, S, s, p, to)
  BY <1>14, <1>17 DEF Copying, n
<1> QED BY <1>13, <1>18

-----------------------------------------------------------------------------
(* The rows of the tokenizer's table                                       *)

Signs == {"\"", ",", ";", ":", "?", "!", ".", "[", "]", "(", ")", "<", ">", "-", "'",
          "s", "n", "t", "c", "a", "o", "V", "v", " "}

(* What is replaced is not empty.                                          *)
RowOf(p, to, S) == p \in Seq(S) /\ Len(p) # 0 /\ to \in Seq(S)

(* The characters that every row has around it.                            *)
Spacing(S) == " " \in S /\ "." \in S

(* Short tuples are sequences.                                             *)
LEMMA Tuples ==
  ASSUME NEW S, NEW a \in S, NEW b \in S, NEW c \in S, NEW d \in S
  PROVE  /\ <<a>> \in Seq(S) /\ Len(<<a>>) = 1
         /\ <<a, b>> \in Seq(S) /\ Len(<<a, b>>) = 2
         /\ <<a, b, c>> \in Seq(S) /\ Len(<<a, b, c>>) = 3
         /\ <<a, b, c, d>> \in Seq(S) /\ Len(<<a, b, c, d>>) = 4
<1>1. <<a>> \in Seq(S)
  OBVIOUS
<1>2. <<a, b>> \in Seq(S)
  OBVIOUS
<1>3. <<a, b, c>> \in Seq(S)
  OBVIOUS
<1>4. <<a, b, c, d>> \in Seq(S)
  OBVIOUS
<1>5. Len(<<a>>) = 1 /\ Len(<<a, b>>) = 2
  OBVIOUS
<1>6. Len(<<a, b, c>>) = 3 /\ Len(<<a, b, c, d>>) = 4
  OBVIOUS
<1> QED BY <1>1, <1>2, <1>3, <1>4, <1>5, <1>6

(* A row is the pair of what is replaced and what replaces it.             *)
LEMMA RowOfPair ==
  ASSUME NEW S, NEW x, NEW y, RowOf(x, y, S)
  PROVE  RowOf(<<x, y>>[1], <<x, y>>[2], S)
<1>1. <<x, y>>[1] = x /\ <<x, y>>[2] = y
  OBVIOUS
<1> QED BY <1>1

RowIn(row, S) == RowOf(row[1], row[2], S)

(* The shapes of the table make rows.                                      *)
LEMMA RowShapes ==
  ASSUME NEW S, Spacing(S)
  PROVE  /\ \A c \in S : RowIn(Spaced(c), S) /\ RowIn(Ending(c), S)
         /\ \A s \in Seq(S) : Len(s) # 0 => RowIn(Clitic(s), S)
         /\ \A s, t \in Seq(S) : RowIn(Contraction(s, t), S)
         /\ \A s \in Seq(S) : RowIn(Abbreviation(s), S)
<1> DEFINE b == " "
           d == "."
<1>1. b \in S /\ d \in S
  BY DEF Spacing
<1> HIDE DEF b, d
<1>2. ASSUME NEW c \in S PROVE RowIn(Spaced(c), S) /\ RowIn(Ending(c), S)
  <2> DEFINE x == <<c>>
             y == <<c, b>>
             z == <<b, c, b>>
  <2>1. Spaced(c) = <<x, z>> /\ Ending(c) = <<y, z>>
    BY DEF Spaced, Ending, b
  <2>2. x \in Seq(S) /\ y \in Seq(S) /\ z \in Seq(S) /\ Len(x) = 1 /\ Len(y) = 2
    BY <1>1, Tuples
  <2> HIDE DEF x, y, z
  <2>3. RowOf(x, z, S) /\ RowOf(y, z, S)
    BY <2>2 DEF RowOf
  <2> QED BY <2>1, <2>3, RowOfPair DEF RowIn
<1>3. ASSUME NEW s \in Seq(S), Len(s) # 0 PROVE RowIn(Clitic(s), S)
  <2> DEFINE z == <<b>> \o s
  <2>1. Clitic(s) = <<s, z>>
    BY DEF Clitic, b
  <2>2. z \in Seq(S)
    BY <1>1, Tuples, ConcatProperties
  <2> HIDE DEF z
  <2>3. RowOf(s, z, S)
    BY <1>3, <2>2 DEF RowOf
  <2> QED BY <2>1, <2>3, RowOfPair DEF RowIn
<1>4. ASSUME NEW s \in Seq(S), NEW t \in Seq(S) PROVE RowIn(Contraction(s, t), S)
  <2> DEFINE Bl == <<b>>
             x == Bl \o s \o t \o Bl
             z == Bl \o s \o Bl \o t \o Bl
  <2>1. Contraction(s, t) = <<x, z>>
    BY DEF Contraction, b
  <2>2. Bl \in Seq(S) /\ Len(Bl) = 1
    BY <1>1, Tuples
  <2> HIDE DEF Bl
  <2>3. Bl \o s \in Seq(S)
    BY <2>2, ConcatProperties
  <2>4. Bl \o s \o t \in Seq(S) /\ Bl \o s \o Bl \in Seq(S)
    BY <2>2, <2>3, ConcatProperties
  <2>5. Bl \o s \o Bl \o t \in Seq(S)
    BY <2>4, ConcatProperties
  <2>6. z \in Seq(S) /\ x \in Seq(S)
    BY <2>2, <2>4, <2>5, ConcatProperties
  <2>7. Len(x) = Len(Bl \o s \o t) + 1 /\ Len(Bl \o s \o t) \in Nat
    <3> DEFINE y == Bl \o s \o t
    <3>1. y \in Seq(S)
      BY <2>4
    <3> HIDE DEF y
    <3>2. Len(y \o Bl) = Len(y) + 1 /\ Len(y) \in Nat
      <4>1. Len(y \o Bl) = Len(y) + Len(Bl)
        BY <2>2, <3>1, ConcatProperties
      <4> QED BY <2>2, <3>1, <4>1, LenProperties
    <3> QED BY <3>2 DEF y
  <2> HIDE DEF x, z
  <2>8. RowOf(x, z, S)
    BY <2>6, <2>7 DEF RowOf
  <2> QED BY <2>1, <2>8, RowOfPair DEF RowIn
<1>5. ASSUME NEW s \in Seq(S) PROVE RowIn(Abbreviation(s), S)
  <2> DEFINE x == s \o <<b, d>>
             z == s \o <<d>>
  <2>1. Abbreviation(s) = <<x, z>>
    BY DEF Abbreviation, b, d
  <2>2. <<b, d>> \in Seq(S) /\ <<d>> \in Seq(S) /\ Len(<<b, d>>) = 2
    BY <1>1, Tuples
  <2>3. x \in Seq(S) /\ z \in Seq(S) /\ Len(x) = Len(s) + 2 /\ Len(s) \in Nat
    BY <2>2, ConcatProperties, LenProperties
  <2> HIDE DEF x, z
  <2>4. RowOf(x, z, S)
    BY <2>3 DEF RowOf
  <2> QED BY <2>1, <2>4, RowOfPair DEF RowIn
<1> QED BY <1>2, <1>3, <1>4, <1>5

Rows == 21

Separators == {"\"", ",", ";", ":", "[", "]", "<", ">"}

Others == {"?", "!", ".", "(", ")", "-", "'", "s", "n", "t", "c", "a", "o", "V", "v", " "}

RowOfSign == [c \in Separators |->
  IF c = "\"" THEN 1 ELSE IF c = "," THEN 2 ELSE IF c = ";" THEN 3 ELSE IF c = ":" THEN 4
  ELSE IF c = "[" THEN 8 ELSE IF c = "]" THEN 9 ELSE IF c = "<" THEN 13 ELSE 14]

SeparatorRows == {1, 2, 3, 4, 8, 9, 13, 14}

(* Each separator has its own row.                                         *)
LEMMA SignsOfRows ==
  /\ \A c \in Separators : RowOfSign[c] \in SeparatorRows /\ token_list[RowOfSign[c]] = Spaced(c)
  /\ \A r \in SeparatorRows : \E c \in Separators : RowOfSign[c] = r
<1>1. /\ token_list[1] = Spaced("\"") /\ token_list[2] = Spaced(",") /\ token_list[3] = Spaced(";")
      /\ token_list[4] = Spaced(":") /\ token_list[8] = Spaced("[") /\ token_list[9] = Spaced("]")
      /\ token_list[13] = Spaced("<") /\ token_list[14] = Spaced(">")
  BY DEF token_list
<1>2. /\ RowOfSign["\""] = 1 /\ RowOfSign[","] = 2 /\ RowOfSign[";"] = 3 /\ RowOfSign[":"] = 4
      /\ RowOfSign["["] = 8 /\ RowOfSign["]"] = 9 /\ RowOfSign["<"] = 13 /\ RowOfSign[">"] = 14
  BY DEF RowOfSign, Separators
<1>3. \A c \in Separators : RowOfSign[c] \in SeparatorRows /\ token_list[RowOfSign[c]] = Spaced(c)
  BY <1>1, <1>2 DEF Separators, SeparatorRows
<1>4. \A r \in SeparatorRows : \E c \in Separators : RowOfSign[c] = r
  BY <1>2 DEF Separators, SeparatorRows
<1> QED BY <1>3, <1>4

(* A row is a text of its own signs.                                       *)
LEMMA OtherRows ==
  ASSUME NEW S, Others \subseteq S
  PROVE  \A r \in 1..Rows : r \notin SeparatorRows => RowIn(token_list[r], S)
<1>1. " " \in S /\ "." \in S
  BY DEF Others
<1>2. Spacing(S)
  BY <1>1 DEF Spacing
<1>3. \A c \in {"?", "!", ".", ")"} : RowIn(Ending(c), S)
  BY <1>2, RowShapes DEF Others
<1> DEFINE R(r) == RowIn(token_list[r], S)
<1>4. R(5) /\ R(6) /\ R(7) /\ R(11)
  <2>1. /\ token_list[5] = Ending("?") /\ token_list[6] = Ending("!")
        /\ token_list[7] = Ending(".") /\ token_list[11] = Ending(")")
    BY DEF token_list
  <2> QED BY <1>3, <2>1
<1>5. R(10)
  <2> DEFINE x == <<" ", "(">>
             z == <<" ", "(", " ">>
  <2>1. token_list[10] = <<x, z>>
    BY DEF token_list
  <2>2. "(" \in S
    BY DEF Others
  <2>3. x \in Seq(S) /\ z \in Seq(S)
    BY <1>1, <2>2, Tuples
  <2>4. Len(x) # 0
    OBVIOUS
  <2> HIDE DEF x, z
  <2> QED BY <2>1, <2>3, <2>4, RowOfPair DEF RowIn, RowOf
<1>6. R(15)
  <2> DEFINE x == <<"-", "-">>
             z == <<" ", "-", "-", " ">>
  <2>1. token_list[15] = <<x, z>>
    BY DEF token_list
  <2>2. "-" \in S
    BY DEF Others
  <2>3. x \in Seq(S) /\ z \in Seq(S)
    BY <1>1, <2>2, Tuples
  <2>4. Len(x) # 0
    OBVIOUS
  <2> HIDE DEF x, z
  <2> QED BY <2>1, <2>3, <2>4, RowOfPair DEF RowIn, RowOf
<1>7. R(12) /\ R(16) /\ R(17)
  <2>1. /\ token_list[12] = Clitic(<<")", ".">>) /\ token_list[16] = Clitic(<<"'", "s", " ">>)
        /\ token_list[17] = Clitic(<<"n", "'", "t", " ">>)
    BY DEF token_list
  <2>2. {")", "'", "s", "n", "t"} \subseteq S
    BY DEF Others
  <2>3. <<")", ".">> \in Seq(S) /\ <<"'", "s", " ">> \in Seq(S) /\ <<"n", "'", "t", " ">> \in Seq(S)
    BY <1>1, <2>2, Tuples
  <2>4. Len(<<")", ".">>) # 0 /\ Len(<<"'", "s", " ">>) # 0 /\ Len(<<"n", "'", "t", " ">>) # 0
    OBVIOUS
  <2> QED BY <1>2, <2>1, <2>3, <2>4, RowShapes
<1>8. R(18)
  <2>1. token_list[18] = Contraction(<<"c", "a", "n">>, <<"n", "o", "t">>)
    BY DEF token_list
  <2>2. {"c", "a", "n", "o", "t"} \subseteq S
    BY DEF Others
  <2>3. <<"c", "a", "n">> \in Seq(S) /\ <<"n", "o", "t">> \in Seq(S)
    BY <2>2, Tuples
  <2> QED BY <1>2, <2>1, <2>3, RowShapes
<1>9. R(19)
  <2> DEFINE x == <<".", ".", " ", ".">>
             z == <<" ", ".", ".", ".">>
  <2>1. token_list[19] = <<x, z>>
    BY DEF token_list
  <2>2. x \in Seq(S) /\ z \in Seq(S)
    BY <1>1, Tuples
  <2>3. Len(x) # 0
    OBVIOUS
  <2> HIDE DEF x, z
  <2> QED BY <2>1, <2>2, <2>3, RowOfPair DEF RowIn, RowOf
<1>10. R(20) /\ R(21)
  <2>1. token_list[20] = Abbreviation(<<"V", "a">>) /\ token_list[21] = Abbreviation(<<"v">>)
    BY DEF token_list
  <2>2. "V" \in S /\ "a" \in S /\ "v" \in S
    BY DEF Others
  <2>3. <<"V", "a">> \in Seq(S) /\ <<"v">> \in Seq(S)
    BY <2>2, Tuples
  <2> QED BY <1>2, <2>1, <2>3, RowShapes
<1> HIDE DEF R
<1>11. ASSUME NEW r \in 1..Rows, r \notin SeparatorRows PROVE R(r)
  <2>1. r \in {5, 6, 7, 10, 11, 12} \/ r \in {15, 16, 17, 18, 19, 20, 21}
    BY <1>11 DEF Rows, SeparatorRows
  <2> QED BY <1>4, <1>5, <1>6, <1>7, <1>8, <1>9, <1>10, <2>1
<1> QED BY <1>11 DEF R

(* Every row of the table is a row.                                        *)
LEMMA TableRows ==
  ASSUME NEW S, Signs \subseteq S
  PROVE  DOMAIN token_list = 1..Rows /\ Len(token_list) = Rows /\ \A r \in 1..Rows : RowIn(token_list[r], S)
<1>1. DOMAIN token_list = 1..Rows /\ Len(token_list) = Rows
  BY DEF token_list, Rows
<1>2. Others \subseteq S /\ Separators \subseteq S /\ Spacing(S)
  BY DEF Signs, Others, Separators, Spacing
<1>3. \A r \in SeparatorRows : RowIn(token_list[r], S)
  BY <1>2, SignsOfRows, RowShapes
<1> QED BY <1>1, <1>2, <1>3, OtherRows

(* The row of a separator is the only one that has it.                     *)
LEMMA RowsApart ==
  ASSUME NEW c \in Separators
  PROVE  \A r \in 1..Rows : r # RowOfSign[c] => RowIn(token_list[r], Signs \ {c})
<1> DEFINE S == Signs \ {c}
<1>1. Others \subseteq S /\ Spacing(S)
  BY DEF Signs, Others, Separators, Spacing
<1>2. \A d \in Separators : d # c => d \in S
  BY DEF Signs, Separators
<1> HIDE DEF S
<1>3. ASSUME NEW r \in SeparatorRows, r # RowOfSign[c] PROVE RowIn(token_list[r], S)
  <2>1. PICK d \in Separators : RowOfSign[d] = r
    BY SignsOfRows
  <2>2. d \in S /\ token_list[r] = Spaced(d)
    BY <1>2, <1>3, <2>1, SignsOfRows
  <2> QED BY <1>1, <2>2, RowShapes
<1> QED BY <1>1, <1>3, OtherRows DEF S

(* The tokenizer adds no characters but those of its table.                *)
LEMMA TokenizerType ==
  ASSUME NEW S, Signs \subseteq S, NEW s \in Seq(S)
  PROVE  /\ Retokenized(s) \in [0..Rows -> Seq(S)] /\ Retokenized(s)[0] = s
         /\ \A r \in 1..Rows :
              Retokenized(s)[r] = replace(Retokenized(s)[r - 1], token_list[r][1], token_list[r][2])
<1> DEFINE L == Len(token_list)
           A == Retokenized(s)
           Q == Seq(S)
           Body(h, r) == IF r = 0 THEN s ELSE replace(h[r - 1], token_list[r][1], token_list[r][2])
           Is(h) == h = [r \in 0..L |-> Body(h, r)]
           h == CHOOSE h : Is(h)
           f == [r \in 1..Rows |-> [x \in Q |-> replace(x, token_list[r][1], token_list[r][2])]]
<1>1. L = Rows /\ \A r \in 1..Rows : RowIn(token_list[r], S)
  BY TableRows
<1>2. \A x \in Q, r \in 1..Rows : replace(x, token_list[r][1], token_list[r][2]) \in Q
  <2> SUFFICES ASSUME NEW x \in Q, NEW r \in 1..Rows
               PROVE  replace(x, token_list[r][1], token_list[r][2]) \in Q
    OBVIOUS
  <2> DEFINE p == token_list[r][1]
             to == token_list[r][2]
  <2>1. p \in Q /\ Len(p) # 0 /\ to \in Q
    BY <1>1 DEF RowIn, RowOf
  <2> HIDE DEF p, to
  <2>2. Len(p) \in Nat \ {0}
    BY <2>1, LenProperties
  <2>3. PICK copied : Copying(copied, S, x, p, to) /\ replace(x, p, to) = copied[1]
    BY <2>1, <2>2, Replaced
  <2>4. Len(x) + 1 \in Nat /\ 1 \in 1..(Len(x) + 1)
    BY LenProperties
  <2>5. copied[1] \in Q
    BY <2>3, <2>4 DEF Copying
  <2> QED BY <2>3, <2>5 DEF p, to
<1>3. f \in [1..Rows -> [Q -> Q]]
  <2> HIDE DEF Q
  <2> QED BY <1>2
<1>4. \A r \in 1..Rows : \A x \in Q : f[r][x] = replace(x, token_list[r][1], token_list[r][2])
  OBVIOUS
<1> HIDE DEF f, Q
<1>5. s \in Q /\ Rows \in Nat
  BY DEF Q, Rows
<1>6. PICK g : Passes(g, Rows, Q, s, f)
  <2> HIDE DEF Rows
  <2> QED BY <1>3, <1>5, Loop
<1>7. Is(g)
  <2>1. ASSUME NEW r \in 0..Rows PROVE g[r] = Body(g, r)
    <3>1. CASE r = 0
      BY <1>6, <3>1 DEF Passes
    <3>2. CASE r # 0
      <4>1. r \in 1..Rows /\ r - 1 \in 0..Rows
        BY <1>5, <3>2
      <4>2. g[r] = f[r][g[r - 1]] /\ g[r - 1] \in Q
        BY <1>6, <4>1 DEF Passes
      <4> QED BY <1>4, <3>2, <4>1, <4>2
    <3> QED BY <3>1, <3>2
  <2>2. g = [r \in 0..Rows |-> g[r]]
    BY <1>6 DEF Passes
  <2>3. g = [r \in 0..Rows |-> Body(g, r)]
    <3> HIDE DEF Body
    <3> QED BY <2>1, <2>2
  <2> HIDE DEF L
  <2> QED BY <1>1, <2>3
<1>8. Is(h)
  <2> HIDE DEF Is
  <2> QED BY <1>7
<1>9. A = h
  BY DEF Retokenized
<1> HIDE DEF h, A
<1>10. h[0] = s /\ \A r \in 1..Rows : h[r] = replace(h[r - 1], token_list[r][1], token_list[r][2])
  <2>1. 0 \in 0..Rows /\ \A r \in 1..Rows : r \in 0..Rows /\ r # 0
    BY <1>5
  <2>2. h = [r \in 0..Rows |-> Body(h, r)]
    <3> HIDE DEF L, Body
    <3> QED BY <1>1, <1>8
  <2>3. \A r \in 0..Rows : h[r] = Body(h, r)
    <3> HIDE DEF Body
    <3> QED BY <2>2
  <2> HIDE DEF Rows
  <2> QED BY <2>1, <2>3
<1> DEFINE P == {r \in 0..Rows : h[r] \in Q}
<1>11. \A r \in 0..Rows : r \in P
  <2>1. 0 \in P
    BY <1>5, <1>10
  <2>2. ASSUME NEW r \in 1..Rows, r - 1 \in P PROVE r \in P
    <3>1. h[r] \in Q
      BY <1>2, <1>10, <2>2
    <3> HIDE DEF Rows
    <3> QED BY <1>5, <3>1
  <2>3. P \in SUBSET (0..Rows)
    OBVIOUS
  <2> HIDE DEF P, Rows
  <2> QED BY <1>5, <2>1, <2>2, <2>3, AlongLoop
<1>12. h \in [0..Rows -> Q]
  <2>1. h = [r \in 0..Rows |-> h[r]]
    <3> HIDE DEF L, Body
    <3> QED BY <1>1, <1>8
  <2> HIDE DEF Rows, Is
  <2> QED BY <1>11, <2>1
<1> QED BY <1>9, <1>10, <1>12 DEF A, Q

(* The table adds no tab to a text without one.                            *)
LEMMA TabsStay ==
  ASSUME NEW s, NEW T, s \in Seq(T), "\t" \notin ToSet(s)
  PROVE  \A i \in 1..Len(Tokenizer(s)) : Tokenizer(s)[i] # "\t"
<1> DEFINE S == ToSet(s) \union Signs
<1>1. "\t" \notin S
  BY DEF Signs
<1>2. s \in Seq(S)
  BY DEF ToSet
<1>3. Signs \subseteq S
  OBVIOUS
<1> HIDE DEF S
<1>4. Retokenized(s) \in [0..Rows -> Seq(S)] /\ Len(token_list) = Rows
  BY <1>2, <1>3, TokenizerType, TableRows
<1>5. Tokenizer(s) \in Seq(S)
  BY <1>4 DEF Tokenizer, Rows
<1> QED BY <1>1, <1>5, ElementOfSeq

(* The words of a text fit into the room that its blanks have made for      *)
(* them: SplitFits.                                                         *)
THEOREM SplitsHold == TextSpec => []SplitFits
<1>1. IsText => SplitFits
  <2> SUFFICES ASSUME IsText PROVE SplitFits
    OBVIOUS
  <2> DEFINE S == Alphabet \union Signs
             s == Tokenizer(text)
  <2>1. text \in Seq(Alphabet) /\ text \in Seq(S)
    BY DEF IsText
  <2>2. s \in Seq(S)
    <3>1. Signs \subseteq S
      OBVIOUS
    <3> HIDE DEF S
    <3>2. Retokenized(text) \in [0..Rows -> Seq(S)] /\ Len(token_list) = Rows
      BY <2>1, <3>1, TokenizerType, TableRows
    <3> QED BY <3>2 DEF Tokenizer, Rows
  <2>3. "\t" \notin ToSet(text) => \A i \in 1..Len(s) : s[i] # "\t"
    BY <2>1, TabsStay
  <2> HIDE DEF S, s
  <2>4. Len(Tokens(s, Blank)) = Cardinality(Starts(s, Blank, Len(s))) /\ Tokens(s, Blank) \in Tokened(S)
    BY <2>2, TokensCounted
  <2>5. Words = Tokens(s, Blank)
    BY DEF Words, perl_split, s
  <2>6. Words # <<>> => Starts(s, Blank, Len(s)) # {}
    <3> SUFFICES ASSUME Starts(s, Blank, Len(s)) = {} PROVE Words = <<>>
      OBVIOUS
    <3>1. Len(Words) = 0
      BY <2>4, <2>5, FS_EmptySet
    <3> QED BY <2>4, <2>5, <3>1, EmptySeq DEF Tokened
  <2>7. Words # <<>> => num_words(s) + 1 = Len(Words)
    BY <2>2, <2>4, <2>5, <2>6, WordsBehind
  <2>8. "\t" \notin ToSet(text) => Len(Words) + 1 <= SplitSlots(s)
    BY <2>2, <2>3, <2>4, <2>5, SlotsSuffice
  <2> QED BY <2>7, <2>8 DEF SplitFits, s
<1> QED BY <1>1, TextTyped, PTL

-----------------------------------------------------------------------------
(* What the tokenizer does to a text                                       *)

(* The counting pass, from each place on.                                  *)
CountsFrom(h, s, p, i) == IF strstr(s, p, i) = 0 THEN 0 ELSE 1 + h[strstr(s, p, i) + Len(p)]

IsCounting(h, s, p) == h = [i \in 1..(Len(s) + 1) |-> CountsFrom(h, s, p, i)]

(* The first pass is well defined, from each place on.                     *)
LEMMA PassCounted ==
  ASSUME NEW S, NEW s \in Seq(S), NEW p, Len(p) \in Nat \ {0}
  PROVE  \E h \in [1..(Len(s) + 1) -> Nat] :
           (\A i \in 1..(Len(s) + 1) : h[i] = CountsFrom(h, s, p, i)) /\ Occurrences(s, p) = h[1]
<1> DEFINE n == Len(s)
           m == n + 1
           K(i) == strstr(s, p, i)
           h == CHOOSE h : IsCounting(h, s, p)
           base == [i \in 1..m |-> 0]
           next == [i \in 1..m |-> IF K(i) = 0 THEN 0 ELSE K(i) + Len(p)]
           f == [i \in 1..m |-> [x \in Nat |-> 1 + x]]
<1>1. n \in Nat /\ m \in Nat
  BY LenProperties
<1>2. \A i \in 1..m : K(i) # 0 => K(i) \in i..(n - Len(p) + 1)
  <2> HIDE DEF strstr
  <2> QED BY <1>1, FirstPlace
<1> HIDE DEF K
<1>3. \A i \in 1..m : K(i) # 0 => K(i) + Len(p) \in 1..m /\ K(i) + Len(p) # 0 /\ K(i) + Len(p) > i
  BY <1>1, <1>2
<1> HIDE DEF n
<1>4. base \in [1..m -> Nat] /\ f \in [1..m -> [Nat -> Nat]]
  OBVIOUS
<1>5. next \in [1..m -> 0..m] /\ \A i \in 1..m : next[i] # 0 => next[i] > i
  BY <1>1, <1>3
<1>6. \E g : Unwinds(g, m, Nat, base, next, f)
  <2> HIDE DEF base, next, f, m
  <2> QED BY <1>1, <1>4, <1>5, LoopBack
<1>7. PICK g \in [1..m -> Nat] : \A i \in 1..m : g[i] = IF next[i] = 0 THEN base[i] ELSE f[i][g[next[i]]]
  BY <1>6 DEF Unwinds
<1>8. IsCounting(g, s, p)
  <2>1. ASSUME NEW i \in 1..m PROVE g[i] = CountsFrom(g, s, p, i)
    <3>1. CASE K(i) = 0
      BY <1>7, <3>1 DEF CountsFrom, K, n
    <3>2. CASE K(i) # 0
      <4>1. next[i] = K(i) + Len(p) /\ next[i] # 0 /\ g[next[i]] \in Nat
        BY <1>3, <1>7, <3>2
      <4>2. g[i] = 1 + g[K(i) + Len(p)]
        BY <1>7, <4>1
      <4> QED BY <3>2, <4>2 DEF CountsFrom, K
    <3> QED BY <3>1, <3>2
  <2>2. g = [i \in 1..m |-> g[i]]
    OBVIOUS
  <2>3. g = [i \in 1..m |-> CountsFrom(g, s, p, i)]
    BY <2>1, <2>2
  <2> QED BY <2>3 DEF IsCounting, n
<1>9. IsCounting(h, s, p)
  BY <1>8
<1>10. Occurrences(s, p) = h[1]
  BY DEF Occurrences, IsCounting, CountsFrom
<1> HIDE DEF h
<1>11. \A i \in 1..m : h[i] = CountsFrom(h, s, p, i)
  BY <1>9 DEF IsCounting, n
<1> DEFINE P == {i \in 1..m : h[i] \in Nat}
<1>12. ASSUME NEW i \in 1..m, \A j \in (i + 1)..m : j \in P PROVE i \in P
  <2>1. K(i) # 0 => K(i) + Len(p) \in (i + 1)..m
    BY <1>1, <1>3
  <2>2. K(i) # 0 => h[K(i) + Len(p)] \in Nat
    BY <1>12, <2>1
  <2> QED BY <1>11, <2>2 DEF CountsFrom, K
<1>13. \A i \in 1..m : i \in P
  <2>1. P \in SUBSET (1..m)
    OBVIOUS
  <2> HIDE DEF P, m
  <2> QED BY <1>1, <1>12, <2>1, FromEnd
<1>14. h \in [1..m -> Nat]
  <2>1. h = [i \in 1..m |-> h[i]]
    BY <1>9 DEF IsCounting, n
  <2> QED BY <1>13, <2>1
<1> QED BY <1>10, <1>11, <1>14 DEF n

(* The second pass writes as much as the first has made room for.          *)
LEMMA RoomForRow ==
  ASSUME NEW S, NEW s \in Seq(S), NEW p, Len(p) \in Nat \ {0}, NEW to \in Seq(S)
  PROVE  Len(replace(s, p, to)) + 1 = Allocated(s, p, to)
<1> DEFINE n == Len(s)
           m == n + 1
           d == Len(to) - Len(p)
           K(i) == strstr(s, p, i)
<1>1. n \in Nat /\ m \in Nat /\ Len(to) \in Nat /\ d \in Int
  BY LenProperties
<1>2. \A i \in 1..m : K(i) # 0 => K(i) \in i..(n - Len(p) + 1)
  <2> HIDE DEF strstr
  <2> QED BY <1>1, FirstPlace
<1>3. PICK copied : Copying(copied, S, s, p, to) /\ replace(s, p, to) = copied[1]
  BY Replaced
<1>4. PICK h \in [1..m -> Nat] : (\A i \in 1..m : h[i] = CountsFrom(h, s, p, i)) /\ Occurrences(s, p) = h[1]
  BY PassCounted
<1>5. /\ copied \in [1..m -> Seq(S)]
      /\ \A i \in 1..m : copied[i] = CopyBody(copied, s, p, to, i)
  BY <1>3 DEF Copying
<1> HIDE DEF K, d
<1> DEFINE P == {i \in 1..m : Len(copied[i]) = n - i + 1 + h[i] * d}
<1>6. ASSUME NEW i \in 1..m, \A j \in (i + 1)..m : j \in P PROVE i \in P
  <2>1. CASE K(i) = 0
    <3>1. copied[i] = SubSeq(s, i, n) /\ h[i] = 0
      BY <1>4, <1>5, <2>1 DEF CopyBody, CountsFrom, K
    <3>2. Len(SubSeq(s, i, n)) = n - i + 1
      BY <1>1, SubSeqProperties
    <3>3. 0 * d = 0
      BY <1>1
    <3>4. Len(copied[i]) = n - i + 1 + h[i] * d
      <4> HIDE DEF n
      <4> QED BY <1>1, <3>1, <3>2, <3>3
    <3> QED BY <3>4
  <2>2. CASE K(i) # 0
    <3> DEFINE k == K(i)
               j == k + Len(p)
               x == SubSeq(s, i, k - 1)
               y == copied[j]
    <3>1. k \in i..(n - Len(p) + 1) /\ j \in (i + 1)..m /\ j \in 1..m
      BY <1>1, <1>2, <2>2
    <3>2. copied[i] = x \o to \o y /\ h[i] = 1 + h[j]
      BY <1>4, <1>5, <2>2 DEF CopyBody, CountsFrom, K
    <3>3. x \in Seq(S) /\ Len(x) = k - i
      BY <1>1, <3>1, SubSeqProperties
    <3>4. y \in Seq(S) /\ h[j] \in Nat /\ Len(y) = n - j + 1 + h[j] * d
      BY <1>4, <1>5, <1>6, <3>1
    <3> HIDE DEF x, y, P, n
    <3>5. Len(x \o to \o y) = Len(x) + Len(to) + Len(y)
      <4>1. x \o to \in Seq(S) /\ Len(x \o to) = Len(x) + Len(to)
        BY <3>3, ConcatProperties
      <4> DEFINE z == x \o to
      <4>2. z \in Seq(S) /\ Len(z) = Len(x) + Len(to)
        BY <4>1
      <4> HIDE DEF z
      <4>3. Len(z \o y) = Len(z) + Len(y)
        BY <3>4, <4>2, ConcatProperties
      <4> QED BY <4>2, <4>3 DEF z
    <3> HIDE DEF k, j
    <3>6. (1 + h[j]) * d = d + h[j] * d /\ h[j] * d \in Int
      BY <1>1, <3>4, SMTT(30)
    <3>7. Len(copied[i]) = n - i + 1 + h[i] * d
      <4> DEFINE e == h[j] * d
      <4>1. e \in Int /\ h[i] * d = d + e /\ Len(y) = n - j + 1 + e
        BY <3>2, <3>4, <3>6
      <4>2. k \in Int /\ j = k + Len(p) /\ d = Len(to) - Len(p) /\ n \in Nat
        BY <1>1, <3>1 DEF j, d, k
      <4> HIDE DEF e
      <4> QED BY <1>1, <3>2, <3>3, <3>5, <4>1, <4>2
    <3> QED BY <3>7 DEF P
  <2> QED BY <2>1, <2>2
<1>7. \A i \in 1..m : i \in P
  <2>1. P \in SUBSET (1..m)
    OBVIOUS
  <2> HIDE DEF P, m
  <2> QED BY <1>1, <1>6, <2>1, FromEnd
<1>8. Len(copied[1]) = n + h[1] * d /\ h[1] * d \in Int
  <2>1. 1 \in 1..m /\ h[1] \in Nat
    BY <1>1, <1>4
  <2>2. h[1] * d \in Int
    BY <1>1, <2>1
  <2> QED BY <1>1, <1>7, <2>1, <2>2
<1> QED BY <1>1, <1>3, <1>4, <1>8 DEF Allocated, d

(* A text without its spaces.                                              *)
KeptStep(h, s, k) ==
  IF k = 0 THEN <<>> ELSE IF s[k] = " " THEN h[k - 1] ELSE Append(h[k - 1], s[k])

IsKept(h, s) == h = [k \in 0..Len(s) |-> KeptStep(h, s, k)]

Unspaced(s) ==
  LET kept[k \in 0..Len(s)] ==
        IF k = 0 THEN <<>> ELSE IF s[k] = " " THEN kept[k - 1] ELSE Append(kept[k - 1], s[k])
  IN  kept[Len(s)]

Keeping(h, S, s) ==
  /\ h \in [0..Len(s) -> Seq(S)] /\ h[0] = <<>>
  /\ \A k \in 1..Len(s) : h[k] = IF s[k] = " " THEN h[k - 1] ELSE Append(h[k - 1], s[k])

(* What is left without spaces is well defined, up to each place.          *)
LEMMA WordsKept ==
  ASSUME NEW S, NEW s \in Seq(S)
  PROVE  \E h : Keeping(h, S, s) /\ Unspaced(s) = h[Len(s)]
<1> DEFINE n == Len(s)
           Q == Seq(S)
           h == CHOOSE h : IsKept(h, s)
           f == [k \in 1..n |-> [x \in Q |-> IF s[k] = " " THEN x ELSE Append(x, s[k])]]
<1>1. n \in Nat /\ <<>> \in Q /\ \A k \in 1..n : s[k] \in S
  BY LenProperties, EmptySeq, ElementOfSeq
<1>2. \A k \in 1..n : \A x \in Q : Append(x, s[k]) \in Q
  BY <1>1, AppendProperties
<1>3. f \in [1..n -> [Q -> Q]]
  <2> HIDE DEF Q, n
  <2> QED BY <1>2
<1>4. \A k \in 1..n : \A x \in Q : f[k][x] = IF s[k] = " " THEN x ELSE Append(x, s[k])
  OBVIOUS
<1> HIDE DEF n, f, Q
<1>5. PICK g : Passes(g, n, Q, <<>>, f)
  BY <1>1, <1>3, Loop
<1>6. IsKept(g, s)
  <2>1. ASSUME NEW k \in 0..n PROVE g[k] = KeptStep(g, s, k)
    <3>1. CASE k = 0
      BY <1>5, <3>1 DEF Passes, KeptStep
    <3>2. CASE k # 0
      <4>1. k \in 1..n /\ k - 1 \in 0..n
        BY <1>1, <3>2
      <4>2. g[k] = f[k][g[k - 1]] /\ g[k - 1] \in Q
        BY <1>5, <4>1 DEF Passes
      <4> QED BY <1>4, <3>2, <4>1, <4>2 DEF KeptStep
    <3> QED BY <3>1, <3>2
  <2>2. g = [k \in 0..n |-> g[k]]
    BY <1>5 DEF Passes
  <2>3. g = [k \in 0..n |-> KeptStep(g, s, k)]
    BY <2>1, <2>2
  <2> QED BY <2>3 DEF IsKept, n
<1>7. IsKept(h, s)
  BY <1>6
<1>8. Unspaced(s) = h[n]
  BY DEF Unspaced, IsKept, KeptStep, n
<1> HIDE DEF h
<1>9. h[0] = <<>> /\ \A k \in 1..n : h[k] = IF s[k] = " " THEN h[k - 1] ELSE Append(h[k - 1], s[k])
  <2>1. 0 \in 0..n /\ \A k \in 1..n : k \in 0..n /\ k # 0
    BY <1>1
  <2>2. \A k \in 0..n : h[k] = KeptStep(h, s, k)
    BY <1>7 DEF IsKept, n
  <2> QED BY <2>1, <2>2 DEF KeptStep
<1> DEFINE P == {k \in 0..n : h[k] \in Q}
<1>10. \A k \in 0..n : k \in P
  <2>1. 0 \in P
    <3>1. h[0] = <<>>
      BY <1>9
    <3>2. 0 \in 0..n
      BY <1>1
    <3> QED BY <1>1, <3>1, <3>2
  <2>2. ASSUME NEW k \in 1..n, k - 1 \in P PROVE k \in P
    <3>1. h[k] \in Q
      BY <1>2, <1>9, <2>2
    <3> QED BY <1>1, <3>1
  <2>3. P \in SUBSET (0..n)
    OBVIOUS
  <2> HIDE DEF P
  <2> QED BY <1>1, <2>1, <2>2, <2>3, AlongLoop
<1>11. h \in [0..n -> Q]
  <2>1. h = [k \in 0..n |-> h[k]]
    BY <1>7 DEF IsKept, n
  <2> QED BY <1>10, <2>1
<1> QED BY <1>8, <1>9, <1>11 DEF Keeping, n, Q

(* A text without its spaces is a text.                                    *)
LEMMA UnspacedType ==
  ASSUME NEW S, NEW s \in Seq(S)
  PROVE  Unspaced(s) \in Seq(S)
<1>1. PICK h : Keeping(h, S, s) /\ Unspaced(s) = h[Len(s)]
  BY WordsKept
<1>2. Len(s) \in 0..Len(s)
  BY LenProperties
<1> QED BY <1>1, <1>2 DEF Keeping

(* Appending to the second of two parts.                                   *)
Along(x, y, e) == Append(x \o y, e) = x \o Append(y, e)

(* Appending to the end of two texts appends to the second.                *)
LEMMA AppendAlong ==
  ASSUME NEW S, NEW x \in Seq(S), NEW y \in Seq(S), NEW e \in S
  PROVE  Along(x, y, e)
<1>1. Append(x \o y, e) = (x \o y) \o <<e>>
  BY ConcatProperties, AppendIsConcat
<1>2. Append(y, e) = y \o <<e>>
  BY AppendIsConcat
<1>3. <<e>> \in Seq(S)
  OBVIOUS
<1>4. (x \o y) \o <<e>> = x \o (y \o <<e>>)
  BY <1>3, ConcatAssociative
<1> QED BY <1>1, <1>2, <1>4 DEF Along

(* Spaces are taken out of each part.                                      *)
LEMMA UnspacedConcat ==
  ASSUME NEW S, NEW s \in Seq(S), NEW t \in Seq(S)
  PROVE  Unspaced(s \o t) = Unspaced(s) \o Unspaced(t)
<1> DEFINE n == Len(s)
           m == Len(t)
           u == s \o t
           Q == Seq(S)
<1>1. n \in Nat /\ m \in Nat /\ u \in Q /\ Len(u) = n + m
  BY LenProperties, ConcatProperties
<1>2. (\A k \in 1..n : u[k] = s[k]) /\ (\A k \in 1..m : u[n + k] = t[k])
  <2>1. \A k \in 1..(n + m) : u[k] = IF k <= n THEN s[k] ELSE t[k - n]
    BY ConcatProperties
  <2>2. \A k \in 1..n : k \in 1..(n + m) /\ k <= n
    BY <1>1
  <2>3. \A k \in 1..m : n + k \in 1..(n + m) /\ ~(n + k <= n) /\ (n + k) - n = k
    BY <1>1
  <2> HIDE DEF u, n, m
  <2> QED BY <2>1, <2>2, <2>3
<1> HIDE DEF u
<1>3. PICK a : Keeping(a, S, s) /\ Unspaced(s) = a[n]
  BY WordsKept
<1>4. PICK b : Keeping(b, S, t) /\ Unspaced(t) = b[m]
  BY WordsKept
<1>5. PICK c : Keeping(c, S, u) /\ Unspaced(u) = c[n + m]
  BY <1>1, WordsKept
<1>6. /\ a \in [0..n -> Q] /\ a[0] = <<>>
      /\ \A k \in 1..n : a[k] = IF s[k] = " " THEN a[k - 1] ELSE Append(a[k - 1], s[k])
  BY <1>3 DEF Keeping
<1>7. /\ b \in [0..m -> Q] /\ b[0] = <<>>
      /\ \A k \in 1..m : b[k] = IF t[k] = " " THEN b[k - 1] ELSE Append(b[k - 1], t[k])
  BY <1>4 DEF Keeping
<1>8. /\ c \in [0..(n + m) -> Q] /\ c[0] = <<>>
      /\ \A k \in 1..(n + m) : c[k] = IF u[k] = " " THEN c[k - 1] ELSE Append(c[k - 1], u[k])
  BY <1>1, <1>5 DEF Keeping
<1>9. a \in [0..n -> Q] /\ b \in [0..m -> Q] /\ a[0] = <<>> /\ b[0] = <<>> /\ c[0] = <<>>
  BY <1>6, <1>7, <1>8
<1>10. \A k \in 1..(n + m) :
         (u[k] = " " => c[k] = c[k - 1]) /\ (u[k] # " " => c[k] = Append(c[k - 1], u[k]))
  BY <1>8
<1>11. \A k \in 1..m : t[k] \in S
  BY ElementOfSeq
<1> HIDE DEF n, m
<1>12. c[n] = a[n]
  <2> DEFINE P == {k \in 0..n : c[k] = a[k]}
  <2>1. 0 \in P
    BY <1>1, <1>9
  <2>2. ASSUME NEW k \in 1..n, k - 1 \in P PROVE k \in P
    <3>1. k \in 1..(n + m) /\ k \in 0..n
      BY <1>1
    <3>2. c[k] = a[k]
      BY <1>2, <1>6, <1>8, <2>2, <3>1
    <3> QED BY <3>1, <3>2
  <2>3. P \in SUBSET (0..n)
    OBVIOUS
  <2>4. n \in 0..n
    BY <1>1
  <2>5. \A k \in 0..n : k \in P
    <3> HIDE DEF P
    <3> QED BY <1>1, <2>1, <2>2, <2>3, AlongLoop
  <2> QED BY <2>4, <2>5
<1>13. a[n] \in Q
  <2>1. n \in 0..n
    BY <1>1
  <2> QED BY <1>9, <2>1
<1>14. c[n + m] = a[n] \o b[m]
  <2> DEFINE P == {k \in 0..m : c[n + k] = a[n] \o b[k]}
             x == a[n]
  <2>1. 0 \in P
    <3>1. x \o <<>> = x
      BY <1>13, ConcatEmptySeq
    <3>2. n + 0 = n /\ 0 \in 0..m
      BY <1>1
    <3>3. c[n + 0] = x \o b[0]
      BY <1>12, <1>9, <3>1, <3>2
    <3> HIDE DEF x
    <3>4. c[n + 0] = x \o b[0] /\ 0 \in 0..m
      BY <3>2, <3>3
    <3> QED BY <3>4 DEF x
  <2>2. ASSUME NEW k \in 1..m, k - 1 \in P PROVE k \in P
    <3> DEFINE j == n + k
               e == t[k]
               y == b[k - 1]
    <3>1. j \in 1..(n + m) /\ k \in 0..m /\ k - 1 \in 0..m /\ j - 1 = n + (k - 1)
      BY <1>1
    <3>2. c[j - 1] = x \o y /\ y \in Q /\ x \in Q
      BY <1>13, <1>9, <2>2, <3>1
    <3>3. (u[j] = " " => c[j] = c[j - 1]) /\ (u[j] # " " => c[j] = Append(c[j - 1], u[j]))
      BY <1>10, <3>1
    <3>4. u[j] = e
      BY <1>2
    <3>5. e \in S /\ (e = " " => b[k] = y) /\ (e # " " => b[k] = Append(y, e))
      BY <1>7, <1>11
    <3> HIDE DEF x, y, e, j, P
    <3>6. Along(x, y, e)
      BY <3>2, <3>5, AppendAlong DEF Q
    <3>7. c[j] = x \o b[k]
      BY <3>2, <3>3, <3>4, <3>5, <3>6 DEF Along
    <3> QED BY <3>1, <3>7 DEF P, j, x
  <2>3. P \in SUBSET (0..m)
    OBVIOUS
  <2>4. m \in 0..m
    BY <1>1
  <2>5. \A k \in 0..m : k \in P
    <3> HIDE DEF P
    <3> QED BY <1>1, <2>1, <2>2, <2>3, AlongLoop
  <2> QED BY <2>4, <2>5
<1> QED BY <1>3, <1>4, <1>5, <1>14 DEF u

(* The same but for spaces.                                                *)
SameWords(s, t) == Unspaced(s) = Unspaced(t)

(* A space at either end of a text does not change its words.              *)
LEMMA SpaceIsNothing ==
  ASSUME NEW S, Spacing(S), NEW s \in Seq(S)
  PROVE  SameWords(<<" ">> \o s, s) /\ SameWords(s \o <<" ">>, s)
<1> DEFINE Bl == <<" ">>
           N == Len(Bl)
<1>1. Bl \in Seq(S)
  <2>1. " " \in S
    BY DEF Spacing
  <2> QED BY <2>1, Tuples
<1>2. PICK h : Keeping(h, S, Bl) /\ Unspaced(Bl) = h[Len(Bl)]
  BY <1>1, WordsKept
<1>3. Len(Bl) = 1 /\ Bl[1] = " "
  OBVIOUS
<1> HIDE DEF Bl
<1>4. h[0] = <<>> /\ h[1] = h[0]
  <2>1. 1 \in 1..Len(Bl) /\ 1 - 1 = 0
    <3>1. Len(Bl) = 1
      BY <1>3
    <3> QED BY <3>1
  <2>2. Bl[1] = " " => h[1] = h[1 - 1]
    BY <1>2, <2>1 DEF Keeping
  <2>3. h[0] = <<>>
    BY <1>2 DEF Keeping
  <2> QED BY <1>3, <2>1, <2>2, <2>3
<1>5. Unspaced(Bl) = <<>>
  BY <1>2, <1>3, <1>4
<1>6. Unspaced(s) \in Seq(S)
  BY UnspacedType
<1>7. Unspaced(Bl \o s) = Unspaced(Bl) \o Unspaced(s) /\ Unspaced(s \o Bl) = Unspaced(s) \o Unspaced(Bl)
  BY <1>1, UnspacedConcat
<1>8. <<>> \o Unspaced(s) = Unspaced(s) /\ Unspaced(s) \o <<>> = Unspaced(s)
  BY <1>6, ConcatEmptySeq
<1> QED BY <1>5, <1>7, <1>8 DEF SameWords, Bl

(* Texts whose parts differ by spaces differ by spaces.                    *)
LEMMA PartsAlike ==
  ASSUME NEW S, NEW s \in Seq(S), NEW t \in Seq(S), NEW u \in Seq(S), NEW v \in Seq(S),
         SameWords(s, u), SameWords(t, v)
  PROVE  SameWords(s \o t, u \o v)
<1>1. Unspaced(s \o t) = Unspaced(s) \o Unspaced(t)
  BY UnspacedConcat
<1>2. Unspaced(u \o v) = Unspaced(u) \o Unspaced(v)
  BY UnspacedConcat
<1> QED BY <1>1, <1>2 DEF SameWords

InParts(w, x, y) == w = x \o y

(* A tuple is made of its parts.                                           *)
LEMMA TwoParts ==
  ASSUME NEW a, NEW b
  PROVE  InParts(<<a, b>>, <<a>>, <<b>>)
<1>1. <<a, b>> = <<a>> \o <<b>>
  <2> DEFINE S == {a, b}
             x == <<a>>
             y == <<b>>
             z == <<a, b>>
             w == x \o y
  <2>1. x \in Seq(S) /\ y \in Seq(S) /\ z \in Seq(S) /\ Len(x) = 1 /\ Len(y) = 1 /\ Len(z) = 2
    BY Tuples
  <2>2. x[1] = a /\ y[1] = b /\ z[1] = a /\ z[2] = b
    OBVIOUS
  <2> HIDE DEF x, y, z, S
  <2>3. /\ w \in Seq(S) /\ Len(w) = 2
        /\ \A i \in 1..(Len(x) + Len(y)) : w[i] = IF i <= Len(x) THEN x[i] ELSE y[i - Len(x)]
    <3>1. Len(x \o y) = Len(x) + Len(y) /\ x \o y \in Seq(S)
      BY <2>1, ConcatProperties
    <3>2. \A i \in 1..(Len(x) + Len(y)) : (x \o y)[i] = IF i <= Len(x) THEN x[i] ELSE y[i - Len(x)]
      BY <2>1, ConcatProperties
    <3>3. Len(w) = 2
      BY <2>1, <3>1
    <3> QED BY <3>1, <3>2, <3>3
  <2>4. \A i \in 1..2 : w[i] = IF i <= 1 THEN x[i] ELSE y[i - 1]
    BY <2>1, <2>3
  <2> HIDE DEF w
  <2>5. \A i \in 1..2 : w[i] = z[i]
    <3> SUFFICES ASSUME NEW i \in 1..2 PROVE w[i] = z[i]
      OBVIOUS
    <3>1. i = 1 \/ i = 2
      OBVIOUS
    <3>2. 1 <= 1 /\ ~(2 <= 1) /\ 2 - 1 = 1
      OBVIOUS
    <3> QED BY <2>2, <2>4, <3>1, <3>2
  <2>6. w = z
    BY <2>1, <2>3, <2>5, SeqEqual
  <2> QED BY <2>6 DEF w, x, y, z
<1> QED BY <1>1 DEF InParts

(* The same of three, the last one apart.                                  *)
LEMMA ThreeParts ==
  ASSUME NEW a, NEW b, NEW c
  PROVE  InParts(<<a, b, c>>, <<a, b>>, <<c>>)
<1>1. <<a, b, c>> = <<a, b>> \o <<c>>
  OBVIOUS
<1> QED BY <1>1 DEF InParts

(* The same of three, the first one apart.                                 *)
LEMMA LastTwo ==
  ASSUME NEW a, NEW b, NEW c
  PROVE  InParts(<<a, b, c>>, <<a>>, <<b, c>>)
<1>1. <<a, b, c>> = <<a>> \o <<b, c>>
  OBVIOUS
<1> QED BY <1>1 DEF InParts

(* The same of four, the last one apart.                                   *)
LEMMA FourParts ==
  ASSUME NEW a, NEW b, NEW c, NEW d
  PROVE  InParts(<<a, b, c, d>>, <<a, b, c>>, <<d>>)
<1>1. <<a, b, c, d>> = <<a, b, c>> \o <<d>>
  <2> DEFINE S == {a, b, c, d}
             x == <<a, b, c>>
             y == <<d>>
             z == <<a, b, c, d>>
             w == x \o y
  <2>1. x \in Seq(S) /\ y \in Seq(S) /\ z \in Seq(S) /\ Len(x) = 3 /\ Len(y) = 1 /\ Len(z) = 4
    BY Tuples
  <2>2. x[1] = a /\ x[2] = b /\ x[3] = c /\ y[1] = d /\ z[1] = a /\ z[2] = b /\ z[3] = c /\ z[4] = d
    OBVIOUS
  <2> HIDE DEF x, y, z, S
  <2>3. /\ w \in Seq(S) /\ Len(w) = 4
        /\ \A i \in 1..(Len(x) + Len(y)) : w[i] = IF i <= Len(x) THEN x[i] ELSE y[i - Len(x)]
    <3>1. Len(x \o y) = Len(x) + Len(y) /\ x \o y \in Seq(S)
      BY <2>1, ConcatProperties
    <3>2. \A i \in 1..(Len(x) + Len(y)) : (x \o y)[i] = IF i <= Len(x) THEN x[i] ELSE y[i - Len(x)]
      BY <2>1, ConcatProperties
    <3>3. Len(w) = 4
      BY <2>1, <3>1
    <3> QED BY <3>1, <3>2, <3>3
  <2>4. \A i \in 1..4 : w[i] = IF i <= 3 THEN x[i] ELSE y[i - 3]
    BY <2>1, <2>3
  <2> HIDE DEF w
  <2>5. \A i \in 1..4 : w[i] = z[i]
    <3> SUFFICES ASSUME NEW i \in 1..4 PROVE w[i] = z[i]
      OBVIOUS
    <3>1. i = 1 \/ i = 2 \/ i = 3 \/ i = 4
      OBVIOUS
    <3>2. 1 <= 3 /\ 2 <= 3 /\ 3 <= 3 /\ ~(4 <= 3) /\ 4 - 3 = 1
      OBVIOUS
    <3> QED BY <2>2, <2>4, <3>1, <3>2
  <2>6. w = z
    BY <2>1, <2>3, <2>5, SeqEqual
  <2> QED BY <2>6 DEF w, x, y, z
<1> QED BY <1>1 DEF InParts

RowKeeps(row) == SameWords(row[1], row[2])

(* The shapes of the table change spaces only.                             *)
LEMMA ShapesKeep ==
  ASSUME NEW S, Spacing(S)
  PROVE  /\ \A c \in S : RowKeeps(Spaced(c)) /\ RowKeeps(Ending(c))
         /\ \A s \in Seq(S) : RowKeeps(Clitic(s)) /\ RowKeeps(Abbreviation(s))
         /\ \A s, t \in Seq(S) : RowKeeps(Contraction(s, t))
<1> DEFINE b == " "
           d == "."
           Bl == <<b>>
           D == <<d>>
<1>1. b \in S /\ d \in S
  BY DEF Spacing
<1>2. Bl \in Seq(S) /\ D \in Seq(S)
  BY <1>1, Tuples
<1>3. \A s \in Seq(S) : SameWords(Bl \o s, s) /\ SameWords(s \o Bl, s) /\ s \o Bl \in Seq(S) /\ Bl \o s \in Seq(S)
  <2> SUFFICES ASSUME NEW s \in Seq(S)
               PROVE  SameWords(Bl \o s, s) /\ SameWords(s \o Bl, s) /\ s \o Bl \in Seq(S) /\ Bl \o s \in Seq(S)
    OBVIOUS
  <2>1. s \o Bl \in Seq(S) /\ Bl \o s \in Seq(S)
    BY <1>2, ConcatProperties
  <2>2. SameWords(Bl \o s, s) /\ SameWords(s \o Bl, s)
    BY SpaceIsNothing
  <2> QED BY <2>1, <2>2
<1> HIDE DEF b, d
<1>4. ASSUME NEW c \in S PROVE RowKeeps(Spaced(c)) /\ RowKeeps(Ending(c))
  <2> DEFINE C == <<c>>
  <2>1. Spaced(c)[1] = C /\ Spaced(c)[2] = <<b, c, b>> /\ Ending(c)[1] = <<c, b>> /\ Ending(c)[2] = <<b, c, b>>
    BY DEF Spaced, Ending, b
  <2>2. InParts(<<c, b>>, C, Bl) /\ InParts(<<b, c, b>>, <<b, c>>, Bl) /\ InParts(<<b, c>>, Bl, C)
    BY TwoParts, ThreeParts
  <2>3. C \in Seq(S)
    BY Tuples
  <2> HIDE DEF Bl, C
  <2>4. Bl \o C \in Seq(S)
    BY <1>3, <2>3
  <2>5. SameWords(C \o Bl, C) /\ SameWords(Bl \o C, C) /\ SameWords((Bl \o C) \o Bl, Bl \o C)
    BY <1>3, <2>3, <2>4
  <2> QED BY <2>1, <2>2, <2>5 DEF RowKeeps, SameWords, InParts
<1>5. ASSUME NEW s \in Seq(S) PROVE RowKeeps(Clitic(s))
  <2>1. Clitic(s)[1] = s /\ Clitic(s)[2] = Bl \o s
    BY DEF Clitic, b
  <2> HIDE DEF Bl
  <2> QED BY <1>3, <2>1 DEF RowKeeps, SameWords
<1>6. ASSUME NEW s \in Seq(S) PROVE RowKeeps(Abbreviation(s))
  <2>1. Abbreviation(s)[1] = s \o <<b, d>> /\ Abbreviation(s)[2] = s \o D
    BY DEF Abbreviation, b, d
  <2>2. InParts(<<b, d>>, Bl, D)
    BY TwoParts
  <2> HIDE DEF Bl, D
  <2>3. SameWords(Bl \o D, D) /\ Bl \o D \in Seq(S)
    BY <1>2, <1>3
  <2>4. SameWords(s \o (Bl \o D), s \o D)
    <3>1. SameWords(s, s)
      BY DEF SameWords
    <3> QED BY <1>2, <2>3, <3>1, PartsAlike
  <2> QED BY <2>1, <2>2, <2>4 DEF RowKeeps, InParts
<1>7. ASSUME NEW s \in Seq(S), NEW t \in Seq(S) PROVE RowKeeps(Contraction(s, t))
  <2> DEFINE x == Bl \o s
             y == x \o t
             z == x \o Bl
             w == z \o t
  <2>1. Contraction(s, t)[1] = y \o Bl /\ Contraction(s, t)[2] = w \o Bl
    BY DEF Contraction, b
  <2> HIDE DEF Bl
  <2>2. x \in Seq(S)
    BY <1>3
  <2> HIDE DEF x
  <2>3. z \in Seq(S) /\ SameWords(z, x)
    BY <1>3, <2>2
  <2> HIDE DEF z
  <2>4. y \in Seq(S) /\ w \in Seq(S)
    BY <2>2, <2>3, ConcatProperties
  <2>5. SameWords(w, y)
    <3>1. SameWords(t, t)
      BY DEF SameWords
    <3> QED BY <2>2, <2>3, <3>1, PartsAlike
  <2> HIDE DEF y, w
  <2>6. SameWords(y \o Bl, y) /\ SameWords(w \o Bl, w)
    BY <1>3, <2>4
  <2> QED BY <2>1, <2>5, <2>6 DEF RowKeeps, SameWords
<1> QED BY <1>4, <1>5, <1>6, <1>7

(* No row of the table but moves spaces.                                   *)
LEMMA RowsKeep ==
  \A r \in 1..Rows : RowKeeps(token_list[r])
<1> DEFINE S == Signs
           R(r) == RowKeeps(token_list[r])
<1>1. Spacing(S)
  BY DEF Spacing, Signs
<1>2. \A c \in {"\"", ",", ";", ":", "[", "]", "<", ">", "?", "!", ".", ")"} :
        RowKeeps(Spaced(c)) /\ RowKeeps(Ending(c))
  BY <1>1, ShapesKeep DEF Signs
<1>3. /\ R(1) /\ R(2) /\ R(3) /\ R(4) /\ R(5) /\ R(6) /\ R(7)
      /\ R(8) /\ R(9) /\ R(11) /\ R(13) /\ R(14)
  <2>1. /\ token_list[1] = Spaced("\"") /\ token_list[2] = Spaced(",") /\ token_list[3] = Spaced(";")
        /\ token_list[4] = Spaced(":") /\ token_list[5] = Ending("?") /\ token_list[6] = Ending("!")
        /\ token_list[7] = Ending(".") /\ token_list[8] = Spaced("[") /\ token_list[9] = Spaced("]")
        /\ token_list[11] = Ending(")") /\ token_list[13] = Spaced("<") /\ token_list[14] = Spaced(">")
    BY DEF token_list
  <2> QED BY <1>2, <2>1
<1>4. {"\"", ",", ";", ":", "?", "!", ".", "[", "]", "(", ")", "<", ">", "-", "'",
          "s", "n", "t", "c", "a", "o", "V", "v", " "} \subseteq S
  BY DEF Signs
<1> DEFINE b == " "
           d == "."
           Bl == <<b>>
<1>5. b \in S /\ d \in S /\ Bl \in Seq(S)
  <2>1. b \in S /\ d \in S
    BY <1>4
  <2> QED BY <2>1, Tuples
<1>6. \A s \in Seq(S) : SameWords(Bl \o s, s) /\ SameWords(s \o Bl, s) /\ s \o Bl \in Seq(S) /\ Bl \o s \in Seq(S)
  <2> SUFFICES ASSUME NEW s \in Seq(S)
               PROVE  SameWords(Bl \o s, s) /\ SameWords(s \o Bl, s) /\ s \o Bl \in Seq(S) /\ Bl \o s \in Seq(S)
    OBVIOUS
  <2>1. s \o Bl \in Seq(S) /\ Bl \o s \in Seq(S)
    BY <1>5, ConcatProperties
  <2>2. SameWords(Bl \o s, s) /\ SameWords(s \o Bl, s)
    BY <1>1, SpaceIsNothing
  <2> QED BY <2>1, <2>2
<1>7. R(10)
  <2> DEFINE c == "("
             C == <<c>>
  <2>1. token_list[10][1] = <<b, c>> /\ token_list[10][2] = <<b, c, b>>
    BY DEF token_list
  <2>2. c \in S
    BY <1>4
  <2> HIDE DEF b, c
  <2>3. InParts(<<b, c>>, Bl, C) /\ InParts(<<b, c, b>>, <<b, c>>, Bl)
    BY TwoParts, ThreeParts
  <2>4. C \in Seq(S)
    BY <2>2, Tuples
  <2> HIDE DEF Bl, C
  <2>5. Bl \o C \in Seq(S)
    BY <1>6, <2>4
  <2>6. SameWords((Bl \o C) \o Bl, Bl \o C)
    BY <1>6, <2>5
  <2> QED BY <2>1, <2>3, <2>6 DEF RowKeeps, SameWords, InParts
<1>8. R(15)
  <2> DEFINE c == "-"
             C == <<c, c>>
  <2>1. token_list[15][1] = C /\ token_list[15][2] = <<b, c, c, b>>
    BY DEF token_list
  <2>2. c \in S
    BY <1>4
  <2> HIDE DEF b, c
  <2>3. InParts(<<b, c, c, b>>, <<b, c, c>>, Bl) /\ InParts(<<b, c, c>>, Bl, C)
    BY FourParts, ThreeParts, LastTwo
  <2>4. C \in Seq(S)
    BY <2>2, Tuples
  <2> HIDE DEF Bl, C
  <2>5. Bl \o C \in Seq(S) /\ SameWords(Bl \o C, C)
    BY <1>6, <2>4
  <2>6. SameWords((Bl \o C) \o Bl, Bl \o C)
    BY <1>6, <2>5
  <2> QED BY <2>1, <2>3, <2>5, <2>6 DEF RowKeeps, SameWords, InParts
<1>9. R(12) /\ R(16) /\ R(17)
  <2>1. /\ token_list[12] = Clitic(<<")", ".">>) /\ token_list[16] = Clitic(<<"'", "s", " ">>)
        /\ token_list[17] = Clitic(<<"n", "'", "t", " ">>)
    BY DEF token_list
  <2>2. <<")", ".">> \in Seq(S) /\ <<"'", "s", " ">> \in Seq(S) /\ <<"n", "'", "t", " ">> \in Seq(S)
    BY <1>4, Tuples
  <2> QED BY <1>1, <2>1, <2>2, ShapesKeep
<1>10. R(18)
  <2>1. token_list[18] = Contraction(<<"c", "a", "n">>, <<"n", "o", "t">>)
    BY DEF token_list
  <2>2. <<"c", "a", "n">> \in Seq(S) /\ <<"n", "o", "t">> \in Seq(S)
    <3>1. {"c", "a", "n", "o", "t"} \subseteq S
      BY <1>4
    <3> HIDE DEF S
    <3> QED BY <3>1, Tuples
  <2> QED BY <1>1, <2>1, <2>2, ShapesKeep
<1>11. R(19)
  <2> DEFINE C == <<d, d>>
             D == <<d>>
  <2>1. token_list[19][1] = <<d, d, b, d>> /\ token_list[19][2] = <<b, d, d, d>>
    BY DEF token_list
  <2> HIDE DEF b, d
  <2>2. C \in Seq(S) /\ D \in Seq(S)
    BY <1>5, Tuples
  <2>3. /\ InParts(<<d, d, b, d>>, <<d, d, b>>, D) /\ InParts(<<d, d, b>>, C, Bl)
        /\ InParts(<<b, d, d, d>>, <<b, d, d>>, D) /\ InParts(<<b, d, d>>, Bl, C)
    BY FourParts, ThreeParts, LastTwo
  <2> HIDE DEF Bl, C, D
  <2>4. SameWords(Bl \o C, C) /\ SameWords(C \o Bl, C) /\ Bl \o C \in Seq(S) /\ C \o Bl \in Seq(S)
    BY <1>6, <2>2
  <2>5. SameWords(C \o Bl, Bl \o C) /\ SameWords(D, D)
    BY <2>4 DEF SameWords
  <2>6. SameWords((C \o Bl) \o D, (Bl \o C) \o D)
    BY <2>2, <2>4, <2>5, PartsAlike
  <2> QED BY <2>1, <2>3, <2>6 DEF RowKeeps, InParts
<1>12. R(20) /\ R(21)
  <2>1. token_list[20] = Abbreviation(<<"V", "a">>) /\ token_list[21] = Abbreviation(<<"v">>)
    BY DEF token_list
  <2>2. <<"V", "a">> \in Seq(S) /\ <<"v">> \in Seq(S)
    <3>1. {"V", "a", "v"} \subseteq S
      BY <1>4
    <3> HIDE DEF S
    <3> QED BY <3>1, Tuples
  <2> QED BY <1>1, <2>1, <2>2, ShapesKeep
<1> HIDE DEF R
<1> SUFFICES ASSUME NEW r \in 1..Rows PROVE R(r)
  BY DEF R
<1>13. \/ r \in {1, 2, 3, 4, 5, 6, 7} \/ r \in {8, 9, 10, 11, 12, 13, 14} \/ r \in {15, 16, 17, 18, 19, 20, 21}
  BY DEF Rows
<1> QED BY <1>3, <1>7, <1>8, <1>9, <1>10, <1>11, <1>12, <1>13

(* replace() changes only spaces, if its row does.                         *)
LEMMA ReplaceKeeps ==
  ASSUME NEW S, NEW s \in Seq(S), NEW p \in Seq(S), Len(p) \in Nat \ {0}, NEW to \in Seq(S),
         SameWords(p, to)
  PROVE  SameWords(replace(s, p, to), s)
<1> DEFINE n == Len(s)
           m == n + 1
           K(i) == strstr(s, p, i)
           W(i) == SubSeq(s, i, n)
<1>1. n \in Nat /\ m \in Nat /\ SubSeq(s, 1, n) = s
  BY LenProperties, SubSeqFull
<1>2. \A i \in 1..m : K(i) # 0 => /\ K(i) \in i..(n - Len(p) + 1)
                                 /\ SubSeq(s, K(i), K(i) + Len(p) - 1) = p
  <2> HIDE DEF strstr
  <2> QED BY <1>1, FirstPlace
<1>3. PICK copied : Copying(copied, S, s, p, to) /\ replace(s, p, to) = copied[1]
  BY Replaced
<1>4. /\ copied \in [1..m -> Seq(S)]
      /\ \A i \in 1..m : copied[i] = CopyBody(copied, s, p, to, i)
  BY <1>3 DEF Copying
<1> HIDE DEF K
<1> DEFINE P == {i \in 1..m : SameWords(copied[i], W(i))}
<1>5. ASSUME NEW i \in 1..m, \A j \in (i + 1)..m : j \in P PROVE i \in P
  <2>1. CASE K(i) = 0
    <3>1. copied[i] = W(i)
      BY <1>4, <2>1 DEF CopyBody, K
    <3> QED BY <3>1 DEF SameWords
  <2>2. CASE K(i) # 0
    <3> DEFINE k == K(i)
               j == k + Len(p)
               x == SubSeq(s, i, k - 1)
               y == copied[j]
               z == W(j)
    <3>1. k \in i..(n - Len(p) + 1) /\ j \in (i + 1)..m /\ j \in 1..m
      BY <1>1, <1>2, <2>2
    <3>2. copied[i] = x \o to \o y
      BY <1>4, <2>2 DEF CopyBody, K
    <3>3. x \in Seq(S) /\ z \in Seq(S)
      <4>1. k - 1 \in 0..n /\ n \in 0..n
        BY <1>1, <3>1
      <4> QED BY <1>1, <3>1, <4>1, SubSeqProperties
    <3>4. y \in Seq(S) /\ SameWords(y, z)
      BY <1>4, <1>5, <3>1
    <3>5. SubSeq(s, i, j - 1) = x \o p
      <4>1. i \in 1..(Len(s) + 1) /\ k - 1 \in (i - 1)..Len(s) /\ j - 1 \in (k - 1)..Len(s) /\ (k - 1) + 1 = k
        BY <1>1, <3>1
      <4>2. SubSeq(s, i, k - 1) \o SubSeq(s, (k - 1) + 1, j - 1) = SubSeq(s, i, j - 1)
        BY <4>1, ConcatAdjacentSubSeq
      <4>3. SubSeq(s, k, k + Len(p) - 1) = p /\ k + Len(p) - 1 = j - 1
        BY <1>1, <1>2, <2>2, <3>1
      <4> QED BY <4>1, <4>2, <4>3
    <3>6. W(i) = SubSeq(s, i, j - 1) \o z
      <4>1. i \in 1..(Len(s) + 1) /\ j - 1 \in (i - 1)..Len(s) /\ n \in (j - 1)..Len(s) /\ (j - 1) + 1 = j
        BY <1>1, <3>1
      <4>2. SubSeq(s, i, j - 1) \o SubSeq(s, (j - 1) + 1, n) = SubSeq(s, i, n)
        BY <4>1, ConcatAdjacentSubSeq
      <4> QED BY <4>1, <4>2
    <3>7. i \in 1..m
      OBVIOUS
    <3> HIDE DEF x, y, z, k, j, n, m, W, P
    <3>8. SameWords(x \o to, x \o p)
      <4>1. SameWords(x, x) /\ SameWords(to, p)
        BY DEF SameWords
      <4> QED BY <3>3, <4>1, PartsAlike
    <3>9. SameWords((x \o to) \o y, (x \o p) \o z)
      <4>1. x \o to \in Seq(S) /\ x \o p \in Seq(S)
        BY <3>3, ConcatProperties
      <4> QED BY <3>3, <3>4, <3>8, <4>1, PartsAlike
    <3> QED BY <3>2, <3>5, <3>6, <3>7, <3>9 DEF P
  <2> QED BY <2>1, <2>2
<1>6. \A i \in 1..m : i \in P
  <2>1. P \in SUBSET (1..m)
    OBVIOUS
  <2> HIDE DEF P, m
  <2> QED BY <1>1, <1>5, <2>1, FromEnd
<1>7. 1 \in 1..m
  BY <1>1
<1>8. SameWords(copied[1], W(1))
  BY <1>6, <1>7
<1> QED BY <1>1, <1>3, <1>8

(* Each c in a text has a blank, or nothing, on either side.               *)
Alone(x, c, b) ==
  \A j \in 1..Len(x) : x[j] = c => (j > 1 => x[j - 1] = b) /\ (j < Len(x) => x[j + 1] = b)

Without(x, c) == \A j \in 1..Len(x) : x[j] # c

(* What stands alone in a text stands alone in its parts.                  *)
LEMMA AlonePart ==
  ASSUME NEW S, NEW s \in Seq(S), NEW c, NEW b, Alone(s, c, b),
         NEW i \in 1..(Len(s) + 1), NEW k \in 0..Len(s)
  PROVE  /\ SubSeq(s, i, k) \in Seq(S) /\ Len(SubSeq(s, i, k)) = (IF i <= k THEN k - i + 1 ELSE 0)
         /\ \A j \in 1..(k - i + 1) : SubSeq(s, i, k)[j] = s[i + j - 1]
         /\ Alone(SubSeq(s, i, k), c, b)
<1> DEFINE n == Len(s)
           x == SubSeq(s, i, k)
<1>1. n \in Nat /\ i \in Int /\ k \in Int /\ i >= 1 /\ k <= n
  BY LenProperties
<1>2. \A j \in i..k : s[j] \in S
  BY <1>1, ElementOfSeq
<1>3. /\ x \in Seq(S) /\ Len(x) = (IF i <= k THEN k - i + 1 ELSE 0)
      /\ \A j \in 1..(k - i + 1) : x[j] = s[i + j - 1]
  BY <1>1, <1>2, SubSeqProperties
<1> HIDE DEF x
<1>4. Alone(x, c, b)
  <2> SUFFICES ASSUME NEW j \in 1..Len(x), x[j] = c
               PROVE  (j > 1 => x[j - 1] = b) /\ (j < Len(x) => x[j + 1] = b)
    BY DEF Alone
  <2>1. Len(x) = k - i + 1 /\ j \in 1..(k - i + 1) /\ i + j - 1 \in 1..n
    BY <1>1, <1>3
  <2>2. s[i + j - 1] = c
    BY <1>3, <2>1
  <2> DEFINE l == i + j - 1
  <2>3. (l > 1 => s[l - 1] = b) /\ (l < n => s[l + 1] = b)
    BY <2>1, <2>2 DEF Alone
  <2>4. ASSUME j > 1 PROVE x[j - 1] = b
    <3>1. j - 1 \in 1..(k - i + 1) /\ i + (j - 1) - 1 = l - 1 /\ l > 1
      BY <1>1, <2>1, <2>4
    <3> HIDE DEF l
    <3> QED BY <1>3, <2>3, <3>1
  <2>5. ASSUME j < Len(x) PROVE x[j + 1] = b
    <3>1. j + 1 \in 1..(k - i + 1) /\ i + (j + 1) - 1 = l + 1 /\ l < n
      BY <1>1, <2>1, <2>5
    <3> HIDE DEF l
    <3> QED BY <1>3, <2>3, <3>1
  <2> QED BY <2>4, <2>5
<1> QED BY <1>3, <1>4 DEF x

Joins(x, y, c, b) ==
  Len(x) > 0 /\ Len(y) > 0 => (x[Len(x)] = c => y[1] = b) /\ (y[1] = c => x[Len(x)] = b)

JoinedAlone(z, x, y, c, b) ==
  /\ Len(z) = Len(x) + Len(y) /\ Alone(z, c, b)
  /\ Len(x) > 0 => z[1] = x[1]
  /\ Len(x) = 0 /\ Len(y) > 0 => z[1] = y[1]
  /\ Len(y) > 0 => z[Len(z)] = y[Len(y)]

(* It does where two parts meet, when their ends allow it.                 *)
LEMMA AloneJoined ==
  ASSUME NEW S, NEW x \in Seq(S), NEW y \in Seq(S), NEW c, NEW b, Alone(x, c, b), Alone(y, c, b),
         Joins(x, y, c, b)
  PROVE  x \o y \in Seq(S) /\ JoinedAlone(x \o y, x, y, c, b)
<1> DEFINE n == Len(x)
           m == Len(y)
           z == x \o y
<1>1. n \in Nat /\ m \in Nat
  BY LenProperties
<1>2. z \in Seq(S) /\ Len(z) = n + m
  BY ConcatProperties
<1>3. \A i \in 1..(n + m) : z[i] = IF i <= n THEN x[i] ELSE y[i - n]
  BY ConcatProperties
<1>4. (\A i \in 1..n : z[i] = x[i]) /\ (\A i \in 1..m : z[n + i] = y[i])
  <2>1. \A i \in 1..n : i \in 1..(n + m) /\ i <= n
    BY <1>1
  <2>2. \A i \in 1..m : n + i \in 1..(n + m) /\ ~(n + i <= n) /\ (n + i) - n = i
    BY <1>1
  <2> HIDE DEF z, n, m
  <2> QED BY <1>3, <2>1, <2>2
<1> HIDE DEF z
<1>5. Alone(z, c, b)
  <2> SUFFICES ASSUME NEW j \in 1..(n + m), z[j] = c
               PROVE  (j > 1 => z[j - 1] = b) /\ (j < n + m => z[j + 1] = b)
    BY <1>2 DEF Alone
  <2>1. CASE j < n
    <3>1. j \in 1..n /\ j + 1 \in 1..n /\ (j > 1 => j - 1 \in 1..n)
      BY <1>1, <2>1
    <3>2. x[j] = c
      BY <1>4, <3>1
    <3>3. (j > 1 => x[j - 1] = b) /\ x[j + 1] = b
      BY <2>1, <3>1, <3>2 DEF Alone
    <3> QED BY <1>4, <3>1, <3>3
  <2>2. CASE j = n
    <3>1. j \in 1..n /\ (j > 1 => j - 1 \in 1..n) /\ n > 0
      BY <1>1, <2>2
    <3>2. x[j] = c
      BY <1>4, <3>1
    <3>3. j > 1 => x[j - 1] = b
      BY <2>2, <3>1, <3>2 DEF Alone
    <3>4. j < n + m => m > 0 /\ 1 \in 1..m
      BY <1>1, <2>2
    <3>5. j < n + m => y[1] = b
      BY <2>2, <3>1, <3>2, <3>4 DEF Joins
    <3>6. j < n + m => z[n + 1] = y[1]
      BY <1>4, <3>4
    <3> QED BY <1>4, <2>2, <3>1, <3>3, <3>5, <3>6
  <2>3. CASE j = n + 1
    <3>1. 1 \in 1..m /\ m > 0 /\ (j < n + m => 2 \in 1..m /\ 1 < m)
      BY <1>1, <2>3
    <3>2. y[1] = c
      BY <1>4, <2>3, <3>1
    <3>3. j < n + m => y[1 + 1] = b
      BY <3>1, <3>2 DEF Alone
    <3>4. j < n + m => z[n + 2] = y[2] /\ j + 1 = n + 2 /\ 1 + 1 = 2
      BY <1>1, <1>4, <2>3, <3>1
    <3>5. j > 1 => n > 0 /\ n \in 1..n /\ j - 1 = n
      BY <1>1, <2>3
    <3>6. j > 1 => x[n] = b
      BY <3>1, <3>2, <3>5 DEF Joins
    <3>7. j > 1 => z[j - 1] = b
      BY <1>4, <3>5, <3>6
    <3>8. j < n + m => z[j + 1] = b
      BY <3>3, <3>4
    <3> QED BY <3>7, <3>8
  <2>4. CASE j > n + 1
    <3> DEFINE i == j - n
    <3>1. i \in 1..m /\ i > 1 /\ i - 1 \in 1..m /\ n + i = j /\ n + (i - 1) = j - 1
      BY <1>1, <2>4
    <3>2. j < n + m => i < m /\ i + 1 \in 1..m /\ n + (i + 1) = j + 1
      BY <1>1, <2>4
    <3> HIDE DEF i
    <3>3. y[i] = c
      BY <1>4, <3>1
    <3>4. y[i - 1] = b /\ (i < m => y[i + 1] = b)
      BY <3>1, <3>3 DEF Alone
    <3>5. z[n + (i - 1)] = y[i - 1] /\ (j < n + m => z[n + (i + 1)] = y[i + 1])
      BY <1>4, <3>1, <3>2
    <3> QED BY <3>1, <3>2, <3>4, <3>5
  <2> QED BY <1>1, <2>1, <2>2, <2>3, <2>4
<1>6. /\ n > 0 => z[1] = x[1]
      /\ n = 0 /\ m > 0 => z[1] = y[1]
      /\ m > 0 => z[n + m] = y[m]
  <2>1. n > 0 => 1 \in 1..n
    BY <1>1
  <2>2. m > 0 => 1 \in 1..m /\ m \in 1..m
    BY <1>1
  <2>3. n = 0 => n + 1 = 1
    OBVIOUS
  <2> HIDE DEF n, m
  <2> QED BY <1>4, <2>1, <2>2, <2>3
<1>7. JoinedAlone(z, x, y, c, b)
  BY <1>2, <1>5, <1>6 DEF JoinedAlone
<1> QED BY <1>2, <1>7 DEF z

(* What does not occur stands alone.                                       *)
LEMMA WithoutAlone ==
  ASSUME NEW x, NEW c, NEW b, Without(x, c)
  PROVE  Alone(x, c, b)
BY DEF Without, Alone

(* A row without c leaves every c alone.                                   *)
LEMMA AloneKept ==
  ASSUME NEW S, NEW s \in Seq(S), NEW p \in Seq(S), Len(p) \in Nat \ {0}, NEW to \in Seq(S), Len(to) # 0,
         NEW c, NEW b, b # c, Alone(s, c, b), Without(p, c), Without(to, c),
         p[1] = b => to[1] = b, p[Len(p)] = b => to[Len(to)] = b
  PROVE  Alone(replace(s, p, to), c, b)
<1> DEFINE n == Len(s)
           m == n + 1
           K(i) == strstr(s, p, i)
<1>1. n \in Nat /\ m \in Nat /\ Len(to) \in Nat
  BY LenProperties
<1>2. \A i \in 1..m : K(i) # 0 => /\ K(i) \in i..(n - Len(p) + 1)
                                 /\ SubSeq(s, K(i), K(i) + Len(p) - 1) = p
  <2> HIDE DEF strstr
  <2> QED BY <1>1, FirstPlace
<1>3. PICK copied : Copying(copied, S, s, p, to) /\ replace(s, p, to) = copied[1]
  BY Replaced
<1>4. /\ copied \in [1..m -> Seq(S)]
      /\ \A i \in 1..m : copied[i] = CopyBody(copied, s, p, to, i)
  BY <1>3 DEF Copying
<1> HIDE DEF K
<1> DEFINE Good(x, i) == Alone(x, c, b) /\ (Len(x) > 0 /\ x[1] = c => i <= n /\ s[i] = c)
           P == {i \in 1..m : Good(copied[i], i)}
<1>5. ASSUME NEW i \in 1..m, \A j \in (i + 1)..m : j \in P PROVE i \in P
  <2>1. CASE K(i) = 0
    <3>1. copied[i] = SubSeq(s, i, n)
      BY <1>4, <2>1 DEF CopyBody, K
    <3>2. i \in 1..(Len(s) + 1) /\ n \in 0..Len(s)
      BY <1>1
    <3> DEFINE x == SubSeq(s, i, n)
    <3>3. Len(x) = (IF i <= n THEN n - i + 1 ELSE 0) /\ (\A j \in 1..(n - i + 1) : x[j] = s[i + j - 1]) /\ Alone(x, c, b)
      BY <3>2, AlonePart
    <3> HIDE DEF x
    <3>4. Len(x) > 0 => i <= n /\ 1 \in 1..(n - i + 1) /\ i + 1 - 1 = i
      BY <1>1, <3>3
    <3>5. Len(x) > 0 => x[1] = s[i]
      BY <3>3, <3>4
    <3> QED BY <3>1, <3>3, <3>4, <3>5 DEF x
  <2>2. CASE K(i) # 0
    <3> DEFINE k == K(i)
               j == k + Len(p)
               x == SubSeq(s, i, k - 1)
               y == copied[j]
               z == x \o to
    <3>1. k \in i..(n - Len(p) + 1) /\ j \in (i + 1)..m /\ j \in 1..m
      BY <1>1, <1>2, <2>2
    <3>2. copied[i] = z \o y
      BY <1>4, <2>2 DEF CopyBody, K
    <3>3. y \in Seq(S) /\ Good(y, j)
      BY <1>4, <1>5, <3>1
    <3>4. s[k] = p[1] /\ s[j - 1] = p[Len(p)] /\ k \in 1..n /\ j - 1 \in 1..n
      <4>1. n = Len(s) /\ Len(p) \in Nat \ {0} /\ k \in Int /\ 1 <= k /\ k <= n - Len(p) + 1 /\ j = k + Len(p)
        <5>1. i >= 1 /\ i \in Int
          BY <1>1
        <5> HIDE DEF k
        <5> QED BY <1>1, <3>1, <5>1
      <4>2. k \in 1..(Len(s) + 1) /\ j - 1 \in 0..Len(s) /\ j - 1 = k + Len(p) - 1
        <5> HIDE DEF k, j, n
        <5> QED BY <1>1, <4>1
      <4>3. \A l \in 1..((j - 1) - k + 1) : SubSeq(s, k, j - 1)[l] = s[k + l - 1]
        BY <4>2, AlonePart
      <4>4. SubSeq(s, k, j - 1) = p
        BY <1>2, <2>2, <4>2
      <4>5. 1 \in 1..((j - 1) - k + 1) /\ k + 1 - 1 = k /\ Len(p) \in 1..((j - 1) - k + 1)
        <5> HIDE DEF k, j, n
        <5> QED BY <1>1, <4>1
      <4>6. p[1] = s[k + 1 - 1]
        BY <4>3, <4>4, <4>5
      <4>7. p[Len(p)] = s[k + Len(p) - 1]
        BY <4>3, <4>4, <4>5
      <4>8. k \in 1..n /\ j - 1 \in 1..n
        <5> HIDE DEF k, j, n
        <5> QED BY <1>1, <4>1
      <4> HIDE DEF k, j
      <4> QED BY <4>2, <4>5, <4>6, <4>7, <4>8
    <3>5. /\ x \in Seq(S) /\ Len(x) = k - i /\ Alone(x, c, b)
          /\ Len(x) > 0 => x[1] = s[i] /\ x[Len(x)] = s[k - 1]
      <4>1. i \in 1..(Len(s) + 1) /\ k - 1 \in 0..Len(s)
        BY <1>1, <3>1
      <4>2. /\ x \in Seq(S) /\ Len(x) = (IF i <= k - 1 THEN (k - 1) - i + 1 ELSE 0) /\ Alone(x, c, b)
            /\ \A l \in 1..((k - 1) - i + 1) : x[l] = s[i + l - 1]
        BY <4>1, AlonePart
      <4> HIDE DEF x, k
      <4>3. Len(x) = k - i
        BY <1>1, <3>1, <4>2
      <4>4. Len(x) > 0 => /\ 1 \in 1..((k - 1) - i + 1) /\ i + 1 - 1 = i
                          /\ Len(x) \in 1..((k - 1) - i + 1) /\ i + Len(x) - 1 = k - 1
        BY <1>1, <3>1, <4>3
      <4> QED BY <4>2, <4>3, <4>4
    <3> HIDE DEF x, y, K, j, P
    <3>6. Len(x) > 0 => (x[Len(x)] = c => to[1] = b) /\ to[1] # c
      <4>1. to[1] # c
        BY <1>1 DEF Without
      <4>2. Len(x) > 0 => k - 1 \in 1..n /\ k - 1 < n /\ (k - 1) + 1 = k
        BY <1>1, <3>1, <3>5, SMTT(30)
      <4>3. Len(x) > 0 /\ s[k - 1] = c => s[k] = b
        BY <4>2 DEF Alone
      <4> QED BY <3>4, <3>5, <4>1, <4>3
    <3>7. /\ z \in Seq(S) /\ Len(z) = Len(x) + Len(to) /\ Alone(z, c, b)
          /\ Len(x) > 0 => z[1] = x[1]
          /\ Len(x) = 0 => z[1] = to[1]
          /\ z[Len(z)] = to[Len(to)]
      <4>1. Alone(to, c, b) /\ Len(to) > 0
        BY <1>1, WithoutAlone
      <4>2. Joins(x, to, c, b)
        BY <3>6 DEF Joins
      <4>3. z \in Seq(S) /\ JoinedAlone(z, x, to, c, b)
        BY <3>5, <4>1, <4>2, AloneJoined
      <4> HIDE DEF z
      <4> QED BY <4>1, <4>3 DEF JoinedAlone
    <3> HIDE DEF z
    <3>8. Len(z) > 0
      BY <1>1, <3>5, <3>7, LenProperties
    <3>9. Len(y) > 0 => (z[Len(z)] = c => y[1] = b) /\ (y[1] = c => z[Len(z)] = b)
      <4>1. to[Len(to)] # c
        BY <1>1 DEF Without
      <4>2. Len(y) > 0 /\ y[1] = c => j <= n /\ s[j] = c
        BY <3>3
      <4>3. j \in Int /\ j > 1 /\ (j <= n => j \in 1..n)
        BY <1>1, <3>1
      <4>4. Len(y) > 0 /\ y[1] = c => s[j - 1] = b
        BY <4>2, <4>3 DEF Alone
      <4> QED BY <3>4, <3>7, <4>1, <4>4
    <3>10. Alone(z \o y, c, b) /\ (z \o y)[1] = z[1]
      <4>1. Joins(z, y, c, b)
        BY <3>9 DEF Joins
      <4>2. JoinedAlone(z \o y, z, y, c, b)
        BY <3>3, <3>7, <3>8, <3>9, <4>1, AloneJoined
      <4> QED BY <3>8, <4>2 DEF JoinedAlone
    <3>11. z[1] = c => i <= n /\ s[i] = c
      <4>1. to[1] # c
        BY <1>1 DEF Without
      <4>2. Len(x) > 0 => i <= n
        BY <1>1, <3>1, <3>5
      <4>3. Len(x) > 0 \/ Len(x) = 0
        BY <3>5, LenProperties
      <4> QED BY <3>5, <3>7, <4>1, <4>2, <4>3
    <3>12. Good(copied[i], i)
      BY <3>2, <3>10, <3>11
    <3> QED BY <3>12 DEF P
  <2> QED BY <2>1, <2>2
<1>6. \A i \in 1..m : i \in P
  <2>1. P \in SUBSET (1..m)
    OBVIOUS
  <2> HIDE DEF P, m
  <2> QED BY <1>1, <1>5, <2>1, FromEnd
<1>7. 1 \in 1..m
  BY <1>1
<1>8. Alone(copied[1], c, b)
  BY <1>6, <1>7
<1> QED BY <1>3, <1>8

(* The row of c sets every c apart.                                        *)
LEMMA SetApart ==
  ASSUME NEW S, NEW s \in Seq(S), NEW c \in S, NEW b \in S, b # c
  PROVE  Alone(replace(s, <<c>>, <<b, c, b>>), c, b)
<1> DEFINE n == Len(s)
           m == n + 1
           p == <<c>>
           to == <<b, c, b>>
           K(i) == strstr(s, p, i)
<1>1. n \in Nat /\ m \in Nat /\ p \in Seq(S) /\ Len(p) = 1 /\ to \in Seq(S) /\ Len(to) = 3
  BY LenProperties, Tuples
<1>2. to[1] = b /\ to[2] = c /\ to[3] = b /\ p[1] = c
  OBVIOUS
<1> HIDE DEF to
<1>3. \A i \in 1..m :
        /\ K(i) = 0 => \A k \in i..n : SubSeq(s, k, k) # p
        /\ K(i) # 0 => K(i) \in i..n /\ \A k \in i..(K(i) - 1) : SubSeq(s, k, k) # p
  <2>1. \A k \in 1..n : k + 1 - 1 = k
    OBVIOUS
  <2>2. n - 1 + 1 = n
    BY <1>1
  <2> SUFFICES ASSUME NEW i \in 1..m
               PROVE  /\ K(i) = 0 => \A k \in i..n : SubSeq(s, k, k) # p
                      /\ K(i) # 0 => K(i) \in i..n /\ \A k \in i..(K(i) - 1) : SubSeq(s, k, k) # p
    OBVIOUS
  <2> HIDE DEF p, K
  <2>3. /\ K(i) = 0 => \A k \in i..(n - 1 + 1) : SubSeq(s, k, k + 1 - 1) # p
        /\ K(i) # 0 => K(i) \in i..(n - 1 + 1) /\ \A k \in i..(K(i) - 1) : SubSeq(s, k, k + 1 - 1) # p
    <3>1. n \in Nat /\ Len(p) \in Nat \ {0} /\ i \in 1..(n + 1)
      BY <1>1
    <3>2. /\ K(i) = 0 => \A k \in i..(n - Len(p) + 1) : SubSeq(s, k, k + Len(p) - 1) # p
          /\ K(i) # 0 => K(i) \in i..(n - Len(p) + 1) /\ \A k \in i..(K(i) - 1) : SubSeq(s, k, k + Len(p) - 1) # p
      BY <3>1, FirstPlace DEF K
    <3>3. Len(p) = 1
      BY <1>1
    <3> QED BY <3>2, <3>3
  <2>4. \A k \in i..n : k \in 1..n
    BY <1>1
  <2>5. K(i) # 0 /\ K(i) \in i..n => \A k \in i..(K(i) - 1) : k \in 1..n
    BY <1>1
  <2> HIDE DEF n
  <2> QED BY <2>1, <2>2, <2>3, <2>4, <2>5
<1>4. \A k \in 1..n : SubSeq(s, k, k) # p => s[k] # c
  <2> SUFFICES ASSUME NEW k \in 1..n PROVE SubSeq(s, k, k) = <<s[k]>>
    OBVIOUS
  <2>1. k \in 1..Len(s) /\ k \in k..Len(s) /\ k - 1 < k /\ k - 1 \in Int /\ k \in Int
    BY <1>1
  <2>2. SubSeq(s, k, k) = SubSeq(s, k, k - 1) \o <<s[k]>>
    BY <2>1, SubSeqRecursiveSecond
  <2>3. SubSeq(s, k, k - 1) = <<>>
    BY <2>1, SubSeqEmpty
  <2>4. <<s[k]>> \in Seq(S)
    BY ElementOfSeq, Tuples
  <2> QED BY <2>2, <2>3, <2>4, ConcatEmptySeq
<1> HIDE DEF p
<1>5. PICK copied : Copying(copied, S, s, p, to) /\ replace(s, p, to) = copied[1]
  BY <1>1, Replaced
<1>6. /\ copied \in [1..m -> Seq(S)]
      /\ \A i \in 1..m : copied[i] = CopyBody(copied, s, p, to, i)
  BY <1>5 DEF Copying
<1>7. ASSUME NEW i \in 1..m, NEW k \in (i - 1)..n, \A l \in i..k : s[l] # c
      PROVE  /\ SubSeq(s, i, k) \in Seq(S) /\ Without(SubSeq(s, i, k), c)
             /\ Len(SubSeq(s, i, k)) \in Nat
  <2>1. \A l \in i..k : s[l] \in S
    BY <1>1, ElementOfSeq
  <2>2. i \in Int /\ k \in Int
    BY <1>1
  <2> DEFINE x == SubSeq(s, i, k)
  <2>3. x \in Seq(S) /\ Len(x) = (IF i <= k THEN k - i + 1 ELSE 0) /\ \A l \in 1..(k - i + 1) : x[l] = s[i + l - 1]
    BY <2>1, <2>2, SubSeqProperties
  <2> HIDE DEF x
  <2>4. \A l \in 1..Len(x) : l \in 1..(k - i + 1) /\ i + l - 1 \in i..k
    BY <2>2, <2>3
  <2> QED BY <1>7, <2>3, <2>4, LenProperties DEF Without, x
<1> HIDE DEF K
<1> DEFINE Good(x) == Alone(x, c, b) /\ (Len(x) > 0 => x[1] # c)
           P == {i \in 1..m : Good(copied[i])}
<1>8. ASSUME NEW x, Without(x, c), Len(x) \in Nat PROVE Good(x)
  BY <1>8, WithoutAlone DEF Without
<1>9. Alone(to, c, b)
  <2> SUFFICES ASSUME NEW j \in 1..Len(to), to[j] = c
               PROVE  (j > 1 => to[j - 1] = b) /\ (j < Len(to) => to[j + 1] = b)
    BY DEF Alone
  <2>1. j = 2
    BY <1>1, <1>2
  <2>2. 2 - 1 = 1 /\ 2 + 1 = 3
    OBVIOUS
  <2> QED BY <1>2, <2>1, <2>2
<1>10. ASSUME NEW i \in 1..m, \A j \in (i + 1)..m : j \in P PROVE i \in P
  <2>1. CASE K(i) = 0
    <3>1. copied[i] = SubSeq(s, i, n)
      BY <1>6, <2>1 DEF CopyBody, K
    <3>2. \A l \in i..n : s[l] # c
      BY <1>1, <1>3, <1>4, <2>1
    <3>3. n \in (i - 1)..n
      BY <1>1
    <3>4. Without(copied[i], c) /\ Len(copied[i]) \in Nat
      BY <1>7, <3>1, <3>2, <3>3
    <3>5. Good(copied[i])
      BY <1>8, <3>4
    <3> QED BY <3>5
  <2>2. CASE K(i) # 0
    <3> DEFINE k == K(i)
               j == k + 1
               x == SubSeq(s, i, k - 1)
               y == copied[j]
               z == x \o to
    <3>1. k \in i..n /\ j \in (i + 1)..m /\ j \in 1..m /\ k - 1 \in (i - 1)..n
      BY <1>1, <1>3, <2>2
    <3>2. copied[i] = z \o y
      BY <1>1, <1>6, <2>2 DEF CopyBody, K
    <3>3. y \in Seq(S) /\ Good(y)
      BY <1>6, <1>10, <3>1
    <3>4. \A l \in i..(k - 1) : s[l] # c
      <4>1. \A l \in i..(k - 1) : l \in 1..n /\ SubSeq(s, l, l) # p
        BY <1>1, <1>3, <2>2, <3>1
      <4> QED BY <1>4, <4>1
    <3>5. x \in Seq(S) /\ Without(x, c) /\ Len(x) \in Nat
      BY <1>7, <3>1, <3>4
    <3> HIDE DEF x, y, j, P, K
    <3>6. Good(x)
      BY <1>8, <3>5
    <3>7. Len(x) > 0 => (x[Len(x)] = c => to[1] = b) /\ (to[1] = c => x[Len(x)] = b)
      BY <1>2
    <3>8. /\ z \in Seq(S) /\ Len(z) = Len(x) + Len(to) /\ Alone(z, c, b)
          /\ Len(x) > 0 => z[1] = x[1]
          /\ Len(x) = 0 => z[1] = to[1]
          /\ z[Len(z)] = to[Len(to)]
      <4>1. Len(to) > 0
        BY <1>1
      <4>2. Joins(x, to, c, b)
        BY <3>7 DEF Joins
      <4>3. z \in Seq(S) /\ JoinedAlone(z, x, to, c, b)
        BY <1>1, <1>9, <3>5, <3>6, <4>2, AloneJoined
      <4> HIDE DEF z
      <4> QED BY <4>1, <4>3 DEF JoinedAlone
    <3> HIDE DEF z
    <3>9. z[1] # c /\ z[Len(z)] = b /\ Len(z) > 0
      BY <1>1, <1>2, <3>5, <3>6, <3>8
    <3>10. Alone(z \o y, c, b) /\ (z \o y)[1] = z[1]
      <4>1. Joins(z, y, c, b)
        BY <3>9, <3>3 DEF Joins
      <4>2. JoinedAlone(z \o y, z, y, c, b)
        BY <3>3, <3>8, <3>9, <4>1, AloneJoined
      <4> QED BY <3>9, <4>2 DEF JoinedAlone
    <3>11. Good(copied[i])
      BY <3>2, <3>9, <3>10
    <3> QED BY <3>11 DEF P
  <2> QED BY <2>1, <2>2
<1>11. \A i \in 1..m : i \in P
  <2>1. P \in SUBSET (1..m)
    OBVIOUS
  <2> HIDE DEF P, m
  <2> QED BY <1>1, <1>10, <2>1, FromEnd
<1>12. 1 \in 1..m
  BY <1>1
<1>13. Alone(copied[1], c, b)
  BY <1>11, <1>12
<1> QED BY <1>5, <1>13 DEF p, to

(* A row that takes a blank at its beginning or end gives one back.        *)
EdgesKept(p, to) ==
  /\ Len(to) # 0
  /\ p[1] = " " => to[1] = " "
  /\ p[Len(p)] = " " => to[Len(to)] = " "

RowEdges(row) == EdgesKept(row[1], row[2])

Ends(z, x, y) ==
  /\ Len(z) = Len(x) + Len(y) /\ Len(x) \in Nat /\ Len(y) \in Nat
  /\ Len(x) > 0 => z[1] = x[1]
  /\ Len(y) > 0 => z[Len(z)] = y[Len(y)]

(* The ends of two texts joined.                                           *)
LEMMA Edges ==
  ASSUME NEW S, NEW x \in Seq(S), NEW y \in Seq(S)
  PROVE  x \o y \in Seq(S) /\ Ends(x \o y, x, y)
<1> DEFINE z == x \o y
           n == Len(x)
           m == Len(y)
<1>1. n \in Nat /\ m \in Nat
  BY LenProperties
<1>2. z \in Seq(S) /\ Len(z) = n + m
  BY ConcatProperties
<1>3. \A i \in 1..(n + m) : z[i] = IF i <= n THEN x[i] ELSE y[i - n]
  BY ConcatProperties
<1> HIDE DEF z
<1>4. n > 0 => 1 \in 1..(n + m) /\ 1 <= n
  BY <1>1
<1>5. m > 0 => n + m \in 1..(n + m) /\ ~(n + m <= n) /\ (n + m) - n = m
  BY <1>1
<1>6. (n > 0 => z[1] = x[1]) /\ (m > 0 => z[n + m] = y[m])
  <2> HIDE DEF n, m
  <2> QED BY <1>3, <1>4, <1>5
<1>7. Ends(z, x, y)
  BY <1>1, <1>2, <1>6 DEF Ends
<1> QED BY <1>2, <1>7 DEF z

(* The shapes of the table give back the blanks they take at their ends.   *)
LEMMA EdgesOfShapes ==
  ASSUME NEW S, Spacing(S)
  PROVE  /\ \A c \in S : RowEdges(Spaced(c)) /\ RowEdges(Ending(c))
         /\ \A s \in Seq(S) : RowEdges(Clitic(s)) /\ (Len(s) > 0 => RowEdges(Abbreviation(s)))
         /\ \A s, t \in Seq(S) : RowEdges(Contraction(s, t))
<1> DEFINE b == " "
           d == "."
           Bl == <<b>>
           D == <<d>>
<1>1. b \in S /\ d \in S /\ b # d
  BY DEF Spacing
<1>2. Bl \in Seq(S) /\ D \in Seq(S) /\ Len(Bl) = 1 /\ Len(D) = 1 /\ Bl[1] = b /\ D[1] = d
  BY <1>1, Tuples
<1> HIDE DEF b, d
<1>3. ASSUME NEW c \in S PROVE RowEdges(Spaced(c)) /\ RowEdges(Ending(c))
  <2> DEFINE z == <<b, c, b>>
  <2>1. Spaced(c)[2] = z /\ Ending(c)[2] = z
    BY DEF Spaced, Ending, b
  <2>2. Len(z) = 3 /\ z[1] = b /\ z[3] = b
    OBVIOUS
  <2> HIDE DEF z
  <2>3. Len(z) # 0 /\ z[Len(z)] = b
    BY <2>2
  <2> QED BY <2>1, <2>2, <2>3 DEF RowEdges, EdgesKept, b
<1>4. ASSUME NEW s \in Seq(S) PROVE RowEdges(Clitic(s))
  <2> DEFINE z == Bl \o s
  <2>1. Clitic(s)[1] = s /\ Clitic(s)[2] = z
    BY DEF Clitic, b
  <2> HIDE DEF Bl
  <2>2. Len(z) = 1 + Len(s) /\ Len(s) \in Nat /\ z[1] = b /\ (Len(s) > 0 => z[Len(z)] = s[Len(s)])
    <3>1. Ends(z, Bl, s)
      BY <1>2, Edges
    <3> HIDE DEF z
    <3> QED BY <1>2, <3>1 DEF Ends
  <2>3. Len(s) = 0 => z[Len(z)] = b
    BY <2>2
  <2> HIDE DEF z
  <2>4. Len(z) # 0
    BY <2>2
  <2>5. s[Len(s)] = b => z[Len(z)] = b
    BY <2>2, <2>3
  <2> QED BY <2>1, <2>2, <2>4, <2>5 DEF RowEdges, EdgesKept, b
<1>5. ASSUME NEW s \in Seq(S), Len(s) > 0 PROVE RowEdges(Abbreviation(s))
  <2> DEFINE E == <<b, d>>
             x == s \o E
             z == s \o D
  <2>1. Abbreviation(s)[1] = x /\ Abbreviation(s)[2] = z
    BY DEF Abbreviation, b, d
  <2>2. E \in Seq(S) /\ Len(E) = 2 /\ E[2] = d
    BY <1>1, Tuples
  <2> HIDE DEF E, D
  <2>3. Len(z) = Len(s) + 1 /\ z[1] = s[1] /\ Len(s) \in Nat
    <3>1. Ends(z, s, D)
      BY <1>2, Edges
    <3> HIDE DEF z
    <3> QED BY <1>2, <1>5, <3>1 DEF Ends
  <2>4. x[1] = s[1] /\ x[Len(x)] = E[Len(E)]
    <3>1. Ends(x, s, E)
      BY <2>2, Edges
    <3> HIDE DEF x
    <3>2. Len(E) > 0
      BY <2>2
    <3> QED BY <1>5, <3>1, <3>2 DEF Ends
  <2> HIDE DEF x, z
  <2>5. Len(z) # 0
    BY <2>3
  <2>6. x[Len(x)] # b
    BY <1>1, <2>2, <2>4
  <2> QED BY <2>1, <2>3, <2>4, <2>5, <2>6 DEF RowEdges, EdgesKept, b
<1>6. ASSUME NEW s \in Seq(S), NEW t \in Seq(S) PROVE RowEdges(Contraction(s, t))
  <2> DEFINE x == Bl \o s
             z == x \o Bl
             w == z \o t
             y == w \o Bl
  <2>1. Contraction(s, t)[2] = y
    BY DEF Contraction, b
  <2> HIDE DEF Bl
  <2>2. x \in Seq(S) /\ Len(x) = 1 + Len(s) /\ Len(s) \in Nat /\ x[1] = b
    <3>1. x \in Seq(S) /\ Ends(x, Bl, s)
      BY <1>2, Edges
    <3> HIDE DEF x
    <3> QED BY <1>2, <3>1 DEF Ends
  <2> HIDE DEF x
  <2>3. Len(x) > 0
    BY <2>2
  <2>4. z \in Seq(S) /\ Len(z) = Len(x) + 1 /\ z[1] = x[1]
    <3>1. z \in Seq(S) /\ Ends(z, x, Bl)
      BY <1>2, <2>2, Edges
    <3> HIDE DEF z
    <3> QED BY <1>2, <2>3, <3>1 DEF Ends
  <2> HIDE DEF z
  <2>5. Len(z) > 0
    BY <2>2, <2>4
  <2>6. w \in Seq(S) /\ Len(w) = Len(z) + Len(t) /\ w[1] = z[1] /\ Len(t) \in Nat
    <3>1. w \in Seq(S) /\ Ends(w, z, t)
      BY <2>4, Edges
    <3> HIDE DEF w
    <3> QED BY <2>5, <3>1 DEF Ends
  <2> HIDE DEF w
  <2>7. Len(w) > 0
    BY <2>2, <2>4, <2>6
  <2>8. Len(y) = Len(w) + 1 /\ y[1] = w[1] /\ y[Len(y)] = b
    <3>1. Ends(y, w, Bl)
      BY <1>2, <2>6, Edges
    <3> HIDE DEF y
    <3> QED BY <1>2, <2>7, <3>1 DEF Ends
  <2> HIDE DEF y
  <2>9. Len(y) # 0
    BY <2>7, <2>8
  <2> QED BY <2>1, <2>2, <2>4, <2>6, <2>8, <2>9 DEF RowEdges, EdgesKept, b
<1> QED BY <1>3, <1>4, <1>5, <1>6

(* So does every row.                                                      *)
LEMMA RowsEdges == \A r \in 1..Rows : RowEdges(token_list[r])
<1> DEFINE S == Signs
           R(r) == RowEdges(token_list[r])
<1>1. Spacing(S)
  BY DEF Spacing, Signs
<1>2. \A c \in {"\"", ",", ";", ":", "[", "]", "<", ">", "?", "!", ".", ")"} :
        RowEdges(Spaced(c)) /\ RowEdges(Ending(c))
  BY <1>1, EdgesOfShapes DEF Signs
<1>3. /\ R(1) /\ R(2) /\ R(3) /\ R(4) /\ R(5) /\ R(6) /\ R(7)
      /\ R(8) /\ R(9) /\ R(11) /\ R(13) /\ R(14)
  <2>1. /\ token_list[1] = Spaced("\"") /\ token_list[2] = Spaced(",") /\ token_list[3] = Spaced(";")
        /\ token_list[4] = Spaced(":") /\ token_list[5] = Ending("?") /\ token_list[6] = Ending("!")
        /\ token_list[7] = Ending(".") /\ token_list[8] = Spaced("[") /\ token_list[9] = Spaced("]")
        /\ token_list[11] = Ending(")") /\ token_list[13] = Spaced("<") /\ token_list[14] = Spaced(">")
    BY DEF token_list
  <2> QED BY <1>2, <2>1
<1>4. {"\"", ",", ";", ":", "?", "!", ".", "[", "]", "(", ")", "<", ">", "-", "'",
          "s", "n", "t", "c", "a", "o", "V", "v", " "} \subseteq S
  BY DEF Signs
<1> DEFINE b == " "
<1>5. R(10) /\ R(15)
  <2> DEFINE u == "("
             v == "-"
             x == <<b, u>>
             z == <<b, u, b>>
             q == <<v, v>>
             y == <<b, v, v, b>>
  <2>1. token_list[10][1] = x /\ token_list[10][2] = z /\ token_list[15][1] = q /\ token_list[15][2] = y
    BY DEF token_list
  <2> HIDE DEF b, u, v
  <2>2. Len(z) = 3 /\ z[1] = b /\ z[3] = b /\ Len(y) = 4 /\ y[1] = b /\ y[4] = b
    OBVIOUS
  <2> HIDE DEF x, y, z, q
  <2>3. Len(z) # 0 /\ z[Len(z)] = b /\ Len(y) # 0 /\ y[Len(y)] = b
    BY <2>2
  <2> QED BY <2>1, <2>2, <2>3 DEF RowEdges, EdgesKept, b
<1>6. R(19)
  <2> DEFINE d == "."
             x == <<d, d, b, d>>
             z == <<b, d, d, d>>
  <2>1. token_list[19][1] = x /\ token_list[19][2] = z
    BY DEF token_list
  <2>2. b # d
    OBVIOUS
  <2> HIDE DEF b, d
  <2>3. Len(z) = 4 /\ z[1] = b /\ Len(x) = 4 /\ x[4] = d
    OBVIOUS
  <2> HIDE DEF x, z
  <2>4. Len(z) # 0 /\ x[Len(x)] # b
    BY <2>2, <2>3
  <2> QED BY <2>1, <2>3, <2>4 DEF RowEdges, EdgesKept, b
<1>7. R(12) /\ R(16) /\ R(17)
  <2>1. /\ token_list[12] = Clitic(<<")", ".">>) /\ token_list[16] = Clitic(<<"'", "s", " ">>)
        /\ token_list[17] = Clitic(<<"n", "'", "t", " ">>)
    BY DEF token_list
  <2>2. <<")", ".">> \in Seq(S) /\ <<"'", "s", " ">> \in Seq(S) /\ <<"n", "'", "t", " ">> \in Seq(S)
    BY <1>4, Tuples
  <2> QED BY <1>1, <2>1, <2>2, EdgesOfShapes
<1>8. R(18)
  <2>1. token_list[18] = Contraction(<<"c", "a", "n">>, <<"n", "o", "t">>)
    BY DEF token_list
  <2>2. <<"c", "a", "n">> \in Seq(S) /\ <<"n", "o", "t">> \in Seq(S)
    <3>1. {"c", "a", "n", "o", "t"} \subseteq S
      BY <1>4
    <3> HIDE DEF S
    <3> QED BY <3>1, Tuples
  <2> QED BY <1>1, <2>1, <2>2, EdgesOfShapes
<1>9. R(20) /\ R(21)
  <2>1. token_list[20] = Abbreviation(<<"V", "a">>) /\ token_list[21] = Abbreviation(<<"v">>)
    BY DEF token_list
  <2>2. <<"V", "a">> \in Seq(S) /\ <<"v">> \in Seq(S)
    <3>1. {"V", "a", "v"} \subseteq S
      BY <1>4
    <3> HIDE DEF S
    <3> QED BY <3>1, Tuples
  <2>3. Len(<<"V", "a">>) > 0 /\ Len(<<"v">>) > 0
    OBVIOUS
  <2> QED BY <1>1, <2>1, <2>2, <2>3, EdgesOfShapes
<1> HIDE DEF R
<1> SUFFICES ASSUME NEW r \in 1..Rows PROVE R(r)
  BY DEF R
<1>10. \/ r \in {1, 2, 3, 4, 5, 6, 7} \/ r \in {8, 9, 10, 11, 12, 13, 14} \/ r \in {15, 16, 17, 18, 19, 20, 21}
  BY DEF Rows
<1> QED BY <1>3, <1>5, <1>6, <1>7, <1>8, <1>9, <1>10

(* A stretch of s without separators, at most up to its k-th character.    *)
Stretch(w, s, seps, a, b) == w = SubSeq(s, a, b) /\ \A l \in a..b : s[l] \notin seps

StretchIn(w, s, seps, k) == \E a \in 1..k, b \in 1..k : a <= b /\ Stretch(w, s, seps, a, b)

(* Tokens are such stretches, and the last grows with the text.            *)
TokensSoFar(ts, s, seps, k) ==
  /\ \A i \in 1..Len(ts) : StretchIn(ts[i], s, seps, k)
  /\ k > 0 /\ s[k] \notin seps => Len(ts) > 0 /\ \E a \in 1..k : Stretch(ts[Len(ts)], s, seps, a, k)

(* A part of one character.                                                *)
LEMMA Letter ==
  ASSUME NEW S, NEW s \in Seq(S), NEW k \in 1..Len(s)
  PROVE  SubSeq(s, k, k) = <<s[k]>>
<1>1. k \in 1..Len(s) /\ k \in k..Len(s) /\ k - 1 < k /\ k - 1 \in Int /\ k \in Int
  BY LenProperties
<1>2. SubSeq(s, k, k) = SubSeq(s, k, k - 1) \o <<s[k]>>
  BY <1>1, SubSeqRecursiveSecond
<1>3. SubSeq(s, k, k - 1) = <<>>
  BY <1>1, SubSeqEmpty
<1>4. <<s[k]>> \in Seq(S)
  BY ElementOfSeq, Tuples
<1> QED BY <1>2, <1>3, <1>4, ConcatEmptySeq

(* A part and the character after it.                                      *)
LEMMA OneMoreLetter ==
  ASSUME NEW S, NEW s \in Seq(S), NEW k \in 1..Len(s), NEW a \in 1..(k - 1)
  PROVE  SubSeq(s, a, k) = Append(SubSeq(s, a, k - 1), s[k])
<1>1. a \in 1..Len(s) /\ k \in a..Len(s) /\ a \in Int /\ k - 1 \in Int /\ Len(s) \in Nat
  BY LenProperties
<1>2. SubSeq(s, a, k) = SubSeq(s, a, k - 1) \o <<s[k]>>
  BY <1>1, SubSeqRecursiveSecond
<1>3. \A i \in a..(k - 1) : s[i] \in S
  BY <1>1, ElementOfSeq
<1>4. SubSeq(s, a, k - 1) \in Seq(S) /\ s[k] \in S
  BY <1>1, <1>3, SubSeqProperties, ElementOfSeq
<1> QED BY <1>2, <1>4, AppendIsConcat

(* One more character makes the last token longer or starts one.           *)
LEMMA TokensGrow ==
  ASSUME NEW S, NEW s \in Seq(S), NEW seps, NEW k \in 1..Len(s), NEW ts \in Tokened(S),
         TokensSoFar(ts, s, seps, k - 1)
  PROVE  TokensSoFar(NextTokens(ts, s, seps, k), s, seps, k)
<1> DEFINE us == NextTokens(ts, s, seps, k)
           N == Seq(S) \ {<<>>}
           c == s[k]
<1>1. k \in Int /\ k >= 1 /\ k - 1 \in Nat
  OBVIOUS
<1>2. \A i \in 1..Len(ts) : StretchIn(ts[i], s, seps, k)
  <2>1. \A a \in 1..(k - 1) : a \in 1..k
    BY <1>1
  <2> QED BY <2>1 DEF TokensSoFar, StretchIn
<1>3. ts \in Seq(N) /\ Len(ts) \in Nat
  BY LenProperties DEF Tokened
<1>4. CASE c \in seps
  <2>1. us = ts
    BY <1>4 DEF NextTokens
  <2> QED BY <1>2, <1>4, <2>1 DEF TokensSoFar
<1>5. CASE c \notin seps /\ (k = 1 \/ s[k - 1] \in seps)
  <2> DEFINE e == <<c>>
  <2>1. us = Append(ts, e)
    BY <1>5 DEF NextTokens
  <2>2. c \in S
    BY ElementOfSeq
  <2>3. e \in N
    BY <2>2
  <2>4. Stretch(e, s, seps, k, k)
    <3>1. \A l \in k..k : l = k
      BY <1>1
    <3> QED BY <1>5, <3>1, Letter DEF Stretch
  <2> HIDE DEF e, N
  <2>5. /\ Len(us) = Len(ts) + 1
        /\ \A i \in 1..Len(us) : us[i] = IF i = Len(ts) + 1 THEN e ELSE ts[i]
    <3>1. \A i \in 1..(Len(ts) + 1) : Append(ts, e)[i] = IF i <= Len(ts) THEN ts[i] ELSE e
      BY <1>3, <2>3, AppendProperties
    <3>2. Len(Append(ts, e)) = Len(ts) + 1
      BY <1>3, <2>3, AppendProperties
    <3> HIDE DEF us
    <3> QED BY <1>3, <2>1, <3>1, <3>2
  <2> HIDE DEF us, c
  <2>6. StretchIn(e, s, seps, k)
    <3>1. k \in 1..k /\ k <= k
      BY <1>1
    <3> QED BY <2>4, <3>1 DEF StretchIn
  <2>7. \A i \in 1..Len(us) : StretchIn(us[i], s, seps, k)
    <3>1. \A i \in 1..Len(us) : i = Len(ts) + 1 \/ i \in 1..Len(ts)
      BY <1>3, <2>5
    <3>2. \A i \in 1..Len(ts) : i # Len(ts) + 1
      BY <1>3
    <3> QED BY <1>2, <2>5, <2>6, <3>1, <3>2
  <2>8. Len(us) > 0 /\ us[Len(us)] = e
    <3>1. Len(us) \in 1..Len(us) /\ Len(us) > 0
      BY <1>3, <2>5
    <3> QED BY <2>5, <3>1
  <2>9. k \in 1..k
    BY <1>1
  <2> QED BY <2>4, <2>7, <2>8, <2>9 DEF TokensSoFar, us
<1>6. CASE c \notin seps /\ k # 1 /\ s[k - 1] \notin seps
  <2> DEFINE m == Len(ts)
             e == Append(ts[m], c)
  <2>1. k - 1 > 0 /\ k - 1 \in 1..k
    BY <1>1, <1>6
  <2>2. m > 0
    BY <1>6, <2>1 DEF TokensSoFar
  <2>3. PICK a \in 1..(k - 1) : Stretch(ts[m], s, seps, a, k - 1)
    BY <1>6, <2>1 DEF TokensSoFar
  <2>4. us = [ts EXCEPT ![m] = e]
    <3>1. us = [ts EXCEPT ![m] = Append(@, c)]
      BY <1>6 DEF NextTokens
    <3> QED BY <3>1
  <2>5. Stretch(e, s, seps, a, k)
    <3>1. e = SubSeq(s, a, k)
      BY <2>3, OneMoreLetter DEF Stretch
    <3>2. \A l \in a..k : l = k \/ l \in a..(k - 1)
      BY <1>1
    <3> QED BY <1>6, <2>3, <3>1, <3>2 DEF Stretch
  <2>6. ts \in [1..m -> N]
    BY <1>3, LenProperties
  <2> HIDE DEF e, N
  <2>7. Len(us) = m /\ \A i \in 1..m : us[i] = IF i = m THEN e ELSE ts[i]
    <3>1. us = [i \in 1..m |-> IF i = m THEN e ELSE ts[i]]
      <4> HIDE DEF us, m
      <4> QED BY <2>4, <2>6
    <3>2. m \in Nat
      BY <1>3
    <3> HIDE DEF us, m
    <3> QED BY <3>1, <3>2
  <2> HIDE DEF us, c
  <2>8. a \in 1..k /\ k \in 1..k /\ a <= k
    BY <1>1
  <2>9. StretchIn(e, s, seps, k)
    BY <2>5, <2>8 DEF StretchIn
  <2>10. \A i \in 1..Len(us) : StretchIn(us[i], s, seps, k)
    BY <1>2, <2>7, <2>9
  <2>11. Len(us) > 0 /\ us[Len(us)] = e
    BY <1>3, <2>2, <2>7
  <2> QED BY <2>5, <2>8, <2>10, <2>11 DEF TokensSoFar, us
<1> QED BY <1>4, <1>5, <1>6

(* Each token stands in the text without separators inside it.             *)
LEMMA TokensAreStretches ==
  ASSUME NEW S, NEW s \in Seq(S), NEW seps
  PROVE  TokensSoFar(Tokens(s, seps), s, seps, Len(s))
<1> DEFINE n == Len(s)
<1>1. n \in Nat
  BY LenProperties
<1>2. PICK t \in [0..n -> Tokened(S)] : Splitting(t, s, seps, n) /\ Tokens(s, seps) = t[n]
  BY TokensReached
<1> DEFINE P == {k \in 0..n : TokensSoFar(t[k], s, seps, k)}
<1>3. 0 \in P
  <2>1. Len(t[0]) = 0
    BY <1>2, EmptySeq DEF Splitting
  <2>2. ~(0 > 0) /\ \A i \in 1..0 : FALSE
    OBVIOUS
  <2>3. TokensSoFar(t[0], s, seps, 0)
    BY <2>1, <2>2 DEF TokensSoFar
  <2> QED BY <1>1, <2>3
<1>4. ASSUME NEW k \in 1..n, k - 1 \in P PROVE k \in P
  <2>1. k - 1 \in 0..n /\ k \in 0..n
    BY <1>1
  <2>2. t[k - 1] \in Tokened(S) /\ TokensSoFar(t[k - 1], s, seps, k - 1)
    BY <1>4, <2>1
  <2>3. TokensSoFar(NextTokens(t[k - 1], s, seps, k), s, seps, k)
    BY <2>2, TokensGrow
  <2>4. t[k] = NextTokens(t[k - 1], s, seps, k)
    BY <1>2 DEF Splitting
  <2> QED BY <2>1, <2>3, <2>4
<1>5. n \in P
  <2>1. P \in SUBSET (0..n) /\ n \in 0..n
    BY <1>1
  <2> HIDE DEF P
  <2> QED BY <1>1, <1>3, <1>4, <2>1, AlongLoop
<1> QED BY <1>2, <1>5

(* A word with a character that stands alone has no other.                 *)
LEMMA AloneInWord ==
  ASSUME NEW S, NEW s \in Seq(S), NEW c, NEW b, NEW seps, Alone(s, c, b), b \in seps,
         NEW i \in 1..Len(Tokens(s, seps)), c \in ToSet(Tokens(s, seps)[i])
  PROVE  Len(Tokens(s, seps)[i]) = 1
<1> DEFINE w == Tokens(s, seps)[i]
           n == Len(s)
<1>1. n \in Nat
  BY LenProperties
<1>2. PICK e \in 1..n, f \in 1..n : e <= f /\ Stretch(w, s, seps, e, f)
  BY TokensAreStretches DEF TokensSoFar, StretchIn
<1> HIDE DEF w
<1>3. \A l \in e..f : s[l] \in S
  BY <1>1, ElementOfSeq
<1>4. e \in Int /\ f \in Int
  BY <1>1
<1>5. Len(w) = f - e + 1 /\ w \in Seq(S) /\ \A l \in 1..(f - e + 1) : w[l] = s[e + l - 1]
  BY <1>2, <1>3, <1>4, SubSeqProperties DEF Stretch
<1>6. PICK j \in 1..Len(w) : w[j] = c
  BY <1>5, LenProperties DEF ToSet, w
<1>7. j \in 1..(f - e + 1)
  BY <1>5
<1> DEFINE l == e + j - 1
<1>8. l \in e..f /\ s[l] = c /\ l \in 1..n
  BY <1>1, <1>4, <1>5, <1>6, <1>7
<1>9. e = l
  <2> SUFFICES ASSUME e # l PROVE FALSE
    OBVIOUS
  <2>1. l > 1 /\ l - 1 \in e..f
    BY <1>1, <1>4, <1>8
  <2>2. s[l - 1] = b
    BY <1>8, <2>1 DEF Alone
  <2> QED BY <1>2, <2>1, <2>2 DEF Stretch
<1>10. f = l
  <2> SUFFICES ASSUME f # l PROVE FALSE
    OBVIOUS
  <2>1. l < n /\ l + 1 \in e..f
    BY <1>1, <1>4, <1>8
  <2>2. s[l + 1] = b
    BY <1>8, <2>1 DEF Alone
  <2> QED BY <1>2, <2>1, <2>2 DEF Stretch
<1> QED BY <1>4, <1>5, <1>9, <1>10 DEF w

(* After all rows, every separator stands alone.                           *)
LEMMA SeparatorsAlone ==
  ASSUME NEW S, NEW s \in Seq(S), NEW c \in Separators
  PROVE  Alone(Tokenizer(s), c, " ")
<1> DEFINE T == S \union Signs
           A == Retokenized(s)
           q == RowOfSign[c]
           p(r) == token_list[r][1]
           to(r) == token_list[r][2]
           b == " "
<1>1. s \in Seq(T) /\ Signs \subseteq T
  OBVIOUS
<1>2. b # c /\ b \in T /\ c \in T
  BY DEF Separators, Signs
<1> HIDE DEF T
<1>3. /\ A \in [0..Rows -> Seq(T)]
      /\ \A r \in 1..Rows : A[r] = replace(A[r - 1], p(r), to(r))
  BY <1>1, TokenizerType
<1>4. q \in 1..Rows /\ q # 0 /\ token_list[q] = Spaced(c) /\ Rows \in Nat
  BY SignsOfRows DEF SeparatorRows, Rows
<1>5. q = RowOfSign[c]
  OBVIOUS
<1> HIDE DEF q, b
<1>6. ASSUME NEW r \in 1..Rows
      PROVE  p(r) \in Seq(T) /\ Len(p(r)) \in Nat \ {0} /\ to(r) \in Seq(T) /\ EdgesKept(p(r), to(r))
  <2>1. RowIn(token_list[r], T)
    BY <1>1, TableRows
  <2>2. p(r) \in Seq(T) /\ Len(p(r)) # 0 /\ to(r) \in Seq(T)
    BY <2>1 DEF RowIn, RowOf
  <2>3. EdgesKept(p(r), to(r))
    BY RowsEdges DEF RowEdges
  <2> HIDE DEF p
  <2> QED BY <2>2, <2>3, LenProperties
<1>7. ASSUME NEW r \in 1..Rows, r # q PROVE Without(p(r), c) /\ Without(to(r), c)
  <2>1. RowIn(token_list[r], Signs \ {c})
    BY <1>7, <1>5, RowsApart
  <2>2. p(r) \in Seq(Signs \ {c}) /\ to(r) \in Seq(Signs \ {c})
    BY <2>1 DEF RowIn, RowOf
  <2> HIDE DEF p, to
  <2> QED BY <2>2, ElementOfSeq DEF Without
<1> DEFINE P == {r \in 0..Rows : r >= q => Alone(A[r], c, b)}
<1>8. 0 \in P
  BY <1>4
<1>9. ASSUME NEW r \in 1..Rows, r - 1 \in P PROVE r \in P
  <2>1. r - 1 \in 0..Rows /\ r \in 0..Rows /\ A[r - 1] \in Seq(T)
    <3> HIDE DEF P, A, p, to
    <3>1. r - 1 \in 0..Rows /\ r \in 0..Rows
      BY <1>4
    <3> QED BY <1>3, <3>1
  <2>2. CASE r < q
    BY <1>4, <2>1, <2>2
  <2>3. CASE r = q
    <3>1. p(r) = <<c>> /\ to(r) = <<b, c, b>>
      <4>1. Spaced(c) = <<<<c>>, <<b, c, b>>>>
        BY DEF Spaced, b
      <4> QED BY <1>4, <2>3, <4>1
    <3>2. Alone(replace(A[r - 1], <<c>>, <<b, c, b>>), c, b)
      BY <1>2, <2>1, SetApart
    <3>3. Alone(A[r], c, b)
      BY <1>3, <3>1, <3>2
    <3> QED BY <2>1, <3>3
  <2>4. CASE r > q
    <3>1. Alone(A[r - 1], c, b)
      BY <1>4, <1>9, <2>1, <2>4
    <3> DEFINE x == A[r - 1]
               u == p(r)
               v == to(r)
    <3>2. u \in Seq(T) /\ Len(u) \in Nat \ {0} /\ v \in Seq(T) /\ EdgesKept(u, v) /\ x \in Seq(T)
      BY <1>6, <2>1
    <3>3. Without(u, c) /\ Without(v, c)
      BY <1>4, <1>7, <2>4
    <3>4. A[r] = replace(x, u, v)
      BY <1>3
    <3> HIDE DEF x, u, v
    <3>5. Len(v) # 0 /\ (u[1] = b => v[1] = b) /\ (u[Len(u)] = b => v[Len(v)] = b)
      BY <3>2 DEF EdgesKept, b
    <3>6. Alone(x, c, b)
      BY <3>1 DEF x
    <3>7. Alone(replace(x, u, v), c, b)
      BY <1>2, <3>2, <3>3, <3>5, <3>6, AloneKept
    <3>8. Alone(A[r], c, b)
      BY <3>4, <3>7
    <3> QED BY <2>1, <3>8
  <2> QED BY <1>4, <2>2, <2>3, <2>4
<1>10. Rows \in P
  <2>1. P \in SUBSET (0..Rows) /\ Rows \in 0..Rows
    BY <1>4
  <2> HIDE DEF P, Rows
  <2> QED BY <1>4, <1>8, <1>9, <2>1, AlongLoop
<1>11. Rows >= q
  BY <1>4
<1>12. Tokenizer(s) = A[Rows]
  BY TableRows DEF Tokenizer
<1> QED BY <1>10, <1>11, <1>12 DEF b

(* The rows change spaces only.                                            *)
LEMMA RetokenizedKeeps ==
  ASSUME NEW S, Signs \subseteq S, NEW s \in Seq(S)
  PROVE  Tokenizer(s) \in Seq(S) /\ SameWords(Tokenizer(s), s)
<1> DEFINE A == Retokenized(s)
           p(r) == token_list[r][1]
           to(r) == token_list[r][2]
<1>1. /\ A \in [0..Rows -> Seq(S)] /\ A[0] = s
      /\ \A r \in 1..Rows : A[r] = replace(A[r - 1], p(r), to(r))
  BY TokenizerType
<1>2. Len(token_list) = Rows /\ Rows \in Nat
  <2>1. Len(token_list) = Rows
    BY TableRows
  <2> QED BY <2>1 DEF Rows
<1>3. Tokenizer(s) = A[Rows]
  BY <1>2 DEF Tokenizer
<1>4. ASSUME NEW r \in 1..Rows
      PROVE  p(r) \in Seq(S) /\ Len(p(r)) \in Nat \ {0} /\ to(r) \in Seq(S) /\ A[r - 1] \in Seq(S)
  <2>1. RowIn(token_list[r], S)
    BY TableRows
  <2>2. p(r) \in Seq(S) /\ Len(p(r)) # 0 /\ to(r) \in Seq(S)
    BY <2>1 DEF RowIn, RowOf
  <2>3. r - 1 \in 0..Rows
    BY <1>2
  <2>4. A[r - 1] \in Seq(S)
    BY <1>1, <2>3
  <2> HIDE DEF p
  <2> QED BY <2>2, <2>4, LenProperties
<1> HIDE DEF A
<1> DEFINE P == {r \in 0..Rows : SameWords(A[r], s)}
<1>5. 0 \in P
  BY <1>1, <1>2 DEF SameWords
<1>6. ASSUME NEW r \in 1..Rows, r - 1 \in P PROVE r \in P
  <2>1. SameWords(p(r), to(r))
    BY RowsKeep DEF RowKeeps
  <2>2. SameWords(replace(A[r - 1], p(r), to(r)), A[r - 1])
    <3> HIDE DEF p, to, P
    <3> QED BY <1>4, <2>1, ReplaceKeeps
  <2>3. SameWords(A[r], s)
    BY <1>1, <1>6, <2>2 DEF SameWords
  <2> QED BY <1>2, <2>3
<1>7. Rows \in P
  <2>1. P \in SUBSET (0..Rows) /\ Rows \in 0..Rows
    BY <1>2
  <2> HIDE DEF P, Rows
  <2> QED BY <1>2, <1>5, <1>6, <2>1, AlongLoop
<1>8. Rows \in 0..Rows
  BY <1>2
<1> QED BY <1>1, <1>3, <1>7, <1>8

(* Each row allocates what it writes, the words lose and gain spaces only,  *)
(* and separators become words of their own: TokenizerSeparates.            *)
THEOREM TokenizerHolds == TextSpec => []TokenizerSeparates
<1>1. IsText => TokenizerSeparates
  <2> SUFFICES ASSUME IsText PROVE TokenizerSeparates
    OBVIOUS
  <2> DEFINE T == Alphabet \union Signs
             A == Retokenized(text)
             p(r) == token_list[r][1]
             to(r) == token_list[r][2]
  <2>1. text \in Seq(T) /\ Signs \subseteq T
    BY DEF IsText
  <2> HIDE DEF T
  <2>2. /\ A \in [0..Rows -> Seq(T)] /\ A[0] = text
        /\ \A r \in 1..Rows : A[r] = replace(A[r - 1], p(r), to(r))
    BY <2>1, TokenizerType
  <2>3. DOMAIN token_list = 1..Rows /\ Len(token_list) = Rows /\ Rows \in Nat
    <3>1. DOMAIN token_list = 1..Rows /\ Len(token_list) = Rows
      BY <2>1, TableRows
    <3> QED BY <3>1 DEF Rows
  <2>4. ASSUME NEW r \in 1..Rows
        PROVE  p(r) \in Seq(T) /\ Len(p(r)) \in Nat \ {0} /\ to(r) \in Seq(T) /\ A[r - 1] \in Seq(T)
    <3>1. RowIn(token_list[r], T)
      BY <2>1, TableRows
    <3>2. p(r) \in Seq(T) /\ Len(p(r)) # 0 /\ to(r) \in Seq(T)
      BY <3>1 DEF RowIn, RowOf
    <3>3. r - 1 \in 0..Rows
      BY <2>3
    <3>4. A[r - 1] \in Seq(T)
      BY <2>2, <3>3
    <3> HIDE DEF p
    <3> QED BY <3>2, <3>4, LenProperties
  <2> HIDE DEF A
  <2>5. \A r \in DOMAIN token_list :
          Len(A[r]) + 1 = Allocated(A[r - 1], token_list[r][1], token_list[r][2])
    <3> SUFFICES ASSUME NEW r \in 1..Rows
                 PROVE  Len(A[r]) + 1 = Allocated(A[r - 1], p(r), to(r))
      BY <2>3
    <3> DEFINE x == A[r - 1]
               u == p(r)
               v == to(r)
    <3>1. u \in Seq(T) /\ Len(u) \in Nat \ {0} /\ v \in Seq(T) /\ x \in Seq(T) /\ A[r] = replace(x, u, v)
      BY <2>2, <2>4
    <3> HIDE DEF x, u, v
    <3>2. Len(replace(x, u, v)) + 1 = Allocated(x, u, v)
      BY <3>1, RoomForRow
    <3> QED BY <3>1, <3>2 DEF x, u, v
  <2>6. Tokenizer(text) \in Seq(T) /\ SameWords(Tokenizer(text), text)
    BY <2>1, RetokenizedKeeps
  <2>7. Unspaced(Tokenizer(text)) = Unspaced(text)
    BY <2>6 DEF SameWords
  <2>8. ASSUME NEW i \in DOMAIN Words, NEW c \in Separators, c \in ToSet(Words[i])
        PROVE  Len(Words[i]) = 1
    <3> DEFINE s == Tokenizer(text)
    <3>1. Words = Tokens(s, Blank)
      BY DEF Words, perl_split
    <3>2. Alone(s, c, " ") /\ " " \in Blank
      BY <2>1, SeparatorsAlone DEF Blank
    <3> HIDE DEF s
    <3>3. Tokens(s, Blank) \in Seq(Seq(T) \ {<<>>})
      BY <2>6, TokensCounted DEF Tokened, s
    <3>4. DOMAIN Words = 1..Len(Words)
      BY <3>1, <3>3, LenProperties
    <3>5. i \in 1..Len(Tokens(s, Blank)) /\ c \in ToSet(Tokens(s, Blank)[i]) /\ s \in Seq(T)
      BY <2>6, <2>8, <3>1, <3>4 DEF s
    <3> QED BY <3>1, <3>2, <3>5, AloneInWord
  <2> QED BY <2>5, <2>7, <2>8 DEF TokenizerSeparates, Unspaced, Separators, A
<1> QED BY <1>1, TextTyped, PTL

-----------------------------------------------------------------------------
(* The lines the tagger prints, taken apart                                *)

(* One more character of a text.                                           *)
LEMMA TokensAppend ==
  ASSUME NEW S, NEW s \in Seq(S), NEW c \in S, NEW seps
  PROVE  Tokens(Append(s, c), seps) = NextTokens(Tokens(s, seps), Append(s, c), seps, Len(s) + 1)
<1> DEFINE n == Len(s)
           z == Append(s, c)
           m == n + 1
<1>1. n \in Nat
  BY LenProperties
<1>2. z \in Seq(S) /\ Len(z) = m /\ \A i \in 1..n : z[i] = s[i]
  BY AppendProperties
<1> HIDE DEF z, m
<1>3. PICK t \in [0..n -> Tokened(S)] : Splitting(t, s, seps, n) /\ Tokens(s, seps) = t[n]
  BY TokensReached DEF n
<1>4. PICK u \in [0..m -> Tokened(S)] : Splitting(u, z, seps, m) /\ Tokens(z, seps) = u[m]
  BY <1>2, TokensReached
<1> DEFINE P == {k \in 0..n : u[k] = t[k]}
<1>5. 0 \in P
  BY <1>1, <1>3, <1>4 DEF Splitting
<1>6. ASSUME NEW k \in 1..n, k - 1 \in P PROVE k \in P
  <2>1. k \in 1..m /\ k \in 0..n /\ (k # 1 => k - 1 \in 1..n)
    BY <1>1 DEF m
  <2>2. u[k] = NextTokens(u[k - 1], z, seps, k) /\ t[k] = NextTokens(t[k - 1], s, seps, k)
    BY <1>3, <1>4, <2>1 DEF Splitting
  <2>3. z[k] = s[k] /\ (k # 1 => z[k - 1] = s[k - 1])
    BY <1>2, <2>1
  <2>4. NextTokens(t[k - 1], z, seps, k) = NextTokens(t[k - 1], s, seps, k)
    BY <2>3 DEF NextTokens
  <2> QED BY <1>6, <2>1, <2>2, <2>4
<1>7. n \in P
  <2>1. P \in SUBSET (0..n) /\ n \in 0..n
    BY <1>1
  <2> HIDE DEF P, n
  <2> QED BY <1>1, <1>5, <1>6, <2>1, AlongLoop
<1>8. m \in 1..m /\ m - 1 = n
  BY <1>1 DEF m
<1>9. u[m] = NextTokens(u[n], z, seps, m)
  BY <1>4, <1>8 DEF Splitting
<1> QED BY <1>3, <1>4, <1>7, <1>9 DEF z, m

(* A place where a token may start, and a token.                           *)
MayStart(z, seps) == z = <<>> \/ z[Len(z)] \in seps
Plain(x, seps) == x # <<>> /\ \A i \in 1..Len(x) : x[i] \notin seps

(* A separator adds no token.                                              *)
LEMMA TokensOfSep ==
  ASSUME NEW S, NEW s \in Seq(S), NEW seps, NEW c \in S, c \in seps
  PROVE  Tokens(Append(s, c), seps) = Tokens(s, seps) /\ MayStart(Append(s, c), seps)
<1>1. Append(s, c)[Len(s) + 1] = c /\ Len(Append(s, c)) = Len(s) + 1
  BY AppendProperties
<1>2. NextTokens(Tokens(s, seps), Append(s, c), seps, Len(s) + 1) = Tokens(s, seps)
  BY <1>1 DEF NextTokens
<1> QED BY <1>1, <1>2, TokensAppend DEF MayStart

(* A list whose last member gets another value.                            *)
LEMMA LastReplaced ==
  ASSUME NEW W, NEW q \in Seq(W), NEW y \in W, NEW z \in W
  PROVE  [Append(q, y) EXCEPT ![Len(Append(q, y))] = z] = Append(q, z) /\ Append(q, y)[Len(Append(q, y))] = y
<1> DEFINE a == Append(q, y)
           b == Append(q, z)
           m == Len(q) + 1
           e == [a EXCEPT ![m] = z]
<1>1. /\ a \in Seq(W) /\ Len(a) = m /\ \A i \in 1..m : a[i] = IF i <= Len(q) THEN q[i] ELSE y
      /\ b \in Seq(W) /\ Len(b) = m /\ \A i \in 1..m : b[i] = IF i <= Len(q) THEN q[i] ELSE z
  BY AppendProperties
<1>2. Len(q) \in Nat /\ m \in 1..m /\ \A i \in 1..m : i <= Len(q) <=> i # m
  BY LenProperties
<1> HIDE DEF a, b, m
<1>3. e \in Seq(W) /\ Len(e) = m /\ \A i \in 1..m : e[i] = IF i = m THEN z ELSE a[i]
  BY <1>1, <1>2, ExceptSeq
<1> HIDE DEF e
<1>4. \A i \in 1..m : e[i] = b[i]
  BY <1>1, <1>2, <1>3
<1>5. e = b
  BY <1>1, <1>3, <1>4, SeqEqual
<1>6. a[m] = y
  BY <1>1, <1>2
<1> QED BY <1>1, <1>5, <1>6 DEF a, b, e

(* A stretch without separators, where a token may start, is one.          *)
LEMMA TokensOfPart ==
  ASSUME NEW S, NEW z \in Seq(S), NEW x \in Seq(S), NEW seps, MayStart(z, seps), Plain(x, seps)
  PROVE  Tokens(z \o x, seps) = Append(Tokens(z, seps), x)
<1> DEFINE n == Len(x)
           p(k) == SubSeq(x, 1, k)
           Q == Tokens(z, seps)
           W == Seq(S) \ {<<>>}
           P == {k \in 0..n : k = 0 \/ Tokens(z \o p(k), seps) = Append(Q, p(k))}
<1>1. n \in Nat \ {0} /\ Len(z) \in Nat
  BY LenProperties, EmptySeq DEF Plain
<1>2. Q \in Seq(W)
  BY TokensCounted DEF Tokened
<1>3. ASSUME NEW k \in 1..n PROVE p(k) \in Seq(S) /\ Len(p(k)) = k
  <2>1. \A i \in 1..k : x[i] \in S
    BY <1>1, ElementOfSeq
  <2>2. 1 \in Int /\ k \in Int /\ 1 <= k
    OBVIOUS
  <2> QED BY <2>1, <2>2, SubSeqProperties
<1> HIDE DEF Q
<1>4. 1 \in P
  <2> DEFINE c == x[1]
             y == <<c>>
  <2>1. 1 \in 1..n /\ c \in S /\ c \notin seps
    <3>1. 1 \in 1..n
      BY <1>1
    <3> QED BY <3>1, ElementOfSeq DEF Plain
  <2>2. p(1) = y
    BY <2>1, Letter
  <2> HIDE DEF c
  <2>3. z \o y = Append(z, c)
    BY <2>1, AppendIsConcat
  <2> DEFINE a == Append(z, c)
  <2>4. Tokens(a, seps) = NextTokens(Q, a, seps, Len(z) + 1)
    BY <2>1, TokensAppend DEF Q
  <2>5. a[Len(z) + 1] = c /\ (Len(z) # 0 => a[Len(z)] = z[Len(z)])
    BY <1>1, <2>1, AppendProperties
  <2>6. Len(z) + 1 = 1 \/ a[Len(z) + 1 - 1] \in seps
    <3>1. Len(z) + 1 - 1 = Len(z)
      BY <1>1
    <3>2. CASE z = <<>>
      <4>1. Len(z) = 0
        BY <3>2, EmptySeq
      <4> QED BY <4>1
    <3>3. CASE z # <<>>
      <4>1. Len(z) # 0 /\ z[Len(z)] \in seps
        BY <3>3, EmptySeq DEF MayStart
      <4> QED BY <2>5, <3>1, <4>1
    <3> QED BY <3>2, <3>3
  <2> HIDE DEF a
  <2>7. NextTokens(Q, a, seps, Len(z) + 1) = Append(Q, y)
    BY <2>1, <2>5, <2>6 DEF NextTokens
  <2>8. Tokens(z \o p(1), seps) = Append(Q, p(1))
    BY <2>2, <2>3, <2>4, <2>7 DEF a
  <2> QED BY <1>1, <2>8
<1>5. ASSUME NEW k \in 1..n, k # 1, k - 1 \in P PROVE k \in P
  <2> DEFINE c == x[k]
             y == p(k - 1)
             zy == z \o y
             a == Append(zy, c)
  <2>1. k - 1 \in 1..n /\ k - 1 # 0 /\ 1 \in 1..(k - 1) /\ k \in 0..n
    BY <1>1, <1>5
  <2>2. c \in S /\ c \notin seps
    BY ElementOfSeq DEF Plain
  <2>3. y \in Seq(S) /\ Len(y) = k - 1
    BY <1>3, <2>1
  <2>4. x[k - 1] \notin seps
    BY <2>1 DEF Plain
  <2>5. p(k) = Append(y, c)
    BY <2>1, OneMoreLetter
  <2>6. Tokens(zy, seps) = Append(Q, y)
    BY <1>5, <2>1
  <2>7. y[Len(y)] = x[k - 1]
    <3>1. \A i \in 1..(k - 1) : x[i] \in S
      BY <1>1, <2>1, ElementOfSeq
    <3>2. 1 \in Int /\ k - 1 \in Int /\ 1 <= k - 1
      BY <2>1
    <3>3. \A i \in 1..(k - 1 - 1 + 1) : y[i] = x[1 + i - 1]
      BY <3>1, <3>2, SubSeqProperties
    <3>4. k - 1 \in 1..(k - 1 - 1 + 1) /\ 1 + (k - 1) - 1 = k - 1
      BY <2>1
    <3>5. y[k - 1] = x[1 + (k - 1) - 1]
      BY <3>3, <3>4
    <3> HIDE DEF y
    <3> QED BY <2>3, <3>4, <3>5
  <2> HIDE DEF y, c
  <2>8. zy \in Seq(S) /\ Len(zy) = Len(z) + (k - 1) /\ zy[Len(zy)] = y[Len(y)]
    <3>1. /\ zy \in Seq(S) /\ Len(zy) = Len(z) + Len(y)
          /\ \A i \in 1..(Len(z) + Len(y)) : zy[i] = IF i <= Len(z) THEN z[i] ELSE y[i - Len(z)]
      BY <2>3, ConcatProperties
    <3> DEFINE i == Len(z) + (k - 1)
    <3>2. i \in 1..(Len(z) + Len(y)) /\ ~(i <= Len(z)) /\ i - Len(z) = Len(y)
      BY <1>1, <2>1, <2>3
    <3> HIDE DEF i, zy
    <3> QED BY <2>3, <3>1, <3>2 DEF i
  <2> HIDE DEF zy
  <2>9. Tokens(a, seps) = NextTokens(Append(Q, y), a, seps, Len(zy) + 1)
    BY <2>2, <2>6, <2>8, TokensAppend
  <2>10. a[Len(zy) + 1] = c /\ a[Len(zy) + 1 - 1] = y[Len(y)] /\ Len(zy) + 1 # 1
    <3>1. Len(zy) \in Nat /\ Len(zy) # 0 /\ Len(zy) + 1 - 1 = Len(zy)
      BY <1>1, <2>1, <2>8
    <3>2. a[Len(zy) + 1] = c /\ \A i \in 1..Len(zy) : a[i] = zy[i]
      BY <2>2, <2>8, AppendProperties
    <3>3. Len(zy) \in 1..Len(zy)
      BY <3>1
    <3> HIDE DEF a
    <3> QED BY <2>8, <3>1, <3>2, <3>3
  <2> DEFINE v == Append(Q, y)
             w == Append(y, c)
  <2>11. NextTokens(v, a, seps, Len(zy) + 1) = [v EXCEPT ![Len(v)] = Append(@, c)]
    <3> HIDE DEF v, a
    <3> QED BY <2>2, <2>4, <2>7, <2>10 DEF NextTokens
  <2>12. y \in W /\ w \in W
    <3>1. Len(y) # 0 /\ w \in Seq(S) /\ Len(w) = Len(y) + 1 /\ Len(y) \in Nat
      BY <2>1, <2>2, <2>3, AppendProperties
    <3> HIDE DEF w
    <3>2. y # <<>> /\ w # <<>>
      BY <3>1, EmptySeq
    <3> QED BY <2>3, <3>1, <3>2
  <2>13. [v EXCEPT ![Len(v)] = w] = Append(Q, w) /\ v[Len(v)] = y
    <3> HIDE DEF w, W
    <3> QED BY <1>2, <2>12, LastReplaced
  <2>14. [v EXCEPT ![Len(v)] = Append(@, c)] = Append(Q, w)
    <3>1. [v EXCEPT ![Len(v)] = Append(@, c)] = [v EXCEPT ![Len(v)] = Append(v[Len(v)], c)]
      OBVIOUS
    <3>2. Append(v[Len(v)], c) = w
      BY <2>13
    <3> HIDE DEF v, w
    <3> QED BY <2>13, <3>1, <3>2
  <2>15. a = z \o w
    <3>1. Along(z, y, c)
      BY <2>2, <2>3, AppendAlong
    <3> QED BY <3>1 DEF Along, zy
  <2>16. Tokens(z \o w, seps) = Append(Q, w)
    <3> HIDE DEF w, v, a
    <3> QED BY <2>9, <2>11, <2>14, <2>15 DEF v
  <2>17. p(k) = w
    BY <2>5
  <2> HIDE DEF w, p
  <2> QED BY <2>1, <2>16, <2>17
<1>6. n \in P
  <2>1. P \in SUBSET (0..n) /\ n \in 0..n /\ 0 \in P
    BY <1>1
  <2> HIDE DEF P, n
  <2>2. \A k \in 1..n : k - 1 \in P => k \in P
    BY <1>4, <1>5
  <2> QED BY <1>1, <2>1, <2>2, AlongLoop
<1>7. p(n) = x
  BY SubSeqFull
<1> HIDE DEF p
<1> QED BY <1>1, <1>6, <1>7 DEF Q

(* Nothing printed as a tag or as part of a lemma ends a field or a line.  *)
Marks == Blank \union {"\n"}

(* The tables of tags.                                                     *)
LEMMA SilentTags ==
  /\ \A x \in DOMAIN tag_map : tag_map[x] \notin Marks
  /\ \A x \in DOMAIN verb_map : verb_map[x] \notin Marks /\ have_map[x] \notin Marks
<1>1. \A x \in DOMAIN tag_map : tag_map[x] \in {"PP", "PP$", "NP", "NPS", "SENT"}
  BY DEF tag_map
<1>2. \A x \in DOMAIN verb_map : verb_map[x] \in {"VV", "VVD", "VVG", "VVN", "VVP", "VVZ"}
  BY DEF verb_map
<1>3. \A x \in DOMAIN verb_map : have_map[x] \in {"VH", "VHD", "VHG", "VHN", "VHP", "VHZ"}
  BY DEF verb_map, have_map
<1>4. ASSUME NEW x \in Marks
      PROVE  /\ x \notin {"PP", "PP$", "NP", "NPS", "SENT"}
             /\ x \notin {"VV", "VVD", "VVG", "VVN", "VVP", "VVZ"}
             /\ x \notin {"VH", "VHD", "VHG", "VHN", "VHP", "VHZ"}
  <2>1. x = "\t" \/ x = "\n" \/ x = " "
    BY DEF Marks, Blank
  <2> QED BY <2>1
<1> QED BY <1>1, <1>2, <1>3, <1>4

(* Small letters.                                                          *)
LEMMA SmallLetters ==
  /\ Len(Smalls) = 26 /\ Len(Capitals) = 26
  /\ \A i \in 1..26 : Smalls[i] \notin Marks
<1>1. Len(Smalls) = 26 /\ Len(Capitals) = 26
  BY DEF Smalls, Capitals
<1>2. \A i \in 1..26 :
        \/ i \in {1, 2, 3, 4, 5, 6, 7} \/ i \in {8, 9, 10, 11, 12, 13, 14}
        \/ i \in {15, 16, 17, 18, 19, 20} \/ i \in {21, 22, 23, 24, 25, 26}
  OBVIOUS
<1>3. \A i \in {1, 2, 3, 4, 5, 6, 7} : Smalls[i] \in {"a", "b", "c", "d", "e", "f", "g"}
  BY DEF Smalls
<1>4. \A i \in {8, 9, 10, 11, 12, 13, 14} : Smalls[i] \in {"h", "i", "j", "k", "l", "m", "n"}
  BY DEF Smalls
<1>5. \A i \in {15, 16, 17, 18, 19, 20} : Smalls[i] \in {"o", "p", "q", "r", "s", "t"}
  BY DEF Smalls
<1>6. \A i \in {21, 22, 23, 24, 25, 26} : Smalls[i] \in {"u", "v", "w", "x", "y", "z"}
  BY DEF Smalls
<1>7. ASSUME NEW x \in Marks
      PROVE  /\ x \notin {"a", "b", "c", "d", "e", "f", "g"} /\ x \notin {"h", "i", "j", "k", "l", "m", "n"}
             /\ x \notin {"o", "p", "q", "r", "s", "t"} /\ x \notin {"u", "v", "w", "x", "y", "z"}
  <2>1. x = "\t" \/ x = "\n" \/ x = " "
    BY DEF Marks, Blank
  <2> QED BY <2>1
<1> QED BY <1>1, <1>2, <1>3, <1>4, <1>5, <1>6, <1>7

(* Printable: no blank and no line end, and not empty.                        *)
Printable(l) == l # <<>> /\ \A i \in 1..Len(l) : l[i] \notin Marks

(* No character becomes a blank or a line end in lower case.               *)
LEMMA LowerCase ==
  ASSUME NEW c, c \notin Marks
  PROVE  tolower(c) \notin Marks
<1> DEFINE I == {i \in 1..Len(Capitals) : Capitals[i] = c}
<1>1. CASE c \in ToSet(Capitals)
  <2>1. DOMAIN Capitals = 1..Len(Capitals)
    BY DEF Capitals
  <2>2. I # {}
    BY <1>1, <2>1 DEF ToSet
  <2>3. IndexIn(Capitals, c) = Min(I)
    BY <2>2 DEF IndexIn, SelectInSeq
  <2>4. I \in SUBSET Nat
    OBVIOUS
  <2>5. Min(I) \in I
    <3> HIDE DEF I
    <3> QED BY <2>2, <2>4, Least
  <2>6. IndexIn(Capitals, c) \in 1..26
    BY <2>3, <2>5, SmallLetters
  <2>7. tolower(c) = Smalls[IndexIn(Capitals, c)]
    BY <1>1 DEF tolower
  <2> QED BY <2>6, <2>7, SmallLetters
<1>2. CASE c \notin ToSet(Capitals)
  BY <1>2 DEF tolower
<1> QED BY <1>1, <1>2

(* Nor does a word become empty.                                           *)
LEMMA LowerWord ==
  ASSUME NEW S, NEW w \in Seq(S), Printable(w)
  PROVE  Printable(mylc(w)) /\ Len(mylc(w)) = Len(w)
<1>1. DOMAIN w = 1..Len(w) /\ Len(w) \in Nat \ {0}
  BY LenProperties, EmptySeq DEF Printable
<1>2. mylc(w) = [i \in 1..Len(w) |-> tolower(w[i])]
  BY <1>1 DEF mylc
<1> DEFINE n == Len(w)
           m == [i \in 1..n |-> tolower(w[i])]
<1>3. Len(m) = n /\ \A i \in 1..n : m[i] = tolower(w[i])
  BY <1>1
<1>4. m # <<>>
  BY <1>1, <1>3
<1>5. \A i \in 1..n : tolower(w[i]) \notin Marks
  BY LowerCase DEF Printable
<1> HIDE DEF m, n
<1> QED BY <1>2, <1>3, <1>4, <1>5 DEF Printable, m, n

(* A word is printed with a tag and a lemma.                               *)
LineParts(line, word, t, l) ==
  line = Line(word, t, l) /\ t \notin Marks /\ Printable(l) /\ l \in Seq(ToSet(l))

LineFor(line, word) == \E t, l : LineParts(line, word, t, l)

(* The lemmas that are not words are printed as they are.                  *)
LEMMA FixedLemmas ==
  /\ Printable(Unknown) /\ Unknown \in Seq(ToSet(Unknown))
  /\ Printable(<<"h","a","v","e">>) /\ <<"h","a","v","e">> \in Seq(ToSet(<<"h","a","v","e">>))
  /\ Printable(<<"b","e">>) /\ <<"b","e">> \in Seq(ToSet(<<"b","e">>))
<1>1. "<unknown>" \notin Marks /\ "h" \notin Marks /\ "a" \notin Marks /\ "v" \notin Marks /\ "e" \notin Marks
      /\ "b" \notin Marks
  BY DEF Marks, Blank
<1>2. \A i \in 1..4 : i = 1 \/ i = 2 \/ i = 3 \/ i = 4
  OBVIOUS
<1>3. Len(<<"h","a","v","e">>) = 4 /\ Len(<<"b","e">>) = 2 /\ Len(Unknown) = 1
  BY DEF Unknown
<1>4. Printable(Unknown)
  BY <1>1 DEF Printable, Unknown
<1>5. Printable(<<"b","e">>)
  BY <1>1 DEF Printable
<1>6. Printable(<<"h","a","v","e">>)
  <2> DEFINE l == <<"h","a","v","e">>
  <2>1. l # <<>> /\ l[1] = "h" /\ l[2] = "a" /\ l[3] = "v" /\ l[4] = "e"
    OBVIOUS
  <2> HIDE DEF l
  <2> QED BY <1>1, <1>2, <1>3, <2>1 DEF Printable, l
<1> QED BY <1>4, <1>5, <1>6 DEF ToSet, Unknown

(* Each word is printed with a tag and a lemma, unless it has both brackets. *)
LEMMA LineOfWord ==
  ASSUME NEW S, NEW word \in Seq(S), Printable(word), NEW tg, tg \notin Marks,
         ~({"<", ">"} \subseteq ToSet(word))
  PROVE  LineFor(EnhancePennTag(word, tg, Unknown), word)
<1> DEFINE w == mylc(word)
           known == IF Unknown = Unknown /\ tg \notin Inflected THEN w ELSE Unknown
           line == EnhancePennTag(word, tg, Unknown)
           IsIn(l) == Printable(l) /\ l \in Seq(ToSet(l))
<1>1. IsIn(w)
  <2>1. Printable(w) /\ w = [i \in DOMAIN word |-> w[i]]
    BY LowerWord DEF mylc
  <2>2. DOMAIN word = 1..Len(word) /\ Len(word) \in Nat
    BY LenProperties
  <2> HIDE DEF w
  <2>3. \A i \in 1..Len(word) : w[i] \in ToSet(w)
    BY <2>1, <2>2 DEF ToSet
  <2>4. w \in [1..Len(word) -> ToSet(w)]
    BY <2>1, <2>2, <2>3
  <2>5. w \in Seq(ToSet(w))
    BY <2>2, <2>4
  <2> QED BY <2>1, <2>5
<1>2. IsIn(known)
  BY <1>1, FixedLemmas
<1>3. IsIn(<<"h","a","v","e">>) /\ IsIn(<<"b","e">>)
  BY FixedLemmas
<1>4. line = IF tg \in DOMAIN tag_map THEN Line(word, tag_map[tg], known)
             ELSE IF tg \notin DOMAIN verb_map THEN Line(word, tg, known)
             ELSE IF w \in have_verbs THEN Line(word, have_map[tg], <<"h","a","v","e">>)
             ELSE IF w \in be_verbs THEN Line(word, tg, <<"b","e">>)
             ELSE Line(word, verb_map[tg], known)
  BY DEF EnhancePennTag
<1> HIDE DEF line, known, w
<1>5. \E t, l : line = Line(word, t, l) /\ t \notin Marks /\ IsIn(l)
  <2>1. CASE tg \in DOMAIN tag_map
    BY <1>2, <1>4, <2>1, SilentTags
  <2>2. CASE tg \notin DOMAIN tag_map /\ tg \notin DOMAIN verb_map
    BY <1>2, <1>4, <2>2
  <2>3. CASE tg \notin DOMAIN tag_map /\ tg \in DOMAIN verb_map /\ w \in have_verbs
    <3>1. line = Line(word, have_map[tg], <<"h","a","v","e">>)
      BY <1>4, <2>3
    <3> QED BY <1>3, <2>3, <3>1, SilentTags
  <2>4. CASE tg \notin DOMAIN tag_map /\ tg \in DOMAIN verb_map /\ w \notin have_verbs /\ w \in be_verbs
    <3>1. line = Line(word, tg, <<"b","e">>)
      BY <1>4, <2>4
    <3> QED BY <1>3, <3>1
  <2>5. CASE tg \notin DOMAIN tag_map /\ tg \in DOMAIN verb_map /\ w \notin have_verbs /\ w \notin be_verbs
    BY <1>2, <1>4, <2>5, SilentTags
  <2> QED BY <2>1, <2>2, <2>3, <2>4, <2>5
<1> QED BY <1>5 DEF LineFor, LineParts, line

(* No text has no tokens.                                                  *)
LEMMA NoTokens ==
  ASSUME NEW seps
  PROVE  Tokens(<<>>, seps) = <<>>
<1> DEFINE S == {0}
           e == <<>>
<1>1. e \in Seq(S) /\ Len(e) = 0
  BY EmptySeq
<1> HIDE DEF e
<1>2. PICK t \in [0..Len(e) -> Tokened(S)] : Splitting(t, e, seps, Len(e)) /\ Tokens(e, seps) = t[Len(e)]
  BY <1>1, TokensReached
<1> QED BY <1>1, <1>2 DEF Splitting, e

(* Tuples, one member at a time.                                           *)
LEMMA Appended ==
  ASSUME NEW a, NEW b, NEW c
  PROVE  /\ Append(<<>>, a) = <<a>> /\ Append(<<a>>, b) = <<a, b>> /\ Append(<<a, b>>, c) = <<a, b, c>>
         /\ (<<a>> \o <<b>>) \o <<c>> = <<a, b, c>>
<1> DEFINE S == {a, b, c}
           x == <<a>>
           y == <<b>>
           z == <<c>>
           xy == <<a, b>>
           xyz == <<a, b, c>>
           e == <<>>
<1>1. x \in Seq(S) /\ y \in Seq(S) /\ z \in Seq(S) /\ xy \in Seq(S) /\ e \in Seq(S) /\ a \in S /\ b \in S /\ c \in S
  BY Tuples, EmptySeq
<1>2. xy = x \o y /\ xyz = xy \o z
  <2>1. InParts(xy, x, y)
    BY TwoParts
  <2>2. InParts(xyz, xy, z)
    BY ThreeParts
  <2> HIDE DEF x, y, z, xy, xyz
  <2> QED BY <2>1, <2>2 DEF InParts
<1>3. Append(x, b) = x \o y /\ Append(xy, c) = xy \o z /\ Append(e, a) = e \o x
  <2> HIDE DEF S
  <2>1. Append(x, b) = x \o <<b>>
    BY <1>1, AppendIsConcat
  <2>2. Append(xy, c) = xy \o <<c>>
    BY <1>1, AppendIsConcat
  <2>3. Append(e, a) = e \o <<a>>
    BY <1>1, AppendIsConcat
  <2> QED BY <2>1, <2>2, <2>3
<1>4. e \o x = x
  <2> HIDE DEF S, x
  <2> QED BY <1>1, ConcatEmptySeq
<1> HIDE DEF S, x, y, z, xy, xyz, e
<1>5. Append(e, a) = x /\ Append(x, b) = xy /\ Append(xy, c) = xyz /\ (x \o y) \o z = xyz
  BY <1>2, <1>3, <1>4
<1> QED BY <1>5 DEF x, y, z, xy, xyz, e

(* A line without its end.                                                 *)
Row(w, t, l, b) == w \o <<b, t, b>> \o l

(* It is put together part by part.                                        *)
OfParts(r, w, t, l, b) == r = Append(Append(w, b) \o <<t>>, b) \o l

(* The parts of a line without its end.                                    *)
LEMMA RowInParts ==
  ASSUME NEW S, NEW w \in Seq(S), NEW t \in S, NEW l \in Seq(S), NEW b \in S
  PROVE  Row(w, t, l, b) \in Seq(S) /\ OfParts(Row(w, t, l, b), w, t, l, b)
<1> DEFINE x1 == Append(w, b)
           y == <<t>>
           x2 == x1 \o y
           x3 == Append(x2, b)
           x4 == x3 \o l
<1>1. x1 \in Seq(S) /\ y \in Seq(S)
  BY AppendProperties
<1>2. x2 \in Seq(S)
  BY <1>1, ConcatProperties
<1>3. x3 \in Seq(S)
  BY <1>2, AppendProperties
<1>4. x4 \in Seq(S) /\ x4 = Row(w, t, l, b)
  <2>1. x3 = w \o <<b, t, b>>
    <3> DEFINE B1 == <<b>>
               B3 == <<b, t, b>>
    <3>1. B1 \in Seq(S) /\ x1 = w \o B1
      BY AppendIsConcat
    <3>2. x3 = x2 \o B1
      BY <1>2, AppendIsConcat
    <3>3. B1 \o y \in Seq(S)
      BY <1>1, <3>1, ConcatProperties
    <3>4. x2 = w \o (B1 \o y)
      <4>1. x2 = (w \o B1) \o y
        BY <3>1
      <4> HIDE DEF B1, y, x1, x2
      <4> QED BY <1>1, <3>1, <4>1, ConcatAssociative
    <3>5. x2 \o B1 = w \o ((B1 \o y) \o B1)
      <4> DEFINE By == B1 \o y
      <4>1. By \in Seq(S) /\ x2 = w \o By /\ B1 \in Seq(S)
        BY <3>1, <3>3, <3>4
      <4> HIDE DEF By, B1, x2
      <4>2. (w \o By) \o B1 = w \o (By \o B1)
        BY <4>1, ConcatAssociative
      <4> QED BY <4>1, <4>2 DEF By
    <3>6. (B1 \o y) \o B1 = B3
      BY Appended
    <3> HIDE DEF B1, y, x2, x3
    <3> QED BY <3>2, <3>5, <3>6
  <2>2. x4 = Row(w, t, l, b)
    <3> HIDE DEF x3
    <3> QED BY <2>1 DEF Row
  <2> HIDE DEF x3
  <2> QED BY <1>3, <2>2, ConcatProperties
<1> HIDE DEF x4
<1>5. OfParts(x4, w, t, l, b)
  BY DEF OfParts, x4
<1> QED BY <1>4, <1>5

(* Its fields.                                                             *)
LEMMA FieldsOfLine ==
  ASSUME NEW S, NEW w \in Seq(S), NEW t \in S, NEW l \in Seq(S), NEW seps, NEW b \in S, b \in seps,
         Plain(w, seps), Plain(l, seps), t \notin seps
  PROVE  Row(w, t, l, b) \in Seq(S) /\ Tokens(Row(w, t, l, b), seps) = <<w, <<t>>, l>>
<1> DEFINE x1 == Append(w, b)
           y == <<t>>
           x2 == x1 \o y
           x3 == Append(x2, b)
           x4 == x3 \o l
<1>1. x1 \in Seq(S) /\ y \in Seq(S) /\ Plain(y, seps)
  <2>1. x1 \in Seq(S) /\ y \in Seq(S) /\ y # <<>> /\ Len(y) = 1 /\ y[1] = t
    BY AppendProperties
  <2> QED BY <2>1 DEF Plain
<1>2. x2 \in Seq(S)
  BY <1>1, ConcatProperties
<1>3. x3 \in Seq(S)
  BY <1>2, AppendProperties
<1>4. x4 \in Seq(S) /\ x4 = Row(w, t, l, b)
  <2>1. Row(w, t, l, b) \in Seq(S) /\ OfParts(Row(w, t, l, b), w, t, l, b)
    BY RowInParts
  <2> HIDE DEF x4
  <2>2. Row(w, t, l, b) = x4
    BY <2>1 DEF OfParts, x4
  <2> QED BY <2>1, <2>2
<1> DEFINE A0 == <<>>
           A1 == Append(A0, w)
           A2 == Append(A1, y)
           A3 == Append(A2, l)
<1>5. Tokens(w, seps) = A1
  <2>1. A0 \in Seq(S) /\ MayStart(A0, seps) /\ A0 \o w = w /\ Tokens(A0, seps) = A0
    BY EmptySeq, ConcatEmptySeq, NoTokens DEF MayStart
  <2> HIDE DEF A0
  <2>2. Tokens(A0 \o w, seps) = Append(Tokens(A0, seps), w)
    BY <2>1, TokensOfPart
  <2> QED BY <2>1, <2>2
<1> HIDE DEF A1
<1>6. Tokens(x1, seps) = A1 /\ MayStart(x1, seps)
  BY <1>5, TokensOfSep
<1> HIDE DEF x1, y
<1>7. Tokens(x2, seps) = A2
  <2>1. Tokens(x1 \o y, seps) = Append(Tokens(x1, seps), y)
    BY <1>1, <1>6, TokensOfPart
  <2> QED BY <1>6, <2>1
<1> HIDE DEF x2, A2
<1>8. Tokens(x3, seps) = A2 /\ MayStart(x3, seps)
  BY <1>2, <1>7, TokensOfSep
<1> HIDE DEF x3
<1>9. Tokens(x4, seps) = A3
  <2>1. Tokens(x3 \o l, seps) = Append(Tokens(x3, seps), l)
    BY <1>3, <1>8, TokensOfPart
  <2> QED BY <1>8, <2>1
<1> HIDE DEF x4
<1>10. A3 = <<w, y, l>>
  <2>1. Append(A0, w) = <<w>>
    BY Appended
  <2>2. Append(<<w>>, y) = <<w, y>> /\ Append(<<w, y>>, l) = <<w, y, l>>
    BY Appended
  <2> HIDE DEF A0
  <2> QED BY <2>1, <2>2 DEF A1, A2
<1> QED BY <1>4, <1>9, <1>10 DEF y

(* A list of so many members.                                              *)
IsList(c, N, W) == c \in [1..N -> W]

(* A list of texts, flattened.                                             *)
FlatList(h, c, N) ==
  FlattenSeq(c) = h[N] /\ h[1] = c[1] /\ \A i \in 2..N : h[i] = h[i - 1] \o c[i]

(* The texts are appended one by one.                                      *)
LEMMA FlattenReached ==
  ASSUME NEW S, NEW N \in Nat, N # 0, NEW c, IsList(c, N, Seq(S))
  PROVE  \E h : IsList(h, N, Seq(S)) /\ FlatList(h, c, N)
<1> DEFINE Is(h) == h = [i \in 1..Len(c) |-> IF i = 1 THEN c[i] ELSE h[i - 1] \o c[i]]
           h == CHOOSE h : Is(h)
           f == [k \in 1..N |-> [x \in Seq(S) |-> x \o c[k]]]
<1>1. Len(c) = N /\ N \in Nat /\ N # 0 /\ \A k \in 1..N : c[k] \in Seq(S)
  BY DEF IsList
<1>2. FlattenSeq(c) = h[N]
  BY <1>1 DEF FlattenSeq
<1>3. f \in [1..N -> [Seq(S) -> Seq(S)]]
  <2>1. \A k \in 1..N : \A x \in Seq(S) : x \o c[k] \in Seq(S)
    BY <1>1, ConcatProperties
  <2> QED BY <2>1
<1>4. <<>> \in Seq(S)
  BY EmptySeq
<1>5. \A k \in 1..N : \A x \in Seq(S) : f[k][x] = x \o c[k]
  OBVIOUS
<1> HIDE DEF f
<1>6. PICK g : Passes(g, N, Seq(S), <<>>, f)
  BY <1>1, <1>3, <1>4, Loop
<1>7. \A k \in 1..N : g[k - 1] \in Seq(S) /\ g[k] \in Seq(S) /\ g[k] = g[k - 1] \o c[k]
  <2>1. \A k \in 1..N : k - 1 \in 0..N /\ k \in 0..N
    BY <1>1
  <2> QED BY <1>5, <1>6, <2>1 DEF Passes
<1>8. g[1] = c[1]
  <2>1. 1 \in 1..N /\ 1 - 1 = 0
    BY <1>1
  <2>2. g[1] = g[0] \o c[1] /\ g[0] = <<>> /\ c[1] \in Seq(S)
    BY <1>1, <1>6, <1>7, <2>1 DEF Passes
  <2> QED BY <2>2, ConcatEmptySeq
<1> DEFINE d == [k \in 1..N |-> g[k]]
<1>9. Is(d)
  <2>1. \A i \in 1..N : d[i] = IF i = 1 THEN c[i] ELSE d[i - 1] \o c[i]
    <3> SUFFICES ASSUME NEW i \in 1..N PROVE d[i] = IF i = 1 THEN c[i] ELSE d[i - 1] \o c[i]
      OBVIOUS
    <3>1. CASE i = 1
      BY <1>8, <3>1
    <3>2. CASE i # 1
      <4>1. i - 1 \in 1..N
        BY <1>1, <3>2
      <4>2. d[i] = g[i] /\ d[i - 1] = g[i - 1]
        BY <4>1
      <4> QED BY <1>7, <3>2, <4>2
    <3> QED BY <3>1, <3>2
  <2>2. d = [i \in 1..N |-> d[i]]
    OBVIOUS
  <2> HIDE DEF d
  <2> QED BY <1>1, <2>1, <2>2
<1>10. Is(h)
  BY <1>9
<1> HIDE DEF h, d
<1>11. \A i \in 1..N : h[i] = IF i = 1 THEN c[i] ELSE h[i - 1] \o c[i]
  BY <1>1, <1>10
<1>12. DOMAIN h = 1..N /\ h = [i \in DOMAIN h |-> h[i]]
  BY <1>1, <1>10
<1> HIDE DEF Is
<1> DEFINE P == {k \in 0..N : k = 0 \/ h[k] \in Seq(S)}
<1>13. \A k \in 0..N : k \in P
  <2>1. 0 \in P /\ P \in SUBSET (0..N)
    BY <1>1
  <2>2. ASSUME NEW k \in 1..N, k - 1 \in P PROVE k \in P
    <3>1. k \in 0..N
      BY <1>1
    <3>2. CASE k = 1
      BY <1>1, <1>11, <3>1, <3>2
    <3>3. CASE k # 1
      <4>1. k - 1 \in 1..N /\ k - 1 # 0
        BY <1>1, <3>3
      <4>2. h[k - 1] \in Seq(S)
        BY <2>2, <4>1
      <4>3. h[k] = h[k - 1] \o c[k] /\ c[k] \in Seq(S)
        BY <1>1, <1>11, <3>3
      <4>4. h[k] \in Seq(S)
        BY <4>2, <4>3, ConcatProperties
      <4> QED BY <3>1, <4>4
    <3> QED BY <3>2, <3>3
  <2> HIDE DEF P
  <2> QED BY <1>1, <2>1, <2>2, AlongLoop
<1>14. \A k \in 1..N : h[k] \in Seq(S)
  <2>1. \A k \in 1..N : k \in 0..N /\ k # 0
    BY <1>1
  <2> QED BY <1>13, <2>1
<1>15. h \in [1..N -> Seq(S)]
  BY <1>12, <1>14
<1>16. h[1] = c[1] /\ \A i \in 2..N : h[i] = h[i - 1] \o c[i]
  <2>1. 1 \in 1..N /\ \A i \in 2..N : i \in 1..N /\ i # 1
    BY <1>1
  <2> QED BY <1>11, <2>1
<1> QED BY <1>2, <1>15, <1>16 DEF IsList, FlatList

(* The first members of a list.                                            *)
Firsts(M, k) == [j \in 1..k |-> M[j]]

LongerByOne(M, k) == Firsts(M, k) = Append(Firsts(M, k - 1), M[k])

(* One member more.                                                        *)
LEMMA FirstsGrow ==
  ASSUME NEW W, NEW N \in Nat, NEW M, IsList(M, N, W), NEW k \in 1..N
  PROVE  LongerByOne(M, k)
<1> DEFINE p == Firsts(M, k - 1)
           q == Firsts(M, k)
           a == Append(p, M[k])
<1>1. k - 1 \in Nat /\ k \in Nat /\ \A j \in 1..k : j \in 1..N /\ M[j] \in W
  BY DEF IsList
<1>2. p \in Seq(W) /\ Len(p) = k - 1 /\ \A j \in 1..(k - 1) : p[j] = M[j]
  <2>1. \A j \in 1..(k - 1) : M[j] \in W
    BY <1>1
  <2> QED BY <1>1, <2>1 DEF Firsts
<1>3. q \in Seq(W) /\ Len(q) = k /\ \A j \in 1..k : q[j] = M[j]
  <2>1. \A j \in 1..k : M[j] \in W
    BY <1>1
  <2> QED BY <1>1, <2>1 DEF Firsts
<1> HIDE DEF p, q
<1>4. a \in Seq(W) /\ Len(a) = k /\ \A j \in 1..k : a[j] = IF j <= k - 1 THEN p[j] ELSE M[k]
  <2>1. /\ a \in Seq(W) /\ Len(a) = Len(p) + 1 /\ a[Len(p) + 1] = M[k]
        /\ \A j \in 1..Len(p) : a[j] = p[j]
    BY <1>1, <1>2, AppendProperties
  <2>2. \A j \in 1..k : (j <= k - 1 => j \in 1..Len(p)) /\ (~(j <= k - 1) => j = Len(p) + 1)
    BY <1>1, <1>2
  <2> HIDE DEF a
  <2> QED BY <1>1, <1>2, <2>1, <2>2
<1>5. \A j \in 1..k : a[j] = q[j]
  <2> HIDE DEF a
  <2>1. \A j \in 1..k : (j <= k - 1 => j \in 1..(k - 1)) /\ (~(j <= k - 1) => j = k)
    BY <1>1
  <2> QED BY <1>2, <1>3, <1>4, <2>1
<1>6. a = q
  <2> HIDE DEF a
  <2> QED BY <1>3, <1>4, <1>5, SeqEqual
<1> QED BY <1>6 DEF p, q, LongerByOne

(* A text without separators is one token.                                 *)
LEMMA OneToken ==
  ASSUME NEW S, NEW x \in Seq(S), NEW seps, Plain(x, seps)
  PROVE  Tokens(x, seps) = <<x>>
<1> DEFINE e == <<>>
<1>1. e \in Seq(S) /\ MayStart(e, seps) /\ e \o x = x /\ Tokens(e, seps) = e
  BY EmptySeq, ConcatEmptySeq, NoTokens DEF MayStart
<1>2. Append(e, x) = <<x>>
  BY Appended
<1> HIDE DEF e
<1>3. Tokens(e \o x, seps) = Append(Tokens(e, seps), x)
  BY <1>1, TokensOfPart
<1> QED BY <1>1, <1>2, <1>3

(* Lines are put together and taken apart.                                 *)
LEMMA TokensOfLines ==
  ASSUME NEW S, NEW N \in Nat, N # 0, NEW M, IsList(M, N, Seq(S)), NEW seps, NEW b \in S, b \in seps,
         \A i \in 1..N : Plain(M[i], seps)
  PROVE  Tokens(FlattenSeq([i \in 1..N |-> Append(M[i], b)]), seps) = Firsts(M, N)
<1> DEFINE c == [i \in 1..N |-> Append(M[i], b)]
           W == Seq(S)
<1>1. N \in Nat /\ N # 0 /\ \A i \in 1..N : M[i] \in Seq(S)
  BY DEF IsList
<1>2. IsList(c, N, Seq(S)) /\ \A i \in 1..N : c[i] = Append(M[i], b)
  <2>1. \A i \in 1..N : Append(M[i], b) \in Seq(S)
    BY <1>1, AppendProperties
  <2> QED BY <2>1 DEF IsList
<1> HIDE DEF c
<1>3. PICK h : IsList(h, N, Seq(S)) /\ FlatList(h, c, N)
  BY <1>2, FlattenReached
<1>4. /\ h \in [1..N -> Seq(S)] /\ FlattenSeq(c) = h[N] /\ h[1] = c[1]
      /\ \A i \in 2..N : h[i] = h[i - 1] \o c[i]
  BY <1>3 DEF IsList, FlatList
<1> DEFINE Good(k) == Tokens(h[k], seps) = Firsts(M, k) /\ MayStart(h[k], seps)
           P == {k \in 0..N : k = 0 \/ Good(k)}
<1>5. ASSUME NEW k \in 1..N, k - 1 \in P PROVE Good(k)
  <2>1. M[k] \in Seq(S) /\ Plain(M[k], seps) /\ c[k] = Append(M[k], b)
    BY <1>1, <1>2
  <2>2. Firsts(M, k) = Append(Firsts(M, k - 1), M[k])
    <3>1. LongerByOne(M, k)
      BY <1>1, FirstsGrow
    <3> QED BY <3>1 DEF LongerByOne
  <2>3. CASE k = 1
    <3>1. Tokens(M[k], seps) = <<M[k]>>
      BY <2>1, OneToken
    <3>2. Tokens(c[k], seps) = <<M[k]>> /\ MayStart(c[k], seps)
      BY <2>1, <3>1, TokensOfSep
    <3>3. Firsts(M, k - 1) = <<>>
      BY <2>3 DEF Firsts
    <3>4. Append(<<>>, M[k]) = <<M[k]>>
      BY Appended
    <3> QED BY <1>4, <2>2, <2>3, <3>2, <3>3, <3>4
  <2>4. CASE k # 1
    <3>1. k - 1 \in 1..N /\ k - 1 # 0 /\ k \in 2..N
      BY <1>1, <2>4
    <3> DEFINE x == h[k - 1]
               y == M[k]
               z == x \o y
    <3>2. x \in Seq(S) /\ Tokens(x, seps) = Firsts(M, k - 1) /\ MayStart(x, seps)
      BY <1>5, <1>4, <3>1
    <3>3. h[k] = x \o Append(y, b)
      BY <1>4, <2>1, <3>1
    <3>4. Along(x, y, b)
      BY <2>1, <3>2, AppendAlong
    <3> HIDE DEF x, y
    <3>5. h[k] = Append(z, b)
      BY <3>3, <3>4 DEF Along
    <3>6. Tokens(z, seps) = Append(Firsts(M, k - 1), y)
      <4>1. y \in Seq(S) /\ Plain(y, seps)
        BY <2>1 DEF y
      <4>2. Tokens(x \o y, seps) = Append(Tokens(x, seps), y)
        BY <3>2, <4>1, TokensOfPart
      <4> QED BY <3>2, <4>2
    <3>7. z \in Seq(S)
      BY <2>1, <3>2, ConcatProperties DEF y
    <3> HIDE DEF z
    <3>8. Tokens(Append(z, b), seps) = Tokens(z, seps) /\ MayStart(Append(z, b), seps)
      BY <3>7, TokensOfSep
    <3> QED BY <2>2, <3>5, <3>6, <3>8 DEF y
  <2> QED BY <2>3, <2>4
<1>6. N \in P
  <2>1. 0 \in P /\ P \in SUBSET (0..N) /\ N \in 0..N
    BY <1>1
  <2>2. ASSUME NEW k \in 1..N, k - 1 \in P PROVE k \in P
    <3>1. k \in 0..N
      BY <1>1
    <3> HIDE DEF Good
    <3> QED BY <1>5, <2>2, <3>1
  <2> HIDE DEF P
  <2> QED BY <1>1, <2>1, <2>2, AlongLoop
<1> QED BY <1>1, <1>6, <1>4 DEF c

(* The field each line has at one place.                                   *)
Column(lines, fields, n) ==
  LET pushed[k \in 0..Len(lines)] ==
        IF k = 0 THEN <<>>
        ELSE IF Len(fields[k]) >= n THEN Append(pushed[k - 1], fields[k][n])
        ELSE pushed[k - 1]
  IN  pushed[Len(lines)]

Wide(fields, N, n) == \A k \in 1..N : Len(fields[k]) >= n

FieldOf(fields, N, n) == [k \in 1..N |-> fields[k][n]]

(* It is a list of one field for each line.                                *)
LEMMA ColumnOf ==
  ASSUME NEW lines, Len(lines) \in Nat, NEW fields, NEW n, Wide(fields, Len(lines), n)
  PROVE  Column(lines, fields, n) = FieldOf(fields, Len(lines), n)
<1> DEFINE N == Len(lines)
           M == [k \in 1..N |-> fields[k][n]]
           W == {fields[k][n] : k \in 1..N}
           Body(h, k) == IF k = 0 THEN <<>>
                         ELSE IF Len(fields[k]) >= n THEN Append(h[k - 1], fields[k][n])
                         ELSE h[k - 1]
           Is(h) == h = [k \in 0..N |-> Body(h, k)]
           h == CHOOSE h : Is(h)
           g == [k \in 0..N |-> Firsts(M, k)]
<1>1. Column(lines, fields, n) = h[N]
  BY DEF Column
<1> HIDE DEF N
<1>2. N \in Nat /\ \A k \in 1..N : Len(fields[k]) >= n
  BY DEF Wide, N
<1>3. IsList(M, N, W) /\ \A k \in 1..N : M[k] = fields[k][n]
  BY <1>2 DEF IsList
<1> HIDE DEF M, W
<1>4. \A k \in 1..N : LongerByOne(M, k)
  BY <1>2, <1>3, FirstsGrow
<1>5. Firsts(M, 0) = <<>>
  BY DEF Firsts
<1>6. Is(g)
  <2>1. ASSUME NEW k \in 0..N PROVE g[k] = Body(g, k)
    <3>1. CASE k = 0
      BY <1>5, <3>1
    <3>2. CASE k # 0
      <4>1. k \in 1..N /\ k - 1 \in 0..N
        BY <1>2, <3>2
      <4>2. g[k] = Firsts(M, k) /\ g[k - 1] = Firsts(M, k - 1)
        BY <4>1
      <4>3. Body(g, k) = Append(g[k - 1], fields[k][n])
        <5> HIDE DEF g
        <5> QED BY <1>2, <3>2, <4>1
      <4> HIDE DEF g, Body
      <4> QED BY <1>3, <1>4, <4>1, <4>2, <4>3 DEF LongerByOne
    <3> QED BY <3>1, <3>2
  <2>2. g = [k \in 0..N |-> g[k]]
    OBVIOUS
  <2> HIDE DEF g, Body
  <2> QED BY <2>1, <2>2
<1>7. Is(h)
  BY <1>6
<1> HIDE DEF h, g
<1>8. \A k \in 0..N : h[k] = Body(h, k)
  BY <1>7
<1> HIDE DEF Is
<1> DEFINE P == {k \in 0..N : h[k] = Firsts(M, k)}
<1>9. 0 \in P
  BY <1>2, <1>5, <1>8
<1>10. ASSUME NEW k \in 1..N, k - 1 \in P PROVE k \in P
  <2>1. k \in 0..N /\ k # 0
    BY <1>2
  <2>2. h[k] = Append(h[k - 1], fields[k][n])
    BY <1>2, <1>8, <2>1
  <2> QED BY <1>3, <1>4, <1>10, <2>1, <2>2 DEF LongerByOne
<1>11. N \in P
  <2>1. P \in SUBSET (0..N) /\ N \in 0..N
    BY <1>2
  <2> HIDE DEF P
  <2> QED BY <1>2, <1>9, <1>10, <2>1, AlongLoop
<1>12. Firsts(M, N) = FieldOf(fields, N, n)
  BY <1>3 DEF Firsts, FieldOf
<1> QED BY <1>1, <1>11, <1>12 DEF N

(* Tokens have no separators.                                              *)
LEMMA PlainTokens ==
  ASSUME NEW S, NEW s \in Seq(S), NEW seps, NEW i \in 1..Len(Tokens(s, seps))
  PROVE  Tokens(s, seps)[i] \in Seq(S) /\ Plain(Tokens(s, seps)[i], seps)
<1> DEFINE w == Tokens(s, seps)[i]
           n == Len(s)
<1>1. n \in Nat
  BY LenProperties
<1>2. PICK e \in 1..n, f \in 1..n : e <= f /\ Stretch(w, s, seps, e, f)
  BY TokensAreStretches DEF TokensSoFar, StretchIn
<1> HIDE DEF w
<1>3. \A l \in e..f : s[l] \in S
  BY <1>1, ElementOfSeq
<1>4. e \in Int /\ f \in Int
  BY <1>1
<1>5. Len(w) = f - e + 1 /\ w \in Seq(S) /\ \A l \in 1..(f - e + 1) : w[l] = s[e + l - 1]
  BY <1>2, <1>3, <1>4, SubSeqProperties DEF Stretch
<1>6. Len(w) # 0
  BY <1>2, <1>4, <1>5
<1>7. w # <<>>
  BY <1>6, EmptySeq
<1>8. ASSUME NEW l \in 1..Len(w) PROVE w[l] \notin seps
  <2>1. e + l - 1 \in e..f /\ l \in 1..(f - e + 1)
    BY <1>4, <1>5
  <2> QED BY <1>2, <1>5, <2>1 DEF Stretch
<1> QED BY <1>5, <1>7, <1>8 DEF Plain, w

(* A line has no separators but those of its parts.                        *)
LEMMA PlainRow ==
  ASSUME NEW S, NEW w \in Seq(S), NEW t \in S, NEW l \in Seq(S), NEW seps, NEW b \in S,
         Plain(w, seps), Plain(l, seps), b \notin seps, t \notin seps
  PROVE  Row(w, t, l, b) \in Seq(S) /\ Plain(Row(w, t, l, b), seps)
<1> DEFINE m == <<b, t, b>>
           x == w \o m
           r == x \o l
<1>1. m \in Seq(S) /\ Len(m) = 3 /\ \A i \in 1..3 : m[i] \notin seps
  <2>1. m \in Seq(S) /\ Len(m) = 3
    BY Tuples
  <2>2. m[1] = b /\ m[2] = t /\ m[3] = b
    OBVIOUS
  <2>3. \A i \in 1..3 : i = 1 \/ i = 2 \/ i = 3
    OBVIOUS
  <2> HIDE DEF m
  <2> QED BY <2>1, <2>2, <2>3
<1> HIDE DEF m
<1>2. Len(w) \in Nat \ {0} /\ Len(l) \in Nat
  BY EmptySeq, LenProperties DEF Plain
<1>3. /\ x \in Seq(S) /\ Len(x) = Len(w) + 3
      /\ \A i \in 1..(Len(w) + 3) : x[i] = IF i <= Len(w) THEN w[i] ELSE m[i - Len(w)]
  <2>1. /\ x \in Seq(S) /\ Len(x) = Len(w) + Len(m)
        /\ \A i \in 1..(Len(w) + Len(m)) : x[i] = IF i <= Len(w) THEN w[i] ELSE m[i - Len(w)]
    BY <1>1, ConcatProperties
  <2> HIDE DEF x
  <2> QED BY <1>1, <2>1
<1>4. \A i \in 1..(Len(w) + 3) : x[i] \notin seps
  <2> SUFFICES ASSUME NEW i \in 1..(Len(w) + 3) PROVE x[i] \notin seps
    OBVIOUS
  <2>1. CASE i <= Len(w)
    <3>1. i \in 1..Len(w)
      BY <1>2, <2>1
    <3> HIDE DEF x
    <3> QED BY <1>3, <2>1, <3>1 DEF Plain
  <2>2. CASE ~(i <= Len(w))
    <3>1. i - Len(w) \in 1..3
      BY <1>2, <2>2
    <3> HIDE DEF x
    <3> QED BY <1>1, <1>3, <2>2, <3>1
  <2> QED BY <2>1, <2>2
<1> HIDE DEF x
<1>5. /\ r \in Seq(S) /\ Len(r) = Len(x) + Len(l)
      /\ \A i \in 1..(Len(x) + Len(l)) : r[i] = IF i <= Len(x) THEN x[i] ELSE l[i - Len(x)]
  BY <1>3, ConcatProperties
<1> HIDE DEF r
<1>6. ASSUME NEW i \in 1..Len(r) PROVE r[i] \notin seps
  <2>1. CASE i <= Len(x)
    <3>1. i \in 1..(Len(w) + 3)
      BY <1>2, <1>3, <1>5, <2>1
    <3> QED BY <1>4, <1>5, <2>1, <3>1
  <2>2. CASE ~(i <= Len(x))
    <3>1. i - Len(x) \in 1..Len(l)
      BY <1>2, <1>3, <1>5, <2>2
    <3> QED BY <1>5, <2>2, <3>1 DEF Plain
  <2> QED BY <2>1, <2>2
<1>7. r # <<>>
  <2>1. Len(r) # 0
    BY <1>2, <1>3, <1>5
  <2> QED BY <2>1, EmptySeq
<1> QED BY <1>5, <1>6, <1>7 DEF Plain, Row, r, x, m

(* What is printed for a list of words, and how it is taken apart.         *)
Printed(words) == [i \in DOMAIN words |-> EnhancePennTag(words[i], TagOf(words[i]), Unknown)]

LinesIn(s)  == Tokens(s, {"\n"})
FieldsIn(s) == [i \in DOMAIN LinesIn(s) |-> Tokens(LinesIn(s)[i], {"\t"})]

(* Words that are printed with their tags and lemmas.                      *)
Taggable(words, S) ==
  /\ words \in Seq(Seq(S))
  /\ \A i \in 1..Len(words) : /\ Printable(words[i]) /\ TagOf(words[i]) \notin Marks
                              /\ ~({"<", ">"} \subseteq ToSet(words[i]))

(* The lists are the words, with their tags and lemmas.                    *)
InColumns(s, words, t, l) ==
  LET N == Len(words)
  IN  /\ Column(LinesIn(s), FieldsIn(s), 1) = [i \in 1..N |-> words[i]]
      /\ Column(LinesIn(s), FieldsIn(s), 2) = [i \in 1..N |-> <<t[i]>>]
      /\ Column(LinesIn(s), FieldsIn(s), 3) = [i \in 1..N |-> l[i]]
      /\ \A i \in 1..N : Printed(words)[i] = Line(words[i], t[i], l[i])

(* They are printed in rows.                                               *)
InRows(words, t, l, V) ==
  /\ "\t" \in V /\ "\n" \in V /\ Len(words) \in Nat
  /\ Printed(words) = [i \in 1..Len(words) |-> Append(Row(words[i], t[i], l[i], "\t"), "\n")]
  /\ \A i \in 1..Len(words) : /\ words[i] \in Seq(V) /\ t[i] \in V /\ l[i] \in Seq(V)
                              /\ Printable(words[i]) /\ Printable(l[i]) /\ t[i] \notin Marks

(* What is printed is taken apart into the words, their tags and lemmas.   *)
LEMMA AlignedLists ==
  ASSUME NEW S, NEW words, Taggable(words, S)
  PROVE  \E t, l, V : InColumns(FlattenSeq(Printed(words)), words, t, l) /\ InRows(words, t, l, V)
<1> DEFINE N == Len(words)
           D == Printed(words)
           t == [i \in 1..N |-> CHOOSE x : \E y : LineParts(D[i], words[i], x, y)]
           l == [i \in 1..N |-> CHOOSE y : LineParts(D[i], words[i], t[i], y)]
           V == S \union Marks \union {t[i] : i \in 1..N} \union UNION {ToSet(l[i]) : i \in 1..N}
           M == [i \in 1..N |-> Row(words[i], t[i], l[i], "\t")]
           ends == {"\n"}
           tabs == {"\t"}
           s == FlattenSeq(D)
<1>1. N \in Nat /\ DOMAIN words = 1..N /\ \A i \in 1..N : words[i] \in Seq(S)
  BY LenProperties, ElementOfSeq DEF Taggable
<1>2. ASSUME NEW i \in 1..N PROVE LineParts(D[i], words[i], t[i], l[i])
  <2>1. D[i] = EnhancePennTag(words[i], TagOf(words[i]), Unknown)
    BY <1>1 DEF Printed
  <2>2. LineFor(D[i], words[i])
    BY <1>1, <2>1, LineOfWord DEF Taggable
  <2>3. \E x : \E y : LineParts(D[i], words[i], x, y)
    BY <2>2 DEF LineFor
  <2>4. \E y : LineParts(D[i], words[i], t[i], y)
    BY <2>3
  <2> HIDE DEF t
  <2> QED BY <2>4
<1> HIDE DEF t, l
<1>3. ASSUME NEW i \in 1..N
      PROVE  /\ words[i] \in Seq(V) /\ t[i] \in V /\ l[i] \in Seq(V) /\ "\t" \in V /\ "\n" \in V
             /\ Printable(words[i]) /\ Printable(l[i]) /\ t[i] \notin Marks
             /\ D[i] = Line(words[i], t[i], l[i])
  <2>1. S \subseteq V /\ ToSet(l[i]) \subseteq V /\ t[i] \in V /\ "\t" \in V /\ "\n" \in V
    BY DEF Marks, Blank
  <2> HIDE DEF V
  <2>2. /\ words[i] \in Seq(S) /\ l[i] \in Seq(ToSet(l[i]))
        /\ Printable(words[i]) /\ Printable(l[i]) /\ t[i] \notin Marks
        /\ D[i] = Line(words[i], t[i], l[i])
    BY <1>1, <1>2 DEF LineParts, Taggable
  <2>3. words[i] \in Seq(V) /\ l[i] \in Seq(V)
    <3> DEFINE u == words[i]
               v == l[i]
               W == ToSet(v)
    <3>1. u \in Seq(S) /\ v \in Seq(W) /\ S \subseteq V /\ W \subseteq V
      BY <2>1, <2>2
    <3> HIDE DEF u, v, W
    <3>2. u \in Seq(V) /\ v \in Seq(V)
      BY <3>1
    <3> QED BY <3>2 DEF u, v
  <2> QED BY <2>1, <2>2, <2>3
<1>4. "\t" \in V /\ "\n" \in V
  BY DEF Marks, Blank
<1> HIDE DEF V, D
<1>5. ASSUME NEW i \in 1..N
      PROVE  /\ Plain(words[i], ends) /\ Plain(l[i], ends) /\ t[i] \notin ends /\ "\t" \notin ends
             /\ Plain(words[i], tabs) /\ Plain(l[i], tabs) /\ t[i] \notin tabs
  BY <1>3 DEF Printable, Plain, Marks, Blank
<1>6. ASSUME NEW i \in 1..N
      PROVE  /\ M[i] \in Seq(V) /\ Plain(M[i], ends)
             /\ Tokens(M[i], tabs) = <<words[i], <<t[i]>>, l[i]>>
             /\ D[i] = Append(M[i], "\n")
  <2> DEFINE b == "\t"
             e == "\n"
             w == words[i]
             u == t[i]
             v == l[i]
             r == Row(w, u, v, b)
  <2>1. /\ w \in Seq(V) /\ u \in V /\ v \in Seq(V) /\ b \in V /\ e \in V /\ b \in tabs
        /\ Plain(w, ends) /\ Plain(v, ends) /\ u \notin ends /\ b \notin ends
        /\ Plain(w, tabs) /\ Plain(v, tabs) /\ u \notin tabs
    BY <1>3, <1>5
  <2>2. D[i] = r \o <<e>>
    BY <1>3 DEF Line, Row
  <2>3. M[i] = r
    OBVIOUS
  <2> HIDE DEF b, e, w, u, v, M, ends, tabs
  <2>4. r \in Seq(V) /\ Plain(r, ends)
    BY <2>1, PlainRow
  <2>5. Tokens(r, tabs) = <<w, <<u>>, v>>
    BY <2>1, FieldsOfLine
  <2> HIDE DEF r
  <2>6. D[i] = Append(r, e)
    BY <2>1, <2>2, <2>4, AppendIsConcat
  <2> QED BY <2>3, <2>4, <2>5, <2>6 DEF w, u, v, e
<1>7. LinesIn(s) = Firsts(M, N)
  <2>1. D = [i \in 1..N |-> Append(M[i], "\n")]
    <3>1. D = [i \in 1..N |-> D[i]]
      BY <1>1 DEF D, Printed
    <3> HIDE DEF M
    <3> QED BY <1>6, <3>1
  <2>2. IsList(M, N, Seq(V))
    <3>1. M = [i \in 1..N |-> M[i]]
      OBVIOUS
    <3> HIDE DEF M
    <3> QED BY <1>6, <3>1 DEF IsList
  <2> HIDE DEF M
  <2>3. CASE N = 0
    <3>1. D = <<>> /\ Firsts(M, N) = <<>>
      BY <2>1, <2>3 DEF Firsts
    <3>2. FlattenSeq(<<>>) = <<>>
      BY DEF FlattenSeq
    <3> QED BY <3>1, <3>2, NoTokens DEF LinesIn
  <2>4. CASE N # 0
    <3> DEFINE e == "\n"
    <3>1. e \in V /\ e \in ends
      <4>1. 1 \in 1..N
        BY <1>1, <2>4
      <4> QED BY <1>3, <4>1
    <3>2. \A i \in 1..N : Plain(M[i], ends)
      BY <1>6
    <3> HIDE DEF e, ends
    <3>3. Tokens(FlattenSeq([i \in 1..N |-> Append(M[i], e)]), ends) = Firsts(M, N)
      BY <1>1, <2>2, <2>4, <3>1, <3>2, TokensOfLines
    <3> QED BY <2>1, <3>3 DEF LinesIn, e, ends
  <2> QED BY <2>3, <2>4
<1> HIDE DEF s
<1>8. /\ Len(LinesIn(s)) = N
      /\ \A i \in 1..N : FieldsIn(s)[i] = <<words[i], <<t[i]>>, l[i]>>
  <2>1. Len(Firsts(M, N)) = N /\ DOMAIN Firsts(M, N) = 1..N /\ \A i \in 1..N : Firsts(M, N)[i] = M[i]
    <3> HIDE DEF M
    <3> QED BY <1>1 DEF Firsts
  <2> HIDE DEF M
  <2>2. \A i \in 1..N : FieldsIn(s)[i] = Tokens(M[i], tabs)
    BY <1>7, <2>1 DEF FieldsIn
  <2> QED BY <1>6, <1>7, <2>1, <2>2
<1>9. ASSUME NEW i \in 1..N
      PROVE  /\ Len(FieldsIn(s)[i]) = 3 /\ FieldsIn(s)[i][1] = words[i]
             /\ FieldsIn(s)[i][2] = <<t[i]>> /\ FieldsIn(s)[i][3] = l[i]
  <2> DEFINE x == words[i]
             y == <<t[i]>>
             z == l[i]
  <2>1. FieldsIn(s)[i] = <<x, y, z>>
    BY <1>8
  <2> HIDE DEF x, y, z
  <2> QED BY <2>1 DEF x, y, z
<1>10. ASSUME NEW n \in 1..3
      PROVE  Column(LinesIn(s), FieldsIn(s), n) = FieldOf(FieldsIn(s), N, n)
  <2>1. Wide(FieldsIn(s), Len(LinesIn(s)), n) /\ Len(LinesIn(s)) \in Nat
    BY <1>1, <1>8, <1>9 DEF Wide
  <2> HIDE DEF N
  <2>2. Column(LinesIn(s), FieldsIn(s), n) = FieldOf(FieldsIn(s), Len(LinesIn(s)), n)
    BY <2>1, ColumnOf
  <2> QED BY <1>8, <2>2
<1>11. /\ Column(LinesIn(s), FieldsIn(s), 1) = [i \in 1..N |-> words[i]]
       /\ Column(LinesIn(s), FieldsIn(s), 2) = [i \in 1..N |-> <<t[i]>>]
       /\ Column(LinesIn(s), FieldsIn(s), 3) = [i \in 1..N |-> l[i]]
  <2>1. /\ Column(LinesIn(s), FieldsIn(s), 1) = [i \in 1..N |-> FieldsIn(s)[i][1]]
        /\ Column(LinesIn(s), FieldsIn(s), 2) = [i \in 1..N |-> FieldsIn(s)[i][2]]
        /\ Column(LinesIn(s), FieldsIn(s), 3) = [i \in 1..N |-> FieldsIn(s)[i][3]]
    BY <1>10 DEF FieldOf
  <2> QED BY <1>9, <2>1
<1>12. \A i \in 1..N : D[i] = Line(words[i], t[i], l[i])
  BY <1>3
<1>13. InColumns(s, words, t, l)
  BY <1>11, <1>12 DEF InColumns, D
<1>14. InRows(words, t, l, V)
  <2>1. D = [i \in 1..N |-> D[i]]
    BY <1>1 DEF D, Printed
  <2>2. D = [i \in 1..N |-> Append(M[i], "\n")]
    <3> HIDE DEF M
    <3> QED BY <1>6, <2>1
  <2>3. D = [i \in 1..N |-> Append(Row(words[i], t[i], l[i], "\t"), "\n")]
    BY <2>2
  <2> HIDE DEF M
  <2> QED BY <1>1, <1>3, <1>4, <2>3 DEF InRows, D
<1> QED BY <1>13, <1>14 DEF s, D

(* The words of a text that has been through the tokenizer are printed     *)
(* with tags and lemmas: none has both angle brackets.                     *)
LEMMA WordsTaggable ==
  ASSUME NEW T, Signs \subseteq T, "\n" \notin T, NEW x \in Seq(T),
         \A w \in Seq(T) : TagOf(w) \notin Marks
  PROVE  Taggable(perl_split(Tokenizer(x)), T)
<1> DEFINE s == Tokenizer(x)
           ws == perl_split(s)
<1>1. s \in Seq(T)
  BY RetokenizedKeeps
<1>2. \A c \in Separators : Alone(s, c, " ")
  BY SeparatorsAlone
<1>3. ws = Tokens(s, Blank)
  BY DEF perl_split
<1> HIDE DEF s, ws
<1>4. ws \in Seq(Seq(T))
  <2>1. Tokens(s, Blank) \in Seq(Seq(T) \ {<<>>})
    BY <1>1, TokensCounted DEF Tokened
  <2> DEFINE N == Seq(T) \ {<<>>}
             U == Seq(T)
  <2>2. N \subseteq U /\ ws \in Seq(N)
    BY <1>3, <2>1
  <2> HIDE DEF N, U
  <2>3. ws \in Seq(U)
    BY <2>2
  <2> QED BY <2>3 DEF U
<1>5. ASSUME NEW i \in 1..Len(ws)
      PROVE  /\ Printable(ws[i]) /\ TagOf(ws[i]) \notin Marks
             /\ ~({"<", ">"} \subseteq ToSet(ws[i]))
  <2> DEFINE w == ws[i]
  <2>1. w \in Seq(T) /\ Plain(w, Blank)
    BY <1>1, <1>3, PlainTokens
  <2>2. \A c \in Separators : c \in ToSet(w) => Len(w) = 1
    <3> SUFFICES ASSUME NEW c \in Separators, c \in ToSet(w) PROVE Len(w) = 1
      OBVIOUS
    <3>1. Alone(s, c, " ") /\ " " \in Blank
      BY <1>2 DEF Blank
    <3>2. i \in 1..Len(Tokens(s, Blank)) /\ c \in ToSet(Tokens(s, Blank)[i])
      BY <1>3
    <3> QED BY <1>1, <1>3, <3>1, <3>2, AloneInWord
  <2> HIDE DEF w
  <2>3. Printable(w)
    <3>1. \A l \in 1..Len(w) : w[l] \in T
      BY <2>1, ElementOfSeq
    <3> QED BY <2>1, <3>1 DEF Plain, Printable, Marks, Blank
  <2>4. ~({"<", ">"} \subseteq ToSet(w))
    <3> SUFFICES ASSUME "<" \in ToSet(w), ">" \in ToSet(w) PROVE FALSE
      OBVIOUS
    <3>1. Len(w) = 1
      BY <2>2 DEF Separators
    <3>2. DOMAIN w = 1..Len(w)
      BY <2>1, LenProperties
    <3>3. \A c \in ToSet(w) : c = w[1]
      BY <3>1, <3>2 DEF ToSet
    <3>4. "<" = w[1] /\ ">" = w[1]
      BY <3>3
    <3> QED BY <3>4
  <2>5. TagOf(w) \notin Marks
    BY <2>1
  <2> QED BY <2>3, <2>4, <2>5 DEF w
<1> QED BY <1>4, <1>5 DEF Taggable, ws, s

(* lemmatize() fills its lists with each word of the text, its tag and its *)
(* lemma, at one index, for every text without line ends, when no tag has  *)
(* a tab or a line end.                                                    *)
THEOREM ListsHold ==
  ASSUME "\n" \notin Alphabet, \A w \in Seq(Alphabet \union Signs) : TagOf(w) \notin Marks
  PROVE  TextSpec => []ListsAligned
<1>1. IsText => ListsAligned
  <2> SUFFICES ASSUME IsText PROVE ListsAligned
    OBVIOUS
  <2> DEFINE T == Alphabet \union Signs
             s == Tokenizer(text)
             p == FlattenSeq(Printed(Words))
             a == lemmatize(text)
  <2>1. text \in Seq(T) /\ Signs \subseteq T
    BY DEF IsText
  <2>2. "\n" \notin T
    BY DEF Signs
  <2>3. \A w \in Seq(T) : TagOf(w) \notin Marks
    OBVIOUS
  <2> HIDE DEF T
  <2>4. Taggable(Words, T)
    <3>1. Taggable(perl_split(Tokenizer(text)), T)
      BY <2>1, <2>2, <2>3, WordsTaggable
    <3> QED BY <3>1 DEF Words
  <2> HIDE DEF s
  <2>5. PICK t, l : InColumns(p, Words, t, l)
    BY <2>4, AlignedLists
  <2>6. p = tag(s)
    BY DEF tag, Printed, Words, s
  <2>7. /\ a.words = Column(LinesIn(p), FieldsIn(p), 1)
         /\ a.pos = Column(LinesIn(p), FieldsIn(p), 2)
         /\ a.lemmas = Column(LinesIn(p), FieldsIn(p), 3)
    <3> HIDE DEF p
    <3> QED BY <2>6 DEF lemmatize, Column, LinesIn, FieldsIn, s
  <2> DEFINE N == Len(Words)
  <2>8. N \in Nat /\ DOMAIN Words = 1..N /\ Words = [i \in 1..N |-> Words[i]]
    BY <2>4, LenProperties DEF Taggable
  <2> HIDE DEF N, a, p
  <2>9. /\ a.words = [i \in 1..N |-> Words[i]]
         /\ a.pos = [i \in 1..N |-> <<t[i]>>]
         /\ a.lemmas = [i \in 1..N |-> l[i]]
         /\ \A i \in 1..N : Printed(Words)[i] = Line(Words[i], t[i], l[i])
    BY <2>5, <2>7 DEF InColumns, N
  <2>10. a.words = Words /\ Len(a.pos) = N /\ Len(a.lemmas) = N
    BY <2>8, <2>9
  <2>11. ASSUME NEW i \in 1..N
         PROVE  EnhancePennTag(Words[i], TagOf(Words[i]), Unknown)
                  = Line(a.words[i], a.pos[i][1], a.lemmas[i])
    <3>1. Printed(Words)[i] = EnhancePennTag(Words[i], TagOf(Words[i]), Unknown)
      BY <2>8 DEF Printed
    <3>2. a.words[i] = Words[i] /\ a.pos[i] = <<t[i]>> /\ a.lemmas[i] = l[i]
      BY <2>9
    <3>3. a.pos[i][1] = t[i]
      BY <3>2
    <3>4. Printed(Words)[i] = Line(Words[i], t[i], l[i])
      BY <2>9
    <3> QED BY <3>1, <3>2, <3>3, <3>4
  <2> QED BY <2>8, <2>10, <2>11 DEF ListsAligned, N, a
<1> QED BY <1>1, TextTyped, PTL

-----------------------------------------------------------------------------
(* Series of nouns                                                         *)

(* Where the nouns are, and what precedes and follows the words.           *)
HasNouns(nn, N) == N \in Nat /\ nn \in [0..(N + 1) -> BOOLEAN] /\ ~nn[0] /\ ~nn[N + 1]

(* A series that has begun at f and has come to k.                         *)
Opening(nn, f, k) == f \in 1..k /\ (\A j \in f..k : nn[j]) /\ ~nn[f - 1]

FirstOfSeries(nn, k) == IF nn[k] THEN CHOOSE f \in 1..k : Opening(nn, f, k) ELSE 0

(* The longest series of nouns that end before k.                          *)
IsSeries(nn, p) == (\A j \in p[1]..p[2] : nn[j]) /\ ~nn[p[1] - 1] /\ ~nn[p[2] + 1]

SeriesBefore(nn, N, k) ==
  {p \in (1..N) \X (1..N) : p[1] <= p[2] /\ p[2] < k /\ IsSeries(nn, p)}

(* Every noun is in a series that has begun.                               *)
LEMMA SeriesBegins ==
  ASSUME NEW N, NEW nn, HasNouns(nn, N), NEW k \in 1..N, nn[k]
  PROVE  \E f \in 1..k : Opening(nn, f, k)
<1> DEFINE P == {i \in 0..N : nn[i] => \E f \in 1..i : Opening(nn, f, i)}
<1>1. N \in Nat /\ ~nn[0]
  BY DEF HasNouns
<1>2. 0 \in P
  BY <1>1
<1>3. ASSUME NEW i \in 1..N, i - 1 \in P PROVE i \in P
  <2>1. i \in 0..N /\ i \in Int
    BY <1>1
  <2> SUFFICES ASSUME nn[i] PROVE \E f \in 1..i : Opening(nn, f, i)
    BY <2>1
  <2>2. CASE nn[i - 1]
    <3>1. PICK f \in 1..(i - 1) : Opening(nn, f, i - 1)
      BY <1>3, <2>2
    <3>2. f \in 1..i /\ \A j \in f..i : j = i \/ j \in f..(i - 1)
      BY <2>1
    <3>3. Opening(nn, f, i)
      BY <3>1, <3>2 DEF Opening
    <3> QED BY <3>2, <3>3
  <2>3. CASE ~nn[i - 1]
    <3>1. i \in 1..i /\ \A j \in i..i : j = i
      BY <2>1
    <3>2. Opening(nn, i, i)
      BY <2>3, <3>1 DEF Opening
    <3> QED BY <3>1, <3>2
  <2> QED BY <2>2, <2>3
<1>4. k \in P
  <2>1. P \in SUBSET (0..N) /\ k \in 0..N
    BY <1>1
  <2> HIDE DEF P
  <2> QED BY <1>1, <1>2, <1>3, <2>1, AlongLoop
<1> QED BY <1>4

(* There is one such series.                                               *)
LEMMA OneBeginning ==
  ASSUME NEW nn, NEW k \in Int, NEW f, NEW g, Opening(nn, f, k), Opening(nn, g, k)
  PROVE  f = g
<1>1. f \in Int /\ g \in Int /\ f <= k /\ g <= k
  BY DEF Opening
<1>2. ~(f < g)
  <2> SUFFICES ASSUME f < g PROVE FALSE
    OBVIOUS
  <2>1. g - 1 \in f..k
    BY <1>1
  <2> QED BY <2>1 DEF Opening
<1>3. ~(g < f)
  <2> SUFFICES ASSUME g < f PROVE FALSE
    OBVIOUS
  <2>1. f - 1 \in g..k
    BY <1>1
  <2> QED BY <2>1 DEF Opening
<1> QED BY <1>1, <1>2, <1>3

(* The place the loop remembers.                                           *)
LEMMA FirstNoun ==
  ASSUME NEW N, NEW nn, HasNouns(nn, N), NEW k \in 0..N
  PROVE  /\ ~nn[k] => FirstOfSeries(nn, k) = 0
         /\ nn[k] => FirstOfSeries(nn, k) \in 1..k /\ Opening(nn, FirstOfSeries(nn, k), k)
         /\ k > 0 /\ nn[k] /\ ~nn[k - 1] => FirstOfSeries(nn, k) = k
         /\ k > 0 /\ nn[k] /\ nn[k - 1] => FirstOfSeries(nn, k) = FirstOfSeries(nn, k - 1)
<1>1. N \in Nat /\ ~nn[0] /\ k \in Int
  BY DEF HasNouns
<1>2. ~nn[k] => FirstOfSeries(nn, k) = 0
  BY DEF FirstOfSeries
<1>3. ASSUME NEW i \in 1..N, nn[i] PROVE FirstOfSeries(nn, i) \in 1..i /\ Opening(nn, FirstOfSeries(nn, i), i)
  <2>1. \E f \in 1..i : Opening(nn, f, i)
    BY <1>3, SeriesBegins
  <2> QED BY <1>3, <2>1 DEF FirstOfSeries
<1>4. ASSUME nn[k] PROVE FirstOfSeries(nn, k) \in 1..k /\ Opening(nn, FirstOfSeries(nn, k), k)
  <2>1. k \in 1..N
    BY <1>1, <1>4
  <2> QED BY <1>3, <1>4, <2>1
<1>5. ASSUME k > 0, nn[k], ~nn[k - 1] PROVE FirstOfSeries(nn, k) = k
  <2>1. k \in 1..k /\ \A j \in k..k : j = k
    BY <1>1, <1>5
  <2>2. Opening(nn, k, k)
    BY <1>5, <2>1 DEF Opening
  <2> QED BY <1>1, <1>4, <1>5, <2>2, OneBeginning
<1>6. ASSUME k > 0, nn[k], nn[k - 1] PROVE FirstOfSeries(nn, k) = FirstOfSeries(nn, k - 1)
  <2> DEFINE f == FirstOfSeries(nn, k - 1)
  <2>1. k - 1 \in 1..N
    <3>1. k - 1 # 0
      BY <1>1, <1>6
    <3> QED BY <1>1, <1>6, <3>1
  <2>2. f \in 1..(k - 1) /\ Opening(nn, f, k - 1)
    BY <1>3, <1>6, <2>1
  <2> HIDE DEF f
  <2>3. f \in 1..k /\ \A j \in f..k : j = k \/ j \in f..(k - 1)
    BY <1>1, <2>2
  <2>4. Opening(nn, f, k)
    BY <1>6, <2>2, <2>3 DEF Opening
  <2>5. FirstOfSeries(nn, k) = f
    BY <1>1, <1>4, <1>6, <2>4, OneBeginning
  <2> QED BY <2>5 DEF f
<1> QED BY <1>2, <1>4, <1>5, <1>6

(* A series ends before a word that is no noun.                            *)
LEMMA SeriesEnds ==
  ASSUME NEW N, NEW nn, HasNouns(nn, N), NEW k \in 1..(N + 1)
  PROVE  /\ nn[k] \/ ~nn[k - 1] => SeriesBefore(nn, N, k) = SeriesBefore(nn, N, k - 1)
         /\ ~nn[k] /\ nn[k - 1] =>
              SeriesBefore(nn, N, k) = SeriesBefore(nn, N, k - 1) \union {<<FirstOfSeries(nn, k - 1), k - 1>>}
<1>1. N \in Nat /\ ~nn[0] /\ k \in Int
  BY DEF HasNouns
<1>2. \A p \in (1..N) \X (1..N) : p[1] \in 1..N /\ p[2] \in 1..N /\ p = <<p[1], p[2]>>
  OBVIOUS
<1>3. \A j \in 1..N : j < k - 1 => j < k
  BY <1>1
<1>4. SeriesBefore(nn, N, k - 1) \subseteq SeriesBefore(nn, N, k)
  BY <1>2, <1>3 DEF SeriesBefore
<1>5. \A p \in SeriesBefore(nn, N, k) : p \in SeriesBefore(nn, N, k - 1) \/ p[2] = k - 1
  <2> SUFFICES ASSUME NEW p \in SeriesBefore(nn, N, k), p[2] # k - 1
               PROVE  p \in SeriesBefore(nn, N, k - 1)
    OBVIOUS
  <2>1. p \in (1..N) \X (1..N) /\ p[1] <= p[2] /\ p[2] < k /\ IsSeries(nn, p)
    BY DEF SeriesBefore
  <2>2. p[2] < k - 1
    BY <1>1, <1>2, <2>1
  <2> QED BY <2>1, <2>2 DEF SeriesBefore
<1>6. ASSUME NEW p \in SeriesBefore(nn, N, k), p[2] = k - 1
      PROVE  nn[k - 1] /\ ~nn[k] /\ Opening(nn, p[1], k - 1) /\ p = <<p[1], k - 1>>
  <2>1. p \in (1..N) \X (1..N) /\ p[1] <= p[2] /\ IsSeries(nn, p)
    BY DEF SeriesBefore
  <2>2. p[1] \in 1..N /\ p[2] \in 1..N /\ p = <<p[1], p[2]>>
    BY <1>2, <2>1
  <2>3. p[2] \in p[1]..p[2] /\ p[1] \in 1..p[2] /\ p[2] + 1 = k
    BY <1>1, <1>6, <2>1, <2>2
  <2> QED BY <1>6, <2>1, <2>2, <2>3 DEF IsSeries, Opening
<1>7. nn[k] \/ ~nn[k - 1] => SeriesBefore(nn, N, k) = SeriesBefore(nn, N, k - 1)
  BY <1>4, <1>5, <1>6
<1>8. ASSUME ~nn[k], nn[k - 1]
      PROVE  SeriesBefore(nn, N, k) = SeriesBefore(nn, N, k - 1) \union {<<FirstOfSeries(nn, k - 1), k - 1>>}
  <2> DEFINE f == FirstOfSeries(nn, k - 1)
             q == <<f, k - 1>>
  <2>1. k - 1 \in 1..N /\ k - 1 \in 0..N /\ k - 1 \in Int /\ k - 1 + 1 = k
    <3>1. k - 1 # 0
      BY <1>1, <1>8
    <3> QED BY <1>1, <3>1
  <2>2. f \in 1..(k - 1) /\ Opening(nn, f, k - 1)
    BY <1>8, <2>1, FirstNoun
  <2> HIDE DEF f
  <2>3. f \in 1..N /\ f <= k - 1 /\ k - 1 < k
    BY <1>1, <2>1, <2>2
  <2>4. q \in SeriesBefore(nn, N, k)
    <3>1. q[1] = f /\ q[2] = k - 1 /\ q \in (1..N) \X (1..N)
      BY <2>1, <2>3
    <3> HIDE DEF q
    <3>2. IsSeries(nn, q)
      BY <1>8, <2>1, <2>2, <3>1 DEF IsSeries, Opening
    <3> QED BY <2>3, <3>1, <3>2 DEF SeriesBefore
  <2>5. \A p \in SeriesBefore(nn, N, k) : p[2] = k - 1 => p = q
    BY <1>6, <2>1, <2>2, OneBeginning
  <2> HIDE DEF q
  <2>6. SeriesBefore(nn, N, k) = SeriesBefore(nn, N, k - 1) \union {q}
    BY <1>4, <1>5, <2>4, <2>5
  <2> QED BY <2>6 DEF q, f
<1> QED BY <1>7, <1>8

(* What check_and_tag() makes of the tokens: every third one is a lemma.   *)
WordCount(tokens) == Len(tokens) \div 3

SeriesOf(tokens, from, to) ==
  FlattenSeq([k \in 1..(to - from) |-> Append(tokens[3 * (from + k - 1)], " ")])

InsertedAt(tokens, found, k) ==
  [first |-> 0, dst |-> found.dst \union {SeriesOf(tokens, found.first, k)}]

NextFound(tokens, found, k) ==
  IF found.first = 0 /\ IsNoun(tokens[3 * k - 1]) THEN [found EXCEPT !.first = k]
  ELSE IF found.first # 0 /\ ~IsNoun(tokens[3 * k - 1]) THEN InsertedAt(tokens, found, k)
  ELSE found

PhrasesIn(tokens) ==
  LET after[k \in 0..WordCount(tokens)] ==
        IF k = 0 THEN [first |-> 0, dst |-> {}]
        ELSE NextFound(tokens, after[k - 1], k)
      last == after[WordCount(tokens)]
  IN  IF last.first # 0 THEN InsertedAt(tokens, last, WordCount(tokens) + 1).dst ELSE last.dst

(* Where the tokens have nouns.                                            *)
NounsOf(tokens, N) == [j \in 0..(N + 1) |-> j \in 1..N /\ IsNoun(tokens[3 * j - 1])]

(* The series the loop has found, and the one it is in.                    *)
FoundBefore(tokens, nn, N, k) == {SeriesOf(tokens, p[1], p[2] + 1) : p \in SeriesBefore(nn, N, k)}

FoundAt(tokens, nn, N, k) == [first |-> FirstOfSeries(nn, k), dst |-> FoundBefore(tokens, nn, N, k)]

(* What is found when a series ends, and when none does.                   *)
LEMMA FoundGrows ==
  ASSUME NEW N, NEW nn, HasNouns(nn, N), NEW k \in 1..(N + 1), NEW tokens
  PROVE  /\ nn[k] \/ ~nn[k - 1] => FoundBefore(tokens, nn, N, k) = FoundBefore(tokens, nn, N, k - 1)
         /\ ~nn[k] /\ nn[k - 1] =>
              FoundBefore(tokens, nn, N, k)
                = FoundBefore(tokens, nn, N, k - 1) \union {SeriesOf(tokens, FirstOfSeries(nn, k - 1), k)}
<1>1. N \in Nat /\ k \in Int
  BY DEF HasNouns
<1>2. nn[k] \/ ~nn[k - 1] => FoundBefore(tokens, nn, N, k) = FoundBefore(tokens, nn, N, k - 1)
  BY SeriesEnds DEF FoundBefore
<1>3. ASSUME ~nn[k], nn[k - 1]
      PROVE  FoundBefore(tokens, nn, N, k)
               = FoundBefore(tokens, nn, N, k - 1) \union {SeriesOf(tokens, FirstOfSeries(nn, k - 1), k)}
  <2> DEFINE f == FirstOfSeries(nn, k - 1)
             q == <<f, k - 1>>
             A == SeriesBefore(nn, N, k - 1)
  <2>1. SeriesBefore(nn, N, k) = A \union {q}
    BY <1>3, SeriesEnds
  <2>2. q[1] = f /\ q[2] + 1 = k
    BY <1>1
  <2> HIDE DEF q, A, f
  <2>3. {SeriesOf(tokens, p[1], p[2] + 1) : p \in A \union {q}}
          = {SeriesOf(tokens, p[1], p[2] + 1) : p \in A} \union {SeriesOf(tokens, q[1], q[2] + 1)}
    OBVIOUS
  <2>4. SeriesOf(tokens, q[1], q[2] + 1) = SeriesOf(tokens, f, k)
    BY <2>2
  <2> QED BY <2>1, <2>3, <2>4 DEF FoundBefore, A, f
<1> QED BY <1>2, <1>3

(* One word further.                                                       *)
LEMMA FoundNext ==
  ASSUME NEW N, NEW nn, HasNouns(nn, N), NEW k \in 1..N, NEW tokens, nn[k] = IsNoun(tokens[3 * k - 1])
  PROVE  NextFound(tokens, FoundAt(tokens, nn, N, k - 1), k) = FoundAt(tokens, nn, N, k)
<1> DEFINE x == FoundAt(tokens, nn, N, k - 1)
           y == FoundAt(tokens, nn, N, k)
           f == FirstOfSeries(nn, k - 1)
           D == FoundBefore(tokens, nn, N, k - 1)
           noun == IsNoun(tokens[3 * k - 1])
<1>1. N \in Nat /\ k \in 1..(N + 1) /\ k - 1 \in 0..N /\ k \in 0..N /\ k > 0
  BY DEF HasNouns
<1>2. nn[k - 1] \in BOOLEAN /\ nn[k] \in BOOLEAN
  BY <1>1 DEF HasNouns
<1>3. /\ ~nn[k - 1] => f = 0
      /\ nn[k - 1] => f # 0
  <2>1. nn[k - 1] => f \in 1..(k - 1)
    BY <1>1, FirstNoun
  <2>2. ~nn[k - 1] => f = 0
    BY <1>1, FirstNoun
  <2> HIDE DEF f
  <2> QED BY <1>1, <2>1, <2>2
<1>4. x.first = f /\ x.dst = D /\ x = [first |-> f, dst |-> D]
  BY DEF FoundAt
<1>5. y = [first |-> FirstOfSeries(nn, k), dst |-> FoundBefore(tokens, nn, N, k)]
  BY DEF FoundAt
<1> HIDE DEF x, y, f, D
<1>6. CASE nn[k] /\ ~nn[k - 1]
  <2>1. NextFound(tokens, x, k) = [first |-> k, dst |-> D]
    BY <1>3, <1>4, <1>6 DEF NextFound
  <2>2. FirstOfSeries(nn, k) = k
    BY <1>1, <1>6, FirstNoun
  <2>3. FoundBefore(tokens, nn, N, k) = D
    BY <1>1, <1>6, FoundGrows DEF D
  <2> QED BY <1>5, <2>1, <2>2, <2>3 DEF x, y
<1>7. CASE nn[k] /\ nn[k - 1]
  <2>1. NextFound(tokens, x, k) = x
    BY <1>3, <1>4, <1>7 DEF NextFound
  <2>2. FirstOfSeries(nn, k) = f
    BY <1>1, <1>7, FirstNoun DEF f
  <2>3. FoundBefore(tokens, nn, N, k) = D
    BY <1>1, <1>7, FoundGrows DEF D
  <2> QED BY <1>4, <1>5, <2>1, <2>2, <2>3 DEF x, y
<1>8. CASE ~nn[k] /\ ~nn[k - 1]
  <2>1. NextFound(tokens, x, k) = x
    BY <1>3, <1>4, <1>8 DEF NextFound
  <2>2. FirstOfSeries(nn, k) = f
    BY <1>1, <1>3, <1>8, FirstNoun
  <2>3. FoundBefore(tokens, nn, N, k) = D
    BY <1>1, <1>8, FoundGrows DEF D
  <2> QED BY <1>4, <1>5, <2>1, <2>2, <2>3 DEF x, y
<1>9. CASE ~nn[k] /\ nn[k - 1]
  <2>1. NextFound(tokens, x, k) = [first |-> 0, dst |-> D \union {SeriesOf(tokens, f, k)}]
    BY <1>3, <1>4, <1>9 DEF NextFound, InsertedAt
  <2>2. FirstOfSeries(nn, k) = 0
    BY <1>1, <1>9, FirstNoun
  <2>3. FoundBefore(tokens, nn, N, k) = D \union {SeriesOf(tokens, f, k)}
    BY <1>1, <1>9, FoundGrows DEF D, f
  <2> QED BY <1>5, <2>1, <2>2, <2>3 DEF x, y
<1> QED BY <1>2, <1>6, <1>7, <1>8, <1>9 DEF x, y

(* The loop finds all series.                                              *)
LEMMA AllSeriesFound ==
  ASSUME NEW tokens, NEW N, N = WordCount(tokens), NEW nn, HasNouns(nn, N),
         \A k \in 1..N : nn[k] = IsNoun(tokens[3 * k - 1])
  PROVE  PhrasesIn(tokens) = FoundBefore(tokens, nn, N, N + 1)
<1> DEFINE Body(h, k) == IF k = 0 THEN [first |-> 0, dst |-> {}] ELSE NextFound(tokens, h[k - 1], k)
           Is(h) == h = [k \in 0..N |-> Body(h, k)]
           h == CHOOSE h : Is(h)
           g == [k \in 0..N |-> FoundAt(tokens, nn, N, k)]
           last == h[N]
<1>1. N \in Nat /\ ~nn[0] /\ ~nn[N + 1] /\ \A k \in 0..(N + 1) : nn[k] \in BOOLEAN
  BY DEF HasNouns
<1>2. PhrasesIn(tokens) = IF last.first # 0 THEN InsertedAt(tokens, last, N + 1).dst ELSE last.dst
  BY DEF PhrasesIn
<1>3. FoundAt(tokens, nn, N, 0) = [first |-> 0, dst |-> {}]
  <2>1. FirstOfSeries(nn, 0) = 0
    BY <1>1 DEF FirstOfSeries
  <2>2. SeriesBefore(nn, N, 0) = {}
    <3> SUFFICES ASSUME NEW p \in SeriesBefore(nn, N, 0) PROVE FALSE
      OBVIOUS
    <3>1. p[2] \in 1..N /\ p[2] < 0
      BY DEF SeriesBefore
    <3> QED BY <1>1, <3>1
  <2> QED BY <2>1, <2>2 DEF FoundAt, FoundBefore
<1>4. Is(g)
  <2>1. ASSUME NEW k \in 0..N PROVE g[k] = Body(g, k)
    <3>1. CASE k = 0
      BY <1>3, <3>1
    <3>2. CASE k # 0
      <4>1. k \in 1..N /\ k - 1 \in 0..N
        BY <1>1, <3>2
      <4>2. g[k] = FoundAt(tokens, nn, N, k) /\ g[k - 1] = FoundAt(tokens, nn, N, k - 1)
        BY <4>1
      <4>3. Body(g, k) = NextFound(tokens, g[k - 1], k)
        BY <3>2
      <4>4. NextFound(tokens, FoundAt(tokens, nn, N, k - 1), k) = FoundAt(tokens, nn, N, k)
        BY <4>1, FoundNext
      <4> HIDE DEF g, Body
      <4> QED BY <4>2, <4>3, <4>4
    <3> QED BY <3>1, <3>2
  <2>2. g = [k \in 0..N |-> g[k]]
    OBVIOUS
  <2> HIDE DEF g, Body
  <2> QED BY <2>1, <2>2
<1>5. Is(h)
  BY <1>4
<1> HIDE DEF h, g
<1>6. \A k \in 0..N : h[k] = Body(h, k)
  BY <1>5
<1> HIDE DEF Is
<1> DEFINE P == {k \in 0..N : h[k] = FoundAt(tokens, nn, N, k)}
<1>7. N \in P
  <2>1. 0 \in P
    <3>1. 0 \in 0..N
      BY <1>1
    <3>2. h[0] = [first |-> 0, dst |-> {}]
      BY <1>6, <3>1
    <3>3. h[0] = FoundAt(tokens, nn, N, 0)
      BY <1>3, <3>2
    <3> QED BY <3>1, <3>3
  <2>2. ASSUME NEW k \in 1..N, k - 1 \in P PROVE k \in P
    <3>1. k \in 0..N /\ k # 0
      BY <1>1
    <3>2. h[k] = NextFound(tokens, h[k - 1], k)
      BY <1>6, <3>1
    <3>3. NextFound(tokens, FoundAt(tokens, nn, N, k - 1), k) = FoundAt(tokens, nn, N, k)
      BY FoundNext
    <3> QED BY <2>2, <3>1, <3>2, <3>3
  <2>3. P \in SUBSET (0..N) /\ N \in 0..N
    BY <1>1
  <2> HIDE DEF P
  <2> QED BY <1>1, <2>1, <2>2, <2>3, AlongLoop
<1> DEFINE f == FirstOfSeries(nn, N)
           D == FoundBefore(tokens, nn, N, N)
<1>8. last.first = f /\ last.dst = D
  BY <1>7 DEF FoundAt
<1>9. N + 1 \in 1..(N + 1) /\ N + 1 - 1 = N /\ N \in 0..N
  BY <1>1
<1> HIDE DEF last, f, D
<1>10. CASE nn[N]
  <2>1. f # 0
    <3>1. f \in 1..N
      BY <1>9, <1>10, FirstNoun DEF f
    <3> QED BY <1>1, <3>1
  <2>2. InsertedAt(tokens, last, N + 1).dst = D \union {SeriesOf(tokens, f, N + 1)}
    BY <1>8 DEF InsertedAt
  <2>3. nn[N + 1 - 1]
    BY <1>9, <1>10
  <2>4. FoundBefore(tokens, nn, N, N + 1)
          = FoundBefore(tokens, nn, N, N + 1 - 1) \union {SeriesOf(tokens, FirstOfSeries(nn, N + 1 - 1), N + 1)}
    BY <1>1, <1>9, <2>3, FoundGrows
  <2>5. FoundBefore(tokens, nn, N, N + 1) = D \union {SeriesOf(tokens, f, N + 1)}
    BY <1>9, <2>4 DEF D, f
  <2> QED BY <1>2, <1>8, <2>1, <2>2, <2>5
<1>11. CASE ~nn[N]
  <2>1. f = 0
    BY <1>9, <1>11, FirstNoun DEF f
  <2>2. FoundBefore(tokens, nn, N, N + 1) = FoundBefore(tokens, nn, N, N + 1 - 1)
    BY <1>9, <1>11, FoundGrows
  <2>3. FoundBefore(tokens, nn, N, N + 1) = D
    BY <1>9, <2>2 DEF D
  <2> QED BY <1>2, <1>8, <2>1, <2>3
<1> QED BY <1>10, <1>11

-----------------------------------------------------------------------------
(* Pieces                                                                  *)

(* What the loop that keeps empty pieces goes through.                     *)
NextPieces(ps, s, seps, k) ==
  IF s[k] \in seps THEN Append(ps, <<>>) ELSE [ps EXCEPT ![Len(ps)] = Append(@, s[k])]

Piecing(t, s, seps, n) ==
  t[0] = <<<<>>>> /\ \A k \in 1..n : t[k] = NextPieces(t[k - 1], s, seps, k)

Pieced(S) == Seq(Seq(S)) \ {<<>>}

(* One more character keeps the pieces texts, and at least one.            *)
LEMMA NextPiecesType ==
  ASSUME NEW S, NEW s \in Seq(S), NEW k \in 1..Len(s), NEW seps, NEW ps \in Pieced(S)
  PROVE  NextPieces(ps, s, seps, k) \in Pieced(S)
<1> DEFINE Q == Seq(S)
           c == s[k]
           e == <<>>
           m == Len(ps)
           a == Append(ps, e)
           y == Append(ps[m], c)
           x == [ps EXCEPT ![m] = y]
<1>1. c \in S
  BY ElementOfSeq
<1>2. e \in Q
  BY EmptySeq
<1>3. ps \in Seq(Q) /\ m \in 1..m
  BY EmptySeq, LenProperties DEF Pieced
<1> HIDE DEF c, e
<1>4. ps[m] \in Q
  <2> HIDE DEF Q
  <2> QED BY <1>3, ElementOfSeq
<1>5. y \in Q
  BY <1>1, <1>4, AppendProperties
<1>6. a \in Seq(Q) /\ Len(a) = m + 1
  <2> HIDE DEF Q
  <2> QED BY <1>2, <1>3, AppendProperties
<1>7. x \in Seq(Q) /\ Len(x) = m
  <2> HIDE DEF Q, y
  <2> QED BY <1>3, <1>5, ExceptSeq
<1>8. a # <<>> /\ x # <<>>
  <2>1. Len(a) # 0 /\ Len(x) # 0
    BY <1>3, <1>6, <1>7
  <2> HIDE DEF a, x
  <2> QED BY <2>1, EmptySeq
<1>9. NextPieces(ps, s, seps, k) = IF c \in seps THEN a ELSE x
  BY DEF NextPieces, c, e
<1> HIDE DEF a, x
<1> QED BY <1>6, <1>7, <1>8, <1>9 DEF Pieced

(* Pieces() is the last of them.                                           *)
LEMMA PiecesReached ==
  ASSUME NEW S, NEW s \in Seq(S), NEW seps
  PROVE  \E t \in [0..Len(s) -> Pieced(S)] :
           Piecing(t, s, seps, Len(s)) /\ Pieces(s, seps) = t[Len(s)]
<1> DEFINE n == Len(s)
           e == <<<<>>>>
           Body(h, k) == IF k = 0 THEN e ELSE NextPieces(h[k - 1], s, seps, k)
           Is(h) == h = [k \in 0..n |-> Body(h, k)]
           h == CHOOSE h : Is(h)
           f == [k \in 1..n |-> [ps \in Pieced(S) |-> NextPieces(ps, s, seps, k)]]
<1>1. n \in Nat /\ e \in Pieced(S)
  <2>1. <<>> \in Seq(S)
    BY EmptySeq
  <2> DEFINE x == <<>>
             Q == Seq(S)
             y == <<x>>
  <2>2. x \in Q
    BY <2>1
  <2> HIDE DEF x, Q
  <2>3. y \in Seq(Q) /\ Len(y) = 1
    BY <2>2, Tuples
  <2>4. y # <<>>
    BY <2>3, EmptySeq
  <2> QED BY <2>3, <2>4, LenProperties DEF Pieced, x, Q
<1>2. f \in [1..n -> [Pieced(S) -> Pieced(S)]]
  BY NextPiecesType
<1>3. \A k \in 1..n : \A ps \in Pieced(S) : f[k][ps] = NextPieces(ps, s, seps, k)
  OBVIOUS
<1>4. Pieces(s, seps) = h[n]
  BY DEF Pieces, NextPieces, n
<1>5. e = <<<<>>>>
  OBVIOUS
<1> HIDE DEF n, f, e
<1>6. PICK g : Passes(g, n, Pieced(S), e, f)
  BY <1>1, <1>2, Loop
<1>7. Is(g)
  <2>1. ASSUME NEW k \in 0..n PROVE g[k] = Body(g, k)
    <3>1. CASE k = 0
      BY <1>6, <3>1 DEF Passes
    <3>2. CASE k # 0
      <4>1. k \in 1..n /\ k - 1 \in 0..n
        BY <1>1, <3>2
      <4>2. g[k] = f[k][g[k - 1]] /\ g[k - 1] \in Pieced(S)
        BY <1>6, <4>1 DEF Passes
      <4> QED BY <1>3, <3>2, <4>1, <4>2
    <3> QED BY <3>1, <3>2
  <2>2. g = [k \in 0..n |-> g[k]]
    BY <1>6 DEF Passes
  <2> QED BY <2>1, <2>2
<1>8. Is(h)
  BY <1>7
<1> HIDE DEF h
<1>9. h[0] = e /\ \A k \in 1..n : h[k] = NextPieces(h[k - 1], s, seps, k)
  <2>1. 0 \in 0..n /\ \A k \in 1..n : k \in 0..n /\ k # 0
    BY <1>1
  <2>2. \A k \in 0..n : h[k] = Body(h, k)
    BY <1>8
  <2> QED BY <2>1, <2>2
<1> DEFINE P == {k \in 0..n : h[k] \in Pieced(S)}
<1>10. \A k \in 0..n : k \in P
  <2>1. 0 \in P
    BY <1>1, <1>9
  <2>2. ASSUME NEW k \in 1..n, k - 1 \in P PROVE k \in P
    <3>1. h[k] \in Pieced(S)
      BY <1>9, <2>2, NextPiecesType DEF n
    <3> QED BY <1>1, <3>1
  <2>3. P \in SUBSET (0..n)
    OBVIOUS
  <2> HIDE DEF P
  <2> QED BY <1>1, <2>1, <2>2, <2>3, AlongLoop
<1>11. h \in [0..n -> Pieced(S)]
  <2>1. h = [k \in 0..n |-> h[k]]
    BY <1>8
  <2>2. \A k \in 0..n : h[k] \in Pieced(S)
    BY <1>10
  <2> HIDE DEF Is
  <2> QED BY <2>1, <2>2
<1> QED BY <1>5, <1>4, <1>9, <1>11 DEF Piecing, n

(* One more character of a text.                                           *)
LEMMA PiecesAppend ==
  ASSUME NEW S, NEW s \in Seq(S), NEW c \in S, NEW seps
  PROVE  /\ Pieces(s, seps) \in Pieced(S)
         /\ Pieces(Append(s, c), seps) = NextPieces(Pieces(s, seps), Append(s, c), seps, Len(s) + 1)
<1> DEFINE n == Len(s)
           z == Append(s, c)
           m == n + 1
<1>1. n \in Nat
  BY LenProperties
<1>2. z \in Seq(S) /\ Len(z) = m /\ \A i \in 1..n : z[i] = s[i]
  BY AppendProperties
<1> HIDE DEF z, m
<1>3. PICK t \in [0..n -> Pieced(S)] : Piecing(t, s, seps, n) /\ Pieces(s, seps) = t[n]
  BY PiecesReached DEF n
<1>4. PICK u \in [0..m -> Pieced(S)] : Piecing(u, z, seps, m) /\ Pieces(z, seps) = u[m]
  BY <1>2, PiecesReached
<1> DEFINE P == {k \in 0..n : u[k] = t[k]}
<1>5. 0 \in P
  <2> DEFINE e == <<<<>>>>
  <2>1. u[0] = e /\ t[0] = e
    BY <1>3, <1>4 DEF Piecing
  <2> HIDE DEF e
  <2> QED BY <1>1, <2>1
<1>6. ASSUME NEW k \in 1..n, k - 1 \in P PROVE k \in P
  <2>1. k \in 1..m /\ k \in 0..n
    BY <1>1 DEF m
  <2>2. u[k] = NextPieces(u[k - 1], z, seps, k) /\ t[k] = NextPieces(t[k - 1], s, seps, k)
    BY <1>3, <1>4, <2>1 DEF Piecing
  <2>3. z[k] = s[k]
    BY <1>2
  <2>4. NextPieces(t[k - 1], z, seps, k) = NextPieces(t[k - 1], s, seps, k)
    BY <2>3 DEF NextPieces
  <2> QED BY <1>6, <2>1, <2>2, <2>4
<1>7. n \in P
  <2>1. P \in SUBSET (0..n) /\ n \in 0..n
    BY <1>1
  <2> HIDE DEF P, n
  <2> QED BY <1>1, <1>5, <1>6, <2>1, AlongLoop
<1>8. m \in 1..m /\ m - 1 = n /\ n \in 0..n
  BY <1>1 DEF m
<1>9. u[m] = NextPieces(u[n], z, seps, m)
  BY <1>4, <1>8 DEF Piecing
<1> QED BY <1>3, <1>4, <1>7, <1>8, <1>9 DEF z, m

(* A text after a separator: its pieces are Q and an empty one.            *)
After(z, seps, Q) == Pieces(z, seps) = Append(Q, <<>>)

(* A stretch without separators and the separator after it.                *)
LEMMA PiecesOfPart ==
  ASSUME NEW S, NEW z \in Seq(S), NEW x \in Seq(S), NEW seps, NEW c \in S, c \in seps,
         Plain(x, seps), NEW Q \in Seq(Seq(S)), After(z, seps, Q)
  PROVE  /\ Append(z \o x, c) \in Seq(S) /\ Append(Q, x) \in Seq(Seq(S))
         /\ After(Append(z \o x, c), seps, Append(Q, x))
<1> DEFINE n == Len(x)
           W == Seq(S)
           p(k) == SubSeq(x, 1, k)
           e == <<>>
           P == {k \in 0..n : Pieces(z \o p(k), seps) = Append(Q, p(k))}
<1>1. n \in Nat /\ Len(z) \in Nat
  BY LenProperties
<1>2. p(0) = e /\ z \o e = z
  <2>1. p(0) = e
    BY SubSeqEmpty
  <2> QED BY <2>1, ConcatEmptySeq
<1>3. ASSUME NEW k \in 0..n PROVE p(k) \in W /\ Len(p(k)) = k
  <2>1. CASE k = 0
    BY <1>2, <2>1, EmptySeq
  <2>2. CASE k # 0
    <3>1. \A i \in 1..k : x[i] \in S
      BY <1>1, ElementOfSeq
    <3>2. 1 \in Int /\ k \in Int /\ 1 <= k
      BY <1>1, <2>2
    <3> QED BY <3>1, <3>2, SubSeqProperties
  <2> QED BY <2>1, <2>2
<1>4. ASSUME NEW k \in 1..n PROVE p(k) = Append(p(k - 1), x[k])
  <2>1. CASE k = 1
    <3>1. p(1) = <<x[1]>>
      BY <2>1, Letter
    <3>2. p(k - 1) = <<>>
      BY <1>2, <2>1
    <3>3. Append(<<>>, x[1]) = <<x[1]>>
      BY Appended
    <3> HIDE DEF p
    <3> QED BY <2>1, <3>1, <3>2, <3>3
  <2>2. CASE k # 1
    <3>1. 1 \in 1..(k - 1)
      BY <1>1, <2>2
    <3> QED BY <3>1, OneMoreLetter
  <2> QED BY <2>1, <2>2
<1>5. p(n) = x
  BY SubSeqFull
<1>6. 0 \in P
  <2>1. Pieces(z, seps) = Append(Q, e)
    BY DEF After
  <2> HIDE DEF p, e
  <2>2. Pieces(z \o p(0), seps) = Append(Q, p(0))
    BY <1>2, <2>1
  <2> QED BY <1>1, <2>2
<1> HIDE DEF p, e
<1>7. ASSUME NEW k \in 1..n, k - 1 \in P PROVE k \in P
  <2> DEFINE d == x[k]
             y == p(k - 1)
             zy == z \o y
             a == Append(zy, d)
             v == Append(Q, y)
             w == Append(y, d)
  <2>1. k \in 0..n /\ k - 1 \in 0..n /\ d \in S /\ d \notin seps
    BY <1>1, ElementOfSeq DEF Plain
  <2>2. y \in W /\ p(k) = w
    BY <1>3, <1>4, <2>1
  <2>3. Pieces(zy, seps) = v
    BY <1>7
  <2> HIDE DEF y, d, P
  <2>4. zy \in Seq(S) /\ w \in W
    BY <2>1, <2>2, ConcatProperties, AppendProperties
  <2>5. a = z \o w
    <3>1. Along(z, y, d)
      BY <2>1, <2>2, AppendAlong
    <3> QED BY <3>1 DEF Along
  <2> HIDE DEF zy
  <2>6. Pieces(a, seps) = NextPieces(v, a, seps, Len(zy) + 1)
    BY <2>1, <2>3, <2>4, PiecesAppend
  <2>7. a[Len(zy) + 1] = d
    BY <2>1, <2>4, AppendProperties
  <2>8. NextPieces(v, a, seps, Len(zy) + 1) = [v EXCEPT ![Len(v)] = Append(@, d)]
    <3> HIDE DEF v, a
    <3> QED BY <2>1, <2>7 DEF NextPieces
  <2>9. [v EXCEPT ![Len(v)] = w] = Append(Q, w) /\ v[Len(v)] = y
    <3> HIDE DEF w, W
    <3>1. Q \in Seq(W) /\ y \in W /\ w \in W
      BY <2>2, <2>4 DEF W
    <3> QED BY <3>1, LastReplaced
  <2>10. [v EXCEPT ![Len(v)] = Append(@, d)] = Append(Q, w)
    <3>1. [v EXCEPT ![Len(v)] = Append(@, d)] = [v EXCEPT ![Len(v)] = Append(v[Len(v)], d)]
      OBVIOUS
    <3>2. Append(v[Len(v)], d) = w
      BY <2>9
    <3> HIDE DEF v, w
    <3> QED BY <2>9, <3>1, <3>2
  <2>11. Pieces(z \o w, seps) = Append(Q, w)
    <3> HIDE DEF w, v, a
    <3> QED BY <2>5, <2>6, <2>8, <2>10
  <2>12. Pieces(z \o p(k), seps) = Append(Q, p(k))
    <3> HIDE DEF w
    <3> QED BY <2>2, <2>11
  <2> QED BY <2>1, <2>12 DEF P
<1>8. n \in P
  <2>1. P \in SUBSET (0..n) /\ n \in 0..n
    BY <1>1
  <2> HIDE DEF P, n
  <2> QED BY <1>1, <1>6, <1>7, <2>1, AlongLoop
<1> DEFINE zx == z \o x
           b == Append(zx, c)
           R == Append(Q, x)
<1>9. Pieces(zx, seps) = R
  BY <1>5, <1>8
<1>10. zx \in Seq(S) /\ R \in Seq(W)
  <2>1. zx \in Seq(S)
    BY ConcatProperties
  <2>2. Q \in Seq(W) /\ x \in W
    OBVIOUS
  <2> HIDE DEF W
  <2> QED BY <2>1, <2>2, AppendProperties
<1> HIDE DEF zx, R
<1>11. b \in Seq(S) /\ b[Len(zx) + 1] = c
  BY <1>10, AppendProperties
<1>12. Pieces(b, seps) = NextPieces(R, b, seps, Len(zx) + 1)
  BY <1>9, <1>10, PiecesAppend
<1> HIDE DEF b
<1>13. After(b, seps, R)
  BY <1>11, <1>12 DEF NextPieces, After
<1> QED BY <1>10, <1>11, <1>13 DEF b, zx, R

(* A printed line adds three pieces.                                       *)
Three(Q, w, t, l) == Append(Append(Append(Q, w), <<t>>), l)

(* Its word, its tag and its lemma, since each has a separator after it.   *)
LEMMA PiecesOfLine ==
  ASSUME NEW S, NEW z \in Seq(S), NEW w \in Seq(S), NEW t \in S, NEW l \in Seq(S), NEW seps,
         NEW b \in S, b \in seps, NEW e \in S, e \in seps, Plain(w, seps), Plain(l, seps), t \notin seps,
         NEW Q \in Seq(Seq(S)), After(z, seps, Q)
  PROVE  /\ z \o Append(Row(w, t, l, b), e) \in Seq(S) /\ Three(Q, w, t, l) \in Seq(Seq(S))
         /\ After(z \o Append(Row(w, t, l, b), e), seps, Three(Q, w, t, l))
<1> DEFINE y == <<t>>
           r == Row(w, t, l, b)
           z1 == Append(z \o w, b)
           z2 == Append(z1 \o y, b)
           z3 == Append(z2 \o l, e)
           Q1 == Append(Q, w)
           Q2 == Append(Q1, y)
           Q3 == Append(Q2, l)
           x1 == Append(w, b)
           x2 == x1 \o y
           x3 == Append(x2, b)
           x4 == x3 \o l
<1>1. y \in Seq(S) /\ Plain(y, seps)
  <2>1. y \in Seq(S) /\ y # <<>> /\ Len(y) = 1 /\ y[1] = t
    OBVIOUS
  <2> QED BY <2>1 DEF Plain
<1>2. z1 \in Seq(S) /\ Q1 \in Seq(Seq(S)) /\ After(z1, seps, Q1)
  BY PiecesOfPart
<1>3. r \in Seq(S) /\ r = x4
  <2>1. r \in Seq(S) /\ OfParts(r, w, t, l, b)
    BY RowInParts
  <2> HIDE DEF r
  <2> QED BY <2>1 DEF OfParts
<1>4. Three(Q, w, t, l) = Q3
  BY DEF Three
<1>5. x1 \in Seq(S)
  BY AppendProperties
<1>6. z1 = z \o x1
  <2>1. Along(z, w, b)
    BY AppendAlong
  <2> QED BY <2>1 DEF Along
<1> HIDE DEF y, z1, Q1, x1, r
<1>7. x2 \in Seq(S)
  BY <1>1, <1>5, ConcatProperties
<1>8. z2 \in Seq(S) /\ Q2 \in Seq(Seq(S)) /\ After(z2, seps, Q2)
  BY <1>1, <1>2, PiecesOfPart
<1>9. z1 \o y = z \o x2
  <2>1. (z \o x1) \o y = z \o (x1 \o y)
    BY <1>1, <1>5, ConcatAssociative
  <2> QED BY <1>6, <2>1
<1> HIDE DEF x2
<1>10. z2 = z \o x3
  <2>1. Along(z, x2, b)
    BY <1>7, AppendAlong
  <2> QED BY <1>9, <2>1 DEF Along
<1>11. x3 \in Seq(S)
  BY <1>7, AppendProperties
<1> HIDE DEF z2, Q2, x3
<1>12. z3 \in Seq(S) /\ Q3 \in Seq(Seq(S)) /\ After(z3, seps, Q3)
  BY <1>8, PiecesOfPart
<1>13. z2 \o l = z \o x4
  <2>1. (z \o x3) \o l = z \o (x3 \o l)
    BY <1>11, ConcatAssociative, SMTT(30)
  <2> QED BY <1>10, <2>1
<1> HIDE DEF x4
<1>14. z3 = z \o Append(r, e)
  <2>1. Along(z, r, e)
    BY <1>3, AppendAlong
  <2> QED BY <1>3, <1>13, <2>1 DEF Along
<1> HIDE DEF z3, Q3
<1> QED BY <1>4, <1>12, <1>14 DEF r

(* Three members more.                                                     *)
LEMMA ThreeMore ==
  ASSUME NEW W, NEW Q \in Seq(W), NEW w \in W, NEW t, <<t>> \in W, NEW l \in W
  PROVE  /\ Len(Three(Q, w, t, l)) = Len(Q) + 3
         /\ \A i \in 1..Len(Q) : Three(Q, w, t, l)[i] = Q[i]
         /\ Three(Q, w, t, l)[Len(Q) + 1] = w
         /\ Three(Q, w, t, l)[Len(Q) + 2] = <<t>>
         /\ Three(Q, w, t, l)[Len(Q) + 3] = l
<1> DEFINE n == Len(Q)
           y == <<t>>
           Q1 == Append(Q, w)
           Q2 == Append(Q1, y)
           Q3 == Append(Q2, l)
<1>1. n \in Nat
  BY LenProperties
<1>2. Q1 \in Seq(W) /\ Len(Q1) = n + 1 /\ Q1[n + 1] = w /\ \A i \in 1..n : Q1[i] = Q[i]
  BY AppendProperties
<1> HIDE DEF Q1
<1>3. y \in W
  OBVIOUS
<1> HIDE DEF y
<1>4. Q2 \in Seq(W) /\ Len(Q2) = n + 2 /\ Q2[n + 2] = y /\ \A i \in 1..(n + 1) : Q2[i] = Q1[i]
  <2>1. /\ Q2 \in Seq(W) /\ Len(Q2) = Len(Q1) + 1 /\ Q2[Len(Q1) + 1] = y
        /\ \A i \in 1..Len(Q1) : Q2[i] = Q1[i]
    BY <1>2, <1>3, AppendProperties
  <2>2. Len(Q1) + 1 = n + 2
    BY <1>1, <1>2
  <2> HIDE DEF Q2, n
  <2> QED BY <1>2, <2>1, <2>2
<1> HIDE DEF Q2
<1>5. Len(Q3) = n + 3 /\ Q3[n + 3] = l /\ \A i \in 1..(n + 2) : Q3[i] = Q2[i]
  <2>1. Len(Q3) = Len(Q2) + 1 /\ Q3[Len(Q2) + 1] = l /\ \A i \in 1..Len(Q2) : Q3[i] = Q2[i]
    BY <1>4, AppendProperties
  <2>2. Len(Q2) + 1 = n + 3
    BY <1>1, <1>4
  <2> HIDE DEF Q3, n
  <2> QED BY <1>4, <2>1, <2>2
<1> HIDE DEF Q3
<1>6. \A i \in 1..n : Q3[i] = Q[i]
  <2>1. \A i \in 1..n : i \in 1..(n + 1) /\ i \in 1..(n + 2)
    BY <1>1
  <2> QED BY <1>2, <1>4, <1>5, <2>1
<1>7. Q3[n + 1] = w /\ Q3[n + 2] = y
  <2>1. n + 1 \in 1..(n + 1) /\ n + 1 \in 1..(n + 2) /\ n + 2 \in 1..(n + 2)
    BY <1>1
  <2> QED BY <1>2, <1>4, <1>5, <2>1
<1>8. Three(Q, w, t, l) = Q3
  BY DEF Three, Q3, Q2, Q1, y
<1> QED BY <1>5, <1>6, <1>7, <1>8 DEF n, y

(* The pieces are words, tags and lemmas in turn.                          *)
Thirds(Q, words, t, l, k) ==
  /\ Len(Q) = 3 * k
  /\ \A i \in 1..k : Q[3 * i - 2] = words[i] /\ Q[3 * i - 1] = <<t[i]>> /\ Q[3 * i] = l[i]

(* One line more.                                                          *)
LEMMA ThirdsGrow ==
  ASSUME NEW W, NEW Q \in Seq(W), NEW words, NEW t, NEW l, NEW k \in Nat \ {0},
         words[k] \in W, <<t[k]>> \in W, l[k] \in W, Thirds(Q, words, t, l, k - 1)
  PROVE  Thirds(Three(Q, words[k], t[k], l[k]), words, t, l, k)
<1> DEFINE R == Three(Q, words[k], t[k], l[k])
           n == Len(Q)
           x == t[k]
           u == words[k]
           v == l[k]
<1>1. n = 3 * (k - 1) /\ n + 1 = 3 * k - 2 /\ n + 2 = 3 * k - 1 /\ n + 3 = 3 * k
  BY DEF Thirds
<1>2. /\ Len(R) = n + 3 /\ \A i \in 1..n : R[i] = Q[i]
      /\ R[n + 1] = u /\ R[n + 2] = <<x>> /\ R[n + 3] = v
  <2>1. u \in W /\ <<x>> \in W /\ v \in W /\ R = Three(Q, u, x, v)
    OBVIOUS
  <2> DEFINE T == Three(Q, u, x, v)
  <2> HIDE DEF R, x, u, v
  <2>2. /\ Len(T) = Len(Q) + 3 /\ \A i \in 1..Len(Q) : T[i] = Q[i]
        /\ T[Len(Q) + 1] = u /\ T[Len(Q) + 2] = <<x>> /\ T[Len(Q) + 3] = v
    BY <2>1, ThreeMore
  <2> HIDE DEF T
  <2> QED BY <2>1, <2>2 DEF T
<1> HIDE DEF R, n
<1>3. ASSUME NEW i \in 1..k
      PROVE  R[3 * i - 2] = words[i] /\ R[3 * i - 1] = <<t[i]>> /\ R[3 * i] = l[i]
  <2>1. CASE i = k
    BY <1>1, <1>2, <2>1
  <2>2. CASE i # k
    <3>1. i \in 1..(k - 1) /\ 3 * i - 2 \in 1..n /\ 3 * i - 1 \in 1..n /\ 3 * i \in 1..n
      BY <1>1, <2>2
    <3>2. Q[3 * i - 2] = words[i] /\ Q[3 * i - 1] = <<t[i]>> /\ Q[3 * i] = l[i]
      BY <3>1 DEF Thirds
    <3> QED BY <1>2, <3>1, <3>2
  <2> QED BY <2>1, <2>2
<1> QED BY <1>1, <1>2, <1>3 DEF Thirds, R

(* The pieces of what is printed.                                          *)
LEMMA PiecesOfLines ==
  ASSUME NEW S, NEW N \in Nat, NEW words, NEW t, NEW l, NEW seps,
         NEW b \in S, b \in seps, NEW e \in S, e \in seps,
         \A i \in 1..N : /\ words[i] \in Seq(S) /\ t[i] \in S /\ l[i] \in Seq(S)
                         /\ Plain(words[i], seps) /\ Plain(l[i], seps) /\ t[i] \notin seps
  PROVE  \E Q \in Seq(Seq(S)) :
           /\ After(FlattenSeq([i \in 1..N |-> Append(Row(words[i], t[i], l[i], b), e)]), seps, Q)
           /\ Thirds(Q, words, t, l, N)
<1> DEFINE c == [i \in 1..N |-> Append(Row(words[i], t[i], l[i], b), e)]
           W == Seq(S)
           Good(z, k) == \E Q \in Seq(W) : After(z, seps, Q) /\ Thirds(Q, words, t, l, k)
<1>1. Good(<<>>, 0) /\ <<>> \in W
  <2> DEFINE x == <<>>
             y == <<x>>
  <2>1. x \in W /\ Len(x) = 0 /\ x \in Seq(W)
    BY EmptySeq
  <2>2. Pieces(x, seps) = y
    <3>3. y = <<<<>>>>
      OBVIOUS
    <3> HIDE DEF y
    <3>1. PICK f \in [0..Len(x) -> Pieced(S)] : Piecing(f, x, seps, Len(x)) /\ Pieces(x, seps) = f[Len(x)]
      <4> HIDE DEF x
      <4> QED BY <2>1, PiecesReached
    <3> HIDE DEF x
    <3> QED BY <2>1, <3>1, <3>3 DEF Piecing
  <2>3. Append(x, x) = y
    BY Appended
  <2>4. After(x, seps, x)
    <3>1. x = <<>>
      OBVIOUS
    <3> HIDE DEF x, y
    <3>2. Pieces(x, seps) = Append(x, x)
      BY <2>2, <2>3 DEF y
    <3> QED BY <3>1, <3>2 DEF After
  <2>5. Thirds(x, words, t, l, 0)
    BY <2>1 DEF Thirds
  <2> QED BY <2>1, <2>4, <2>5
<1>2. ASSUME NEW k \in 1..N, NEW z \in W, Good(z, k - 1)
      PROVE  z \o c[k] \in W /\ Good(z \o c[k], k)
  <2> DEFINE w == words[k]
             u == t[k]
             v == l[k]
             d == Append(Row(w, u, v, b), e)
  <2>1. PICK Q \in Seq(W) : After(z, seps, Q) /\ Thirds(Q, words, t, l, k - 1)
    BY <1>2
  <2>2. c[k] = d
    OBVIOUS
  <2>3. /\ w \in Seq(S) /\ u \in S /\ v \in Seq(S)
        /\ Plain(w, seps) /\ Plain(v, seps) /\ u \notin seps
    OBVIOUS
  <2> HIDE DEF c
  <2>4. /\ z \o d \in Seq(S) /\ Three(Q, w, u, v) \in Seq(Seq(S))
        /\ After(z \o d, seps, Three(Q, w, u, v))
    <3> HIDE DEF w, u, v
    <3> QED BY <2>1, <2>3, PiecesOfLine
  <2>5. Thirds(Three(Q, w, u, v), words, t, l, k)
    <3>1. k \in Nat \ {0} /\ w \in W /\ v \in W
      BY <2>3
    <3>2. <<u>> \in W
      BY <2>3
    <3> HIDE DEF W
    <3> QED BY <2>1, <3>1, <3>2, ThirdsGrow
  <2> HIDE DEF w, u, v, d
  <2> QED BY <2>2, <2>4, <2>5
<1>3. CASE N = 0
  <2>1. c = <<>>
    BY <1>3
  <2>2. FlattenSeq(<<>>) = <<>>
    BY DEF FlattenSeq
  <2>3. FlattenSeq(c) = <<>>
    BY <2>1, <2>2
  <2> HIDE DEF c
  <2> QED BY <1>1, <1>3, <2>3 DEF c
<1>4. CASE N # 0
  <2>1. IsList(c, N, Seq(S))
    <3>1. \A i \in 1..N : c[i] \in Seq(S)
      <4> SUFFICES ASSUME NEW i \in 1..N PROVE Append(Row(words[i], t[i], l[i], b), e) \in Seq(S)
        OBVIOUS
      <4>1. Row(words[i], t[i], l[i], b) \in Seq(S)
        BY RowInParts
      <4> QED BY <4>1, AppendProperties
    <3>2. c = [i \in 1..N |-> c[i]]
      OBVIOUS
    <3> HIDE DEF c
    <3> QED BY <3>1, <3>2 DEF IsList
  <2> HIDE DEF c, Good, W
  <2>2. PICK h : IsList(h, N, Seq(S)) /\ FlatList(h, c, N)
    BY <1>4, <2>1, FlattenReached
  <2>3. /\ \A i \in 1..N : h[i] \in W /\ c[i] \in W
        /\ FlattenSeq(c) = h[N] /\ h[1] = c[1] /\ \A i \in 2..N : h[i] = h[i - 1] \o c[i]
    BY <2>1, <2>2 DEF IsList, FlatList, W
  <2> DEFINE P == {k \in 0..N : k = 0 \/ Good(h[k], k)}
  <2>4. 0 \in P
    OBVIOUS
  <2>5. ASSUME NEW k \in 1..N, k - 1 \in P PROVE k \in P
    <3>1. k \in 0..N
      OBVIOUS
    <3>2. CASE k = 1
      <4>1. <<>> \o c[1] = h[1]
        BY <2>3, <3>2, ConcatEmptySeq DEF W
      <4>2. Good(<<>>, k - 1)
        BY <1>1, <3>2
      <4>3. Good(<<>> \o c[k], k)
        BY <1>1, <1>2, <4>2
      <4> QED BY <3>1, <3>2, <4>1, <4>3
    <3>3. CASE k # 1
      <4>1. k - 1 \in 1..N /\ k - 1 # 0 /\ k \in 2..N
        BY <3>3
      <4>2. h[k - 1] \in W /\ Good(h[k - 1], k - 1) /\ h[k] = h[k - 1] \o c[k]
        BY <2>3, <2>5, <4>1
      <4> QED BY <1>2, <3>1, <4>2
    <3> QED BY <3>2, <3>3
  <2>6. N \in P
    <3>1. P \in SUBSET (0..N) /\ N \in 0..N
      OBVIOUS
    <3> HIDE DEF P
    <3> QED BY <2>4, <2>5, <3>1, AlongLoop
  <2>7. Good(FlattenSeq(c), N)
    BY <1>4, <2>3, <2>6
  <2> QED BY <2>7 DEF Good, c, W
<1> QED BY <1>3, <1>4

(* A text of blanks has no tokens.                                         *)
LEMMA OnlySpaces ==
  ASSUME NEW S, NEW s \in Seq(S), Unspaced(s) = <<>>
  PROVE  Tokens(s, Blank) = <<>>
<1> DEFINE n == Len(s)
           Letters(k) == \E i \in 1..k : s[i] # " "
<1>1. n \in Nat /\ \A k \in 1..n : s[k] \in S
  BY LenProperties, ElementOfSeq
<1>2. PICK h : Keeping(h, S, s) /\ Unspaced(s) = h[n]
  BY WordsKept
<1>3. /\ h \in [0..n -> Seq(S)]
      /\ \A k \in 1..n : h[k] = IF s[k] = " " THEN h[k - 1] ELSE Append(h[k - 1], s[k])
  BY <1>2 DEF Keeping
<1> HIDE DEF n
<1> DEFINE P == {k \in 0..n : Letters(k) => h[k] # <<>>}
<1>4. 0 \in P
  <2>1. ~Letters(0) /\ 0 \in 0..n
    BY <1>1
  <2> HIDE DEF Letters
  <2> QED BY <2>1
<1>5. ASSUME NEW k \in 1..n, k - 1 \in P PROVE k \in P
  <2>1. k \in 0..n /\ k - 1 \in 0..n /\ \A i \in 1..k : i = k \/ i \in 1..(k - 1)
    BY <1>1
  <2>2. CASE s[k] = " "
    <3>1. h[k] = h[k - 1]
      BY <1>3, <2>2
    <3>2. Letters(k) => Letters(k - 1)
      BY <2>1, <2>2
    <3> QED BY <1>5, <2>1, <3>1, <3>2
  <2>3. CASE s[k] # " "
    <3> DEFINE x == h[k - 1]
               c == s[k]
    <3>1. x \in Seq(S) /\ c \in S /\ h[k] = Append(x, c)
      BY <1>1, <1>3, <2>1, <2>3
    <3> HIDE DEF x, c
    <3>2. Len(Append(x, c)) = Len(x) + 1 /\ Append(x, c) \in Seq(S) /\ Len(x) \in Nat
      BY <3>1, AppendProperties, LenProperties
    <3>3. Len(Append(x, c)) # 0
      BY <3>2
    <3>4. h[k] # <<>>
      BY <3>1, <3>2, <3>3, EmptySeq
    <3> QED BY <2>1, <3>4
  <2> QED BY <2>2, <2>3
<1>6. n \in P
  <2> HIDE DEF Letters
  <2>1. P \in SUBSET (0..n) /\ n \in 0..n
    BY <1>1
  <2> HIDE DEF P
  <2> QED BY <1>1, <1>4, <1>5, <2>1, AlongLoop
<1>7. \A i \in 1..n : s[i] \in Blank
  BY <1>2, <1>6 DEF Blank
<1> DEFINE ts == Tokens(s, Blank)
<1>8. ts \in Seq(Seq(S) \ {<<>>})
  BY TokensCounted DEF Tokened
<1>9. Len(ts) = 0
  <2>1. Len(ts) = Cardinality(Starts(s, Blank, n))
    BY TokensCounted DEF n
  <2>2. Starts(s, Blank, n) = {}
    BY <1>7 DEF Starts
  <2> HIDE DEF ts
  <2> QED BY <2>1, <2>2, FS_EmptySet
<1> HIDE DEF ts
<1> QED BY <1>8, <1>9, EmptySeq DEF ts

(* No words are found in an empty text, nor in a space.                    *)
LEMMA NothingTagged ==
  ASSUME NEW T, Signs \subseteq T, NEW x \in Seq(T), Unspaced(x) = <<>>
  PROVE  perl_split(Tokenizer(x)) = <<>>
<1> DEFINE s == Tokenizer(x)
<1>1. s \in Seq(T) /\ Unspaced(s) = <<>>
  BY RetokenizedKeeps DEF SameWords
<1> HIDE DEF s
<1>2. Tokens(s, Blank) = <<>>
  BY <1>1, OnlySpaces
<1> QED BY <1>2 DEF perl_split, s

(* So the final space of an empty text changes nothing.                    *)
LEMMA EmptyOrSpace ==
  ASSUME NEW T, Signs \subseteq T, Spacing(T)
  PROVE  tag(Tokenizer(<<>>)) = tag(Tokenizer(Append(<<>>, " ")))
<1> DEFINE e == <<>>
           y == Append(e, " ")
           W(x) == perl_split(Tokenizer(x))
<1>1. e \in Seq(T) /\ Unspaced(e) = <<>>
  <2>1. e \in Seq(T) /\ Len(e) = 0
    BY EmptySeq
  <2> HIDE DEF e
  <2>2. PICK h : Keeping(h, T, e) /\ Unspaced(e) = h[Len(e)]
    BY <2>1, WordsKept
  <2> QED BY <2>1, <2>2 DEF Keeping
<1>2. y \in Seq(T) /\ Unspaced(y) = <<>>
  <2>1. y \in Seq(T)
    BY <1>1, AppendProperties DEF Spacing
  <2>2. y = e \o <<" ">>
    <3> DEFINE b == " "
    <3>1. b \in T
      BY DEF Spacing
    <3> HIDE DEF b, e
    <3>2. Append(e, b) = e \o <<b>>
      BY <1>1, <3>1, AppendIsConcat
    <3> QED BY <3>2 DEF b
  <2>3. SameWords(e \o <<" ">>, e)
    <3> HIDE DEF e
    <3> QED BY <1>1, SpaceIsNothing
  <2> HIDE DEF e, y
  <2> QED BY <1>1, <2>1, <2>2, <2>3 DEF SameWords
<1>3. W(e) = <<>> /\ W(y) = <<>>
  <2> HIDE DEF e, y
  <2> QED BY <1>1, <1>2, NothingTagged
<1>4. W(e) = W(y)
  <2> HIDE DEF e, y, W
  <2> QED BY <1>3
<1>5. \A x : tag(Tokenizer(x)) = FlattenSeq(Printed(W(x)))
  BY DEF tag, Printed
<1> HIDE DEF e, y, W
<1>6. tag(Tokenizer(e)) = tag(Tokenizer(y))
  BY <1>4, <1>5
<1> QED BY <1>6 DEF e, y

(* FindNounPhrase() goes through the pieces of the text and its final      *)
(* space.                                                                  *)
LEMMA WithFinalSpace ==
  ASSUME NEW T, Signs \subseteq T, "\n" \notin T, NEW s \in Seq(T)
  PROVE  FindNounPhrase(s) = PhrasesIn(Pieces(tag(Tokenizer(Append(s, " "))), Marks))
<1> DEFINE c == [i \in DOMAIN s |-> IF s[i] = "\n" THEN " " ELSE s[i]]
           b == " "
           F(x) == PhrasesIn(Pieces(tag(Tokenizer(x)), Marks))
<1>1. \A x : check_and_tag(x) = F(x)
  BY DEF check_and_tag, PhrasesIn, Marks, WordCount, NextFound, InsertedAt, SeriesOf
<1>2. c = s
  <2>1. DOMAIN s = 1..Len(s) /\ s = [i \in 1..Len(s) |-> s[i]] /\ \A i \in 1..Len(s) : s[i] \in T
    BY LenProperties, ElementOfSeq
  <2>2. \A i \in 1..Len(s) : s[i] # "\n"
    BY <2>1
  <2> QED BY <2>1, <2>2
<1>3. b \in T /\ Spacing(T)
  BY DEF Signs, Spacing
<1> HIDE DEF F
<1>4. CASE s = <<>>
  <2> DEFINE e == <<>>
  <2>1. FindNounPhrase(s) = check_and_tag(c \o e)
    BY <1>4 DEF FindNounPhrase
  <2>2. c \o e = e
    BY <1>2, <1>4, ConcatEmptySeq
  <2>3. tag(Tokenizer(e)) = tag(Tokenizer(Append(e, " ")))
    BY <1>3, EmptyOrSpace
  <2>4. s = e
    BY <1>4
  <2> HIDE DEF e, c
  <2>5. FindNounPhrase(s) = F(e)
    BY <1>1, <2>1, <2>2
  <2>6. F(e) = F(Append(s, " "))
    BY <2>3, <2>4 DEF F
  <2> QED BY <2>5, <2>6 DEF F
<1>5. CASE s # <<>>
  <2>1. Last(s) # "\n"
    <3>1. Len(s) \in 1..Len(s)
      BY <1>5, LenProperties, EmptySeq
    <3>2. s[Len(s)] \in T
      BY <3>1, ElementOfSeq
    <3> QED BY <3>2 DEF Last
  <2>2. FindNounPhrase(s) = check_and_tag(c \o <<" ">>)
    BY <1>5, <2>1 DEF FindNounPhrase
  <2>3. s \o <<b>> = Append(s, b)
    <3> HIDE DEF b
    <3> QED BY <1>3, AppendIsConcat
  <2> HIDE DEF c
  <2>4. FindNounPhrase(s) = F(Append(s, " "))
    BY <1>1, <1>2, <2>2, <2>3
  <2> QED BY <2>4 DEF F
<1> QED BY <1>4, <1>5

(* The pieces, when the words are printed in rows.                         *)
Tripled(tokens, words, t, l) ==
  /\ WordCount(tokens) = Len(words)
  /\ \A i \in 1..Len(words) : tokens[3 * i - 1] = <<t[i]>> /\ tokens[3 * i] = l[i]

(* Every third piece is a lemma, and the one before it is its tag.         *)
LEMMA TriplesOfRows ==
  ASSUME NEW words, NEW t, NEW l, NEW V, InRows(words, t, l, V)
  PROVE  Tripled(Pieces(FlattenSeq(Printed(words)), Marks), words, t, l)
<1> DEFINE N == Len(words)
           b == "\t"
           e == "\n"
           c == [i \in 1..N |-> Append(Row(words[i], t[i], l[i], b), e)]
           tokens == Pieces(FlattenSeq(c), Marks)
           none == <<>>
<1>1. b \in V /\ e \in V /\ N \in Nat /\ Printed(words) = c
  BY DEF InRows
<1>2. \A i \in 1..N : /\ words[i] \in Seq(V) /\ t[i] \in V /\ l[i] \in Seq(V)
                      /\ Plain(words[i], Marks) /\ Plain(l[i], Marks) /\ t[i] \notin Marks
  BY DEF InRows, Printable, Plain
<1>3. b \in Marks /\ e \in Marks
  BY DEF Marks, Blank
<1>4. PICK Q \in Seq(Seq(V)) : After(FlattenSeq(c), Marks, Q) /\ Thirds(Q, words, t, l, N)
  <2> HIDE DEF N, b, e, c
  <2>1. \E Q \in Seq(Seq(V)) :
          /\ After(FlattenSeq([i \in 1..N |-> Append(Row(words[i], t[i], l[i], b), e)]), Marks, Q)
          /\ Thirds(Q, words, t, l, N)
    BY <1>1, <1>2, <1>3, PiecesOfLines, ZenonT(30)
  <2> QED BY <2>1 DEF c
<1> HIDE DEF c
<1>5. tokens = Append(Q, none)
  BY <1>4 DEF After
<1>6. none \in Seq(V)
  BY EmptySeq
<1> HIDE DEF tokens, none
<1>7. Len(Q) = 3 * N /\ Len(tokens) = Len(Q) + 1 /\ \A i \in 1..Len(Q) : tokens[i] = Q[i]
  <2> DEFINE W == Seq(V)
  <2>1. Q \in Seq(W) /\ none \in W
    BY <1>6
  <2> HIDE DEF W
  <2>2. Len(Append(Q, none)) = Len(Q) + 1 /\ \A i \in 1..Len(Q) : Append(Q, none)[i] = Q[i]
    BY <2>1, AppendProperties
  <2> QED BY <1>4, <1>5, <2>2 DEF Thirds
<1>8. ASSUME NEW i \in 1..N PROVE tokens[3 * i - 1] = <<t[i]>> /\ tokens[3 * i] = l[i]
  <2>1. 3 * i - 1 \in 1..Len(Q) /\ 3 * i \in 1..Len(Q)
    BY <1>1, <1>7
  <2> QED BY <1>4, <1>7, <2>1 DEF Thirds
<1>9. Len(tokens) \div 3 = N
  <2> HIDE DEF N
  <2>1. Len(tokens) = 3 * N + 1
    BY <1>1, <1>7
  <2>2. (3 * N + 1) \div 3 = N
    BY <1>1
  <2> QED BY <2>1, <2>2
<1>10. Tripled(tokens, words, t, l)
  BY <1>8, <1>9 DEF Tripled, WordCount
<1> QED BY <1>1, <1>10 DEF tokens

(* FindNounPhrase() finds the longest series of nouns of the lists of      *)
(* lemmatize(), all of them and nothing else, for every text without line  *)
(* ends, when no tag is a blank or a line end: NounPhrasesAreMaximal.      *)
THEOREM NounPhrasesHold ==
  ASSUME "\n" \notin Alphabet, \A w \in Seq(Alphabet \union Signs) : TagOf(w) \notin Marks
  PROVE  TextSpec => []NounPhrasesAreMaximal
<1>1. IsText => NounPhrasesAreMaximal
  <2> SUFFICES ASSUME IsText PROVE NounPhrasesAreMaximal
    OBVIOUS
  <2> DEFINE T == Alphabet \union Signs
             z == Append(text, " ")
             words == perl_split(Tokenizer(z))
             p == FlattenSeq(Printed(words))
             a == lemmatize(z)
             tokens == Pieces(p, Marks)
             N == Len(words)
  <2>1. text \in Seq(T) /\ Signs \subseteq T /\ "\n" \notin T /\ " " \in T
    <3>1. " " \in Signs /\ "\n" \notin Signs
      BY DEF Signs
    <3>2. Alphabet \subseteq T /\ text \in Seq(Alphabet)
      BY DEF IsText
    <3>3. Signs \subseteq T /\ "\n" \notin T
      BY <3>1
    <3>4. text \in Seq(T)
      <4> HIDE DEF T
      <4> QED BY <3>2
    <3>5. " " \in T
      BY <3>1, <3>3
    <3> HIDE DEF T
    <3> QED BY <3>3, <3>4, <3>5
  <2>2. \A w \in Seq(T) : TagOf(w) \notin Marks
    OBVIOUS
  <2> HIDE DEF T
  <2>3. z \in Seq(T)
    BY <2>1, AppendProperties
  <2>4. FindNounPhrase(text) = PhrasesIn(Pieces(tag(Tokenizer(z)), Marks))
    BY <2>1, WithFinalSpace
  <2> HIDE DEF z
  <2>5. Taggable(words, T)
    BY <2>1, <2>2, <2>3, WordsTaggable
  <2>6. p = tag(Tokenizer(z))
    BY DEF tag, Printed
  <2> HIDE DEF words
  <2>7. PICK t, l, V : InColumns(p, words, t, l) /\ InRows(words, t, l, V)
    BY <2>5, AlignedLists
  <2>8. Tripled(tokens, words, t, l)
    BY <2>7, TriplesOfRows
  <2>9. a.pos = Column(LinesIn(p), FieldsIn(p), 2) /\ a.lemmas = Column(LinesIn(p), FieldsIn(p), 3)
    <3> HIDE DEF p
    <3> QED BY <2>6 DEF lemmatize, Column, LinesIn, FieldsIn
  <2> HIDE DEF p, a
  <2>10. N \in Nat /\ a.pos = [i \in 1..N |-> <<t[i]>>] /\ a.lemmas = [i \in 1..N |-> l[i]]
    BY <2>7, <2>9 DEF InColumns, InRows
  <2> HIDE DEF tokens, N
  <2>11. /\ N = WordCount(tokens)
         /\ \A i \in 1..N : tokens[3 * i - 1] = <<t[i]>> /\ tokens[3 * i] = l[i]
    BY <2>8 DEF Tripled, N
  <2>12. /\ DOMAIN a.pos = 1..N
         /\ \A i \in 1..N : tokens[3 * i - 1] = a.pos[i] /\ tokens[3 * i] = a.lemmas[i]
    BY <2>10, <2>11
  <2> DEFINE nn == NounsOf(tokens, N)
             noun(i) == i \in DOMAIN a.pos /\ IsNoun(a.pos[i])
             phrase(q) == FlattenSeq([k \in 1..(q[2] - q[1] + 1) |-> Append(a.lemmas[q[1] + k - 1], " ")])
             maximal == {q \in (DOMAIN a.pos) \X (DOMAIN a.pos) :
                           /\ q[1] <= q[2] /\ \A k \in q[1]..q[2] : noun(k)
                           /\ ~noun(q[1] - 1) /\ ~noun(q[2] + 1)}
  <2>13. HasNouns(nn, N) /\ \A k \in 1..N : nn[k] = IsNoun(tokens[3 * k - 1])
    <3>1. /\ 0 \in 0..(N + 1) /\ 0 \notin 1..N /\ N + 1 \in 0..(N + 1) /\ N + 1 \notin 1..N
          /\ \A k \in 1..N : k \in 0..(N + 1)
      BY <2>10
    <3>2. nn \in [0..(N + 1) -> BOOLEAN]
      BY DEF NounsOf, IsNoun
    <3>3. \A k \in 1..N : nn[k] = IsNoun(tokens[3 * k - 1])
      <4>1. \A k \in 1..N : IsNoun(tokens[3 * k - 1]) \in BOOLEAN
        BY DEF IsNoun
      <4> HIDE DEF IsNoun
      <4> QED BY <3>1, <4>1 DEF NounsOf
    <3>4. ~nn[0] /\ ~nn[N + 1]
      BY <3>1 DEF NounsOf
    <3> HIDE DEF nn
    <3> QED BY <2>10, <3>2, <3>3, <3>4 DEF HasNouns
  <2>14. \A i \in 0..(N + 1) : noun(i) <=> nn[i]
    <3> SUFFICES ASSUME NEW i \in 0..(N + 1) PROVE noun(i) <=> nn[i]
      OBVIOUS
    <3>1. nn[i] <=> i \in 1..N /\ IsNoun(tokens[3 * i - 1])
      BY DEF NounsOf
    <3> QED BY <2>12, <3>1
  <2>15. FindNounPhrase(text) = {SeriesOf(tokens, q[1], q[2] + 1) : q \in SeriesBefore(nn, N, N + 1)}
    <3>1. PhrasesIn(tokens) = FoundBefore(tokens, nn, N, N + 1)
      <4> HIDE DEF nn
      <4> QED BY <2>11, <2>13, AllSeriesFound
    <3> QED BY <2>4, <2>6, <3>1 DEF FoundBefore, tokens
  <2> HIDE DEF nn, noun
  <2>16. maximal = SeriesBefore(nn, N, N + 1)
    <3>1. ASSUME NEW q \in (1..N) \X (1..N), q[1] <= q[2]
          PROVE  /\ (\A k \in q[1]..q[2] : noun(k)) /\ ~noun(q[1] - 1) /\ ~noun(q[2] + 1) <=> IsSeries(nn, q)
                 /\ q[2] < N + 1
      <4>1. q[1] \in 1..N /\ q[2] \in 1..N
        OBVIOUS
      <4>2. /\ q[1] - 1 \in 0..(N + 1) /\ q[2] + 1 \in 0..(N + 1) /\ q[2] < N + 1
            /\ \A k \in q[1]..q[2] : k \in 0..(N + 1)
        BY <2>10, <4>1
      <4> QED BY <2>14, <4>2 DEF IsSeries
    <3> QED BY <2>12, <3>1 DEF SeriesBefore
  <2>17. ASSUME NEW q \in SeriesBefore(nn, N, N + 1)
         PROVE  SeriesOf(tokens, q[1], q[2] + 1) = phrase(q)
    <3> DEFINE u == q[1]
               v == q[2]
               c == [k \in 1..((v + 1) - u) |-> Append(tokens[3 * (u + k - 1)], " ")]
               d == [k \in 1..(v - u + 1) |-> Append(a.lemmas[u + k - 1], " ")]
    <3>1. u \in 1..N /\ v \in 1..N
      BY DEF SeriesBefore
    <3> HIDE DEF u, v
    <3>2. (v + 1) - u = v - u + 1 /\ \A k \in 1..(v - u + 1) : u + k - 1 \in 1..N
      BY <2>10, <3>1
    <3>3. \A k \in 1..(v - u + 1) : tokens[3 * (u + k - 1)] = a.lemmas[u + k - 1]
      BY <2>12, <3>2
    <3>4. c = d
      BY <3>2, <3>3
    <3>5. SeriesOf(tokens, u, v + 1) = FlattenSeq(c)
      BY DEF SeriesOf
    <3>6. phrase(q) = FlattenSeq(d)
      BY DEF u, v
    <3> HIDE DEF c, d, phrase
    <3> QED BY <3>4, <3>5, <3>6 DEF u, v
  <2>18. FindNounPhrase(text) = {phrase(q) : q \in maximal}
    <3> HIDE DEF phrase, maximal
    <3> QED BY <2>15, <2>16, <2>17
  <2> QED BY <2>18 DEF NounPhrasesAreMaximal, NounSeries, maximal, phrase, noun, a, z
<1> QED BY <1>1, TextTyped, PTL
=============================================================================
