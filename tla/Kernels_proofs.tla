--------------------------- MODULE Kernels_proofs ---------------------------
(***************************************************************************)
(* The algorithms that keep no state between calls.  Multiplication and    *)
(* division are exact for numbers of every length, for every length of a   *)
(* limb and every choice of the thresholds, and the three algorithms for   *)
(* the greatest common divisor find it: the steps that Lehmer's algorithm  *)
(* simulates on leading words are the steps of Euclid's.  The canonical    *)
(* order, the weight order and the path order of the rewriter are strict   *)
(* on all the terms, and the net of rules proposes every rule that matches *)
(* a term.  The recursive functions are unfolded first, by an induction    *)
(* over the natural numbers or over the heights of the terms.              *)
(***************************************************************************)
EXTENDS Arithmetic, Comparisons, RuleNet, Recursion

-----------------------------------------------------------------------------
(* Powers of two and of the base. *)

Doubling(f, n) == f = [i \in 0 .. n |-> IF i = 0 THEN 1 ELSE 2 * f[i - 1]]

(* The recursion of TwoTo has a solution on every prefix. *)
LEMMA DoublingExists == \A n \in Nat : \E f : Doubling(f, n)
<1> DEFINE P == {n \in Nat : \E f : Doubling(f, n)}
<1>1. 0 \in P
  <2>1. Doubling([i \in 0 .. 0 |-> 1], 0)
    BY DEF Doubling
  <2> QED
    BY <2>1
<1>2. ASSUME NEW n \in Nat, n \in P PROVE n + 1 \in P
  <2>1. PICK f : Doubling(f, n)
    BY <1>2
  <2> DEFINE g == [i \in 0 .. n + 1 |-> IF i = n + 1 THEN 2 * f[i - 1] ELSE f[i]]
  <2>2. g = [i \in 0 .. n + 1 |-> g[i]]
    OBVIOUS
  <2>3. ASSUME NEW i \in 0 .. n + 1
        PROVE  g[i] = IF i = 0 THEN 1 ELSE 2 * g[i - 1]
    <3>1. CASE i = n + 1
      BY <3>1
    <3>2. CASE i \in 0 .. n
      <4>1. g[i] = f[i] /\ (i # 0 => g[i - 1] = f[i - 1])
        BY <3>2
      <4> QED
        BY <2>1, <3>2, <4>1 DEF Doubling
    <3> QED
      BY <3>1, <3>2
  <2> HIDE DEF g
  <2>4. Doubling(g, n + 1)
    BY <2>2, <2>3 DEF Doubling
  <2> QED
    BY <2>4
<1> HIDE DEF P
<1>3. Nat \subseteq P
  BY <1>1, <1>2, SetInduction
<1> QED
  BY <1>3 DEF P

(* TwoTo is the last value of that solution. *)
LEMMA TwoToUnfolds ==
    ASSUME NEW n \in Nat
    PROVE  \E f : Doubling(f, n) /\ TwoTo(n) = f[n]
<1> DEFINE power[i \in 0 .. n] == IF i = 0 THEN 1 ELSE 2 * power[i - 1]
<1>1. Doubling(power, n)
  BY DoublingExists DEF Doubling
<1>2. TwoTo(n) = power[n]
  BY DEF TwoTo
<1> HIDE DEF power
<1> QED
  BY <1>1, <1>2

(* Two solutions agree where both are defined. *)
LEMMA DoublingUnique ==
    ASSUME NEW m \in Nat, NEW n \in Nat, m <= n, NEW f, NEW g, Doubling(f, m), Doubling(g, n)
    PROVE  f[m] = g[m]
<1> DEFINE P == {i \in Nat : i <= m => f[i] = g[i]}
<1>1. 0 \in P
  BY DEF Doubling
<1>2. ASSUME NEW i \in Nat, i \in P PROVE i + 1 \in P
  <2> SUFFICES ASSUME i + 1 <= m PROVE f[i + 1] = g[i + 1]
    OBVIOUS
  <2>1. f[i + 1] = 2 * f[i]
    BY DEF Doubling
  <2>2. g[i + 1] = 2 * g[i]
    BY DEF Doubling
  <2> QED
    BY <1>2, <2>1, <2>2
<1> HIDE DEF P
<1>3. Nat \subseteq P
  BY <1>1, <1>2, SetInduction
<1> QED
  BY <1>3 DEF P

(* The powers of two. *)
LEMMA TwoToIs ==
    /\ TwoTo(0) = 1
    /\ \A n \in Nat : TwoTo(n) \in Nat /\ TwoTo(n) > 0 /\ TwoTo(n + 1) = 2 * TwoTo(n)
<1>1. TwoTo(0) = 1
  BY TwoToUnfolds DEF Doubling
<1>2. ASSUME NEW n \in Nat PROVE TwoTo(n + 1) = 2 * TwoTo(n)
  <2>1. PICK f : Doubling(f, n) /\ TwoTo(n) = f[n]
    BY TwoToUnfolds
  <2>2. PICK g : Doubling(g, n + 1) /\ TwoTo(n + 1) = g[n + 1]
    BY TwoToUnfolds
  <2>3. f[n] = g[n]
    BY <2>1, <2>2, DoublingUnique
  <2>4. g[n + 1] = 2 * g[n]
    BY <2>2 DEF Doubling
  <2> QED
    BY <2>1, <2>2, <2>3, <2>4
<1> DEFINE P == {n \in Nat : TwoTo(n) \in Nat /\ TwoTo(n) > 0}
<1>3. 0 \in P /\ \A n \in Nat : n \in P => n + 1 \in P
  BY <1>1, <1>2
<1> HIDE DEF P
<1>4. Nat \subseteq P
  BY <1>3, SetInduction
<1> QED
  BY <1>1, <1>2, <1>4 DEF P

(* Powers multiply where their exponents add. *)
LEMMA TwoToAdds ==
    ASSUME NEW a \in Nat, NEW b \in Nat
    PROVE  TwoTo(a + b) = TwoTo(a) * TwoTo(b)
<1> DEFINE P == {n \in Nat : TwoTo(a + n) = TwoTo(a) * TwoTo(n)}
<1>1. 0 \in P
  BY TwoToIs
<1>2. ASSUME NEW n \in Nat, n \in P PROVE n + 1 \in P
  <2>1. TwoTo(a + (n + 1)) = 2 * TwoTo(a + n)
    <3>1. a + (n + 1) = (a + n) + 1 /\ a + n \in Nat
      OBVIOUS
    <3> QED
      BY <3>1, TwoToIs
  <2>2. TwoTo(n + 1) = 2 * TwoTo(n) /\ TwoTo(n) \in Nat /\ TwoTo(a) \in Nat
    BY TwoToIs
  <2> QED
    BY <1>2, <2>1, <2>2
<1> HIDE DEF P
<1>3. Nat \subseteq P
  BY <1>1, <1>2, SetInduction
<1> QED
  BY <1>3 DEF P

(* Powers grow with their exponents, and at least double. *)
LEMMA TwoToGrows ==
    ASSUME NEW a \in Nat, NEW b \in Nat, a <= b
    PROVE  TwoTo(a) <= TwoTo(b) /\ (a < b => 2 * TwoTo(a) <= TwoTo(b))
<1>1. b - a \in Nat /\ a + (b - a) = b
  OBVIOUS
<1>2. TwoTo(b) = TwoTo(a) * TwoTo(b - a)
  BY <1>1, TwoToAdds
<1>3. TwoTo(a) \in Nat /\ TwoTo(b - a) \in Nat /\ TwoTo(b - a) > 0
  BY <1>1, TwoToIs
<1>4. ASSUME a < b PROVE TwoTo(b - a) >= 2
  <2> DEFINE c == b - a - 1
  <2>1. c \in Nat /\ b - a = c + 1
    BY <1>4
  <2> HIDE DEF c
  <2>2. TwoTo(c + 1) = 2 * TwoTo(c) /\ TwoTo(c) \in Nat /\ TwoTo(c) > 0
    BY <2>1, TwoToIs
  <2> QED
    BY <2>1, <2>2
<1> QED
  BY <1>2, <1>3, <1>4

(* What is needed of the powers of the base. *)
LEMMA BetaIs ==
    /\ Beta(0) = 1 /\ B = TwoTo(LimbBits) /\ B \in Nat /\ B >= 4
    /\ \A n \in Nat : Beta(n) \in Nat /\ Beta(n) > 0 /\ (n > 0 => Beta(n) >= 4)
    /\ \A m, n \in Nat : Beta(m + n) = Beta(m) * Beta(n)
    /\ \A m, n \in Nat : m <= n => Beta(m) <= Beta(n)
<1> USE BigIntAssumption
<1>1. \A n \in Nat : n * LimbBits \in Nat
  OBVIOUS
<1>2. Beta(0) = 1
  BY TwoToIs DEF Beta
<1>3. B = TwoTo(LimbBits)
  <2>1. 1 * LimbBits = LimbBits
    OBVIOUS
  <2> QED
    BY <2>1 DEF B, Beta
<1>4. \A n \in Nat : Beta(n) \in Nat /\ Beta(n) > 0
  BY <1>1, TwoToIs DEF Beta
<1>5. \A m, n \in Nat : Beta(m + n) = Beta(m) * Beta(n)
  <2> SUFFICES ASSUME NEW m \in Nat, NEW n \in Nat PROVE Beta(m + n) = Beta(m) * Beta(n)
    OBVIOUS
  <2>1. (m + n) * LimbBits = m * LimbBits + n * LimbBits
    OBVIOUS
  <2> QED
    BY <1>1, <2>1, TwoToAdds DEF Beta
<1>6. \A m, n \in Nat : m <= n => Beta(m) <= Beta(n)
  <2> SUFFICES ASSUME NEW m \in Nat, NEW n \in Nat, m <= n PROVE Beta(m) <= Beta(n)
    OBVIOUS
  <2>1. m * LimbBits <= n * LimbBits
    OBVIOUS
  <2> QED
    BY <1>1, <2>1, TwoToGrows DEF Beta
<1>7. B >= 4
  <2>1. TwoTo(2) = 4
    <3>1. TwoTo(0 + 1) = 2 * TwoTo(0)
      BY ONLY TwoToIs, 0 \in Nat
    <3>2. TwoTo(1 + 1) = 2 * TwoTo(1)
      BY ONLY TwoToIs, 1 \in Nat
    <3> QED
      BY <3>1, <3>2, TwoToIs
  <2>2. TwoTo(2) <= TwoTo(LimbBits)
    BY TwoToGrows
  <2> QED
    BY <1>3, <2>1, <2>2, TwoToIs
<1>8. \A n \in Nat : n > 0 => Beta(n) >= 4
  <2> SUFFICES ASSUME NEW n \in Nat, n > 0 PROVE Beta(n) >= 4
    OBVIOUS
  <2>1. Beta(1) <= Beta(n)
    BY <1>6
  <2> QED
    BY <1>4, <1>7, <2>1 DEF B
<1>9. B \in Nat
  BY <1>4 DEF B
<1> QED
  BY <1>2, <1>3, <1>4, <1>5, <1>6, <1>7, <1>8, <1>9

(* The parts of the last lemma that are needed everywhere. *)
LEMMA BetaNat == ASSUME NEW n \in Nat PROVE Beta(n) \in Nat /\ Beta(n) > 0
  BY BetaIs

LEMMA BetaAdds == ASSUME NEW m \in Nat, NEW n \in Nat PROVE Beta(m + n) = Beta(m) * Beta(n)
  BY BetaIs

LEMMA BetaGrows == ASSUME NEW m \in Nat, NEW n \in Nat, m <= n PROVE Beta(m) <= Beta(n)
  BY BetaIs

-----------------------------------------------------------------------------
(* The length of a number. *)

Counting(f, a, base) == f = [x \in 0 .. a |-> IF x = 0 THEN 0 ELSE 1 + f[x \div base]]

(* The recursion of Digits has a solution on every prefix. *)
LEMMA CountingExists ==
    ASSUME NEW base \in Nat, base >= 2
    PROVE  \A a \in Nat : \E f : Counting(f, a, base)
<1> DEFINE P == {a \in Nat : \E f : Counting(f, a, base)}
<1>1. 0 \in P
  <2>1. Counting([x \in 0 .. 0 |-> 0], 0, base)
    BY DEF Counting
  <2> QED
    BY <2>1
<1>2. ASSUME NEW a \in Nat, a \in P PROVE a + 1 \in P
  <2>1. PICK f : Counting(f, a, base)
    BY <1>2
  <2> DEFINE g == [x \in 0 .. a + 1 |-> IF x = a + 1 THEN 1 + f[x \div base] ELSE f[x]]
  <2>2. g = [x \in 0 .. a + 1 |-> g[x]]
    OBVIOUS
  <2>3. ASSUME NEW x \in 0 .. a + 1
        PROVE  g[x] = IF x = 0 THEN 0 ELSE 1 + g[x \div base]
    <3>1. x # 0 => x \div base \in 0 .. x - 1
      OBVIOUS
    <3>2. x # 0 => g[x \div base] = f[x \div base]
      BY <3>1
    <3>3. CASE x = a + 1
      BY <3>2, <3>3
    <3>4. CASE x \in 0 .. a
      <4>1. g[x] = f[x]
        BY <3>4
      <4>2. f[x] = IF x = 0 THEN 0 ELSE 1 + f[x \div base]
        BY <2>1, <3>4 DEF Counting
      <4> HIDE DEF g
      <4> QED
        BY <3>2, <4>1, <4>2
    <3> QED
      BY <3>3, <3>4
  <2> HIDE DEF g
  <2>4. Counting(g, a + 1, base)
    BY <2>2, <2>3 DEF Counting
  <2> QED
    BY <2>4
<1> HIDE DEF P
<1>3. Nat \subseteq P
  BY <1>1, <1>2, SetInduction
<1> QED
  BY <1>3 DEF P

(* Digits is the last value of that solution. *)
LEMMA DigitsUnfolds ==
    ASSUME NEW base \in Nat, base >= 2, NEW a \in Nat
    PROVE  \E f : Counting(f, a, base) /\ Digits(a, base) = f[a]
<1> DEFINE count[x \in 0 .. a] == IF x = 0 THEN 0 ELSE 1 + count[x \div base]
<1>1. Counting(count, a, base)
  BY CountingExists DEF Counting
<1>2. Digits(a, base) = count[a]
  BY DEF Digits
<1> HIDE DEF count
<1> QED
  BY <1>1, <1>2

(* A number lies between two neighbouring powers of the base. *)
LEMMA DigitsAre ==
    ASSUME NEW w \in Nat, w > 0, NEW a \in Nat
    PROVE  LET n == Digits(a, TwoTo(w))
           IN  /\ n \in Nat /\ a < TwoTo(n * w)
               /\ a = 0 => n = 0
               /\ a # 0 => n > 0 /\ TwoTo((n - 1) * w) <= a
<1> DEFINE base == TwoTo(w)
           Right(x, n) == /\ n \in Nat /\ x < TwoTo(n * w)
                          /\ x = 0 => n = 0
                          /\ x # 0 => n > 0 /\ TwoTo((n - 1) * w) <= x
<1>1. base \in Nat /\ base >= 2
  <2>1. 2 * TwoTo(0) <= base
    BY TwoToGrows
  <2> QED
    BY <2>1, TwoToIs
<1> HIDE DEF base
<1>2. PICK f : Counting(f, a, base) /\ Digits(a, base) = f[a]
  BY <1>1, DigitsUnfolds
<1> DEFINE P == {k \in Nat : \A x \in 0 .. a : x <= k => Right(x, f[x])}
<1>3. Right(0, f[0])
  <2>1. f[0] = 0
    BY <1>2 DEF Counting
  <2> QED
    BY <2>1, TwoToIs
<1>4. ASSUME NEW x \in 0 .. a, x # 0, Right(x \div base, f[x \div base])
      PROVE  Right(x, f[x])
  <2> DEFINE y == x \div base
             n == f[y]
  <2>1. f[x] = 1 + n
    BY <1>2, <1>4 DEF Counting
  <2>2. y \in Nat /\ y * base <= x /\ x < y * base + base
    BY <1>1
  <2>3. n \in Nat /\ y < TwoTo(n * w) /\ (y = 0 => n = 0) /\ (y # 0 => n > 0 /\ TwoTo((n - 1) * w) <= y)
    BY <1>4
  <2> HIDE DEF y, n
  <2>4. n * w \in Nat /\ (n + 1) * w = n * w + w
    BY <2>3
  <2>5. TwoTo((n + 1) * w) = TwoTo(n * w) * base /\ TwoTo(n * w) \in Nat
    BY <2>4, TwoToAdds, TwoToIs DEF base
  <2>6. x < TwoTo((n + 1) * w)
    <3>1. y + 1 <= TwoTo(n * w)
      BY <2>2, <2>3, <2>5
    <3>2. (y + 1) * base <= TwoTo(n * w) * base
      BY <1>1, <2>2, <2>5, <3>1
    <3>3. (y + 1) * base = y * base + base
      BY <1>1, <2>2
    <3> QED
      BY <1>1, <2>2, <2>5, <3>2, <3>3
  <2>7. TwoTo(n * w) <= x
    <3>1. CASE y = 0
      BY <1>4, <2>3, <3>1, TwoToIs
    <3>2. CASE y # 0
      <4>1. n - 1 \in Nat /\ (n - 1) * w \in Nat /\ n * w = (n - 1) * w + w
        BY <2>3, <3>2
      <4>2. TwoTo(n * w) = TwoTo((n - 1) * w) * base /\ TwoTo((n - 1) * w) \in Nat
        BY <4>1, TwoToAdds, TwoToIs DEF base
      <4>3. TwoTo((n - 1) * w) * base <= y * base
        BY <1>1, <2>2, <2>3, <3>2, <4>2
      <4> QED
        BY <1>1, <2>2, <4>2, <4>3
    <3> QED
      BY <3>1, <3>2
  <2>8. (1 + n) - 1 = n /\ 1 + n = n + 1
    BY <2>3
  <2> QED
    BY <1>4, <2>1, <2>3, <2>6, <2>7, <2>8
<1>5. 0 \in P
  BY <1>3
<1>6. ASSUME NEW k \in Nat, k \in P PROVE k + 1 \in P
  <2> SUFFICES ASSUME NEW x \in 0 .. a, x <= k + 1 PROVE Right(x, f[x])
    OBVIOUS
  <2>1. x # 0 => x \div base \in 0 .. x - 1
    BY <1>1
  <2>2. x # 0 => Right(x \div base, f[x \div base])
    BY <1>6, <2>1
  <2> HIDE DEF Right
  <2> QED
    BY <1>3, <1>4, <2>2
<1>7. Nat \subseteq P
  <2> HIDE DEF P
  <2> QED
    BY <1>5, <1>6, SetInduction
<1>8. Right(a, f[a])
  <2> HIDE DEF Right
  <2> QED
    BY <1>7
<1> QED
  BY <1>2, <1>8 DEF base

(* The limbs of a number. *)
LEMMA LimbCountIs ==
    ASSUME NEW a \in Nat
    PROVE  /\ LimbCount(a) \in Nat /\ a < Beta(LimbCount(a))
           /\ a = 0 => LimbCount(a) = 0
           /\ a # 0 => LimbCount(a) > 0 /\ Beta(LimbCount(a) - 1) <= a
<1>1. LimbBits \in Nat /\ LimbBits > 0
  BY BigIntAssumption
<1>2. LimbCount(a) = Digits(a, TwoTo(LimbBits))
  BY BetaIs DEF LimbCount
<1> QED
  BY <1>1, <1>2, DigitsAre DEF Beta

(* A number of n limbs and no fewer has a count of n. *)
LEMMA LimbCountUnique ==
    ASSUME NEW a \in Nat, NEW n \in Nat \ {0}, Beta(n - 1) <= a, a < Beta(n)
    PROVE  LimbCount(a) = n
<1> DEFINE m == LimbCount(a)
<1>1. n - 1 \in Nat /\ Beta(n - 1) > 0 /\ Beta(n - 1) \in Nat
  BY BetaIs
<1>2. a # 0
  BY <1>1
<1>3. m \in Nat /\ a < Beta(m) /\ m > 0 /\ Beta(m - 1) <= a
  BY <1>2, LimbCountIs
<1> HIDE DEF m
<1>4. m - 1 \in Nat /\ Beta(m - 1) \in Nat /\ Beta(m) \in Nat /\ Beta(n) \in Nat
  BY <1>3, BetaIs
<1>5. ASSUME m < n PROVE FALSE
  <2>1. Beta(m) <= Beta(n - 1)
    BY <1>1, <1>3, <1>5, BetaIs
  <2> QED
    BY <1>1, <1>3, <1>4, <2>1
<1>6. ASSUME m > n PROVE FALSE
  <2>1. Beta(n) <= Beta(m - 1)
    BY <1>3, <1>4, <1>6, BetaIs
  <2> QED
    BY <1>3, <1>4, <2>1
<1>7. m = n
  BY <1>3, <1>5, <1>6
<1> QED
  BY <1>7 DEF m

(* The shift makes the top bit of the top limb one. *)
LEMMA NormalizeShiftIs ==
    ASSUME NEW v \in Nat, v # 0
    PROVE  LET n == LimbCount(v)
               d == TwoTo(NormalizeShift(v))
           IN  d \in Nat /\ d > 0 /\ v * d < Beta(n) /\ Beta(n) <= 2 * (v * d)
<1> DEFINE n == LimbCount(v)
           k == BitLength(v)
           s == NormalizeShift(v)
<1>1. n \in Nat /\ n > 0 /\ v < Beta(n) /\ Beta(n - 1) <= v
  BY LimbCountIs
<1>2. k \in Nat /\ k > 0 /\ v < TwoTo(k) /\ TwoTo(k - 1) <= v
  <2>1. TwoTo(1) = 2
    <3>1. TwoTo(0 + 1) = 2 * TwoTo(0)
      BY ONLY TwoToIs, 0 \in Nat
    <3> QED
      BY <3>1, TwoToIs
  <2>2. Digits(v, TwoTo(1)) = k
    BY <2>1 DEF BitLength
  <2>3. /\ k \in Nat /\ v < TwoTo(k * 1)
        /\ k > 0 /\ TwoTo((k - 1) * 1) <= v
    BY <2>2, DigitsAre
  <2>4. k * 1 = k /\ (k - 1) * 1 = k - 1
    BY <2>3
  <2> QED
    BY <2>3, <2>4
<1>3. s = n * LimbBits - k
  BY DEF NormalizeShift
<1> HIDE DEF n, k, s
<1>4. n * LimbBits \in Nat /\ Beta(n) = TwoTo(n * LimbBits)
  BY <1>1, BigIntAssumption DEF Beta
<1>5. k <= n * LimbBits
  <2> SUFFICES ASSUME n * LimbBits <= k - 1 PROVE FALSE
    BY <1>2, <1>4
  <2>1. TwoTo(n * LimbBits) <= TwoTo(k - 1)
    BY <1>2, <1>4, TwoToGrows
  <2> QED
    BY <1>1, <1>2, <1>4, <2>1, TwoToIs
<1>6. s \in Nat /\ s + k = n * LimbBits /\ s + (k - 1) \in Nat /\ (s + (k - 1)) + 1 = n * LimbBits
  BY <1>2, <1>3, <1>4, <1>5
<1>7. Beta(n) = TwoTo(s) * TwoTo(k)
  BY <1>2, <1>4, <1>6, TwoToAdds
<1>8. Beta(n) = 2 * (TwoTo(s) * TwoTo(k - 1))
  <2>1. TwoTo(n * LimbBits) = 2 * TwoTo(s + (k - 1))
    BY <1>6, TwoToIs
  <2>2. TwoTo(s + (k - 1)) = TwoTo(s) * TwoTo(k - 1)
    BY <1>2, <1>6, TwoToAdds
  <2> QED
    BY <1>4, <2>1, <2>2
<1>9. TwoTo(s) \in Nat /\ TwoTo(s) > 0 /\ TwoTo(k) \in Nat /\ TwoTo(k - 1) \in Nat
  BY <1>2, <1>6, TwoToIs
<1>10. v * TwoTo(s) < TwoTo(k) * TwoTo(s)
  BY <1>2, <1>9
<1>11. TwoTo(k - 1) * TwoTo(s) <= v * TwoTo(s)
  BY <1>2, <1>9
<1>12. Beta(n) \in Nat
  BY <1>1, BetaIs
<1> QED
  BY <1>7, <1>8, <1>9, <1>10, <1>11, <1>12 DEF n, s

-----------------------------------------------------------------------------
(* Quotients, and the limbs of a number. *)

(* What a quotient and a remainder are, and that nothing else is. *)
LEMMA QuotientIs ==
    ASSUME NEW a \in Nat, NEW b \in Nat, b > 0
    PROVE  /\ a \div b \in Nat /\ a % b \in Nat /\ a % b < b
           /\ a = (a \div b) * b + (a % b)
  OBVIOUS

LEMMA QuotientUnique ==
    ASSUME NEW b \in Nat, NEW q \in Nat, NEW r \in Nat, r < b
    PROVE  (q * b + r) \div b = q /\ (q * b + r) % b = r
  OBVIOUS

(* Two divisions are one by the product. *)
LEMMA QuotientTwice ==
    ASSUME NEW a \in Nat, NEW b \in Nat, NEW c \in Nat, b > 0, c > 0
    PROVE  (a \div b) \div c = a \div (b * c)
<1> DEFINE q == (a \div b) \div c
           r == (a \div b) % c
           s == a % b
<1>1. q \in Nat /\ r \in Nat /\ r < c /\ a \div b \in Nat /\ a \div b = q * c + r
  OBVIOUS
<1>2. s \in Nat /\ s < b /\ a = (a \div b) * b + s
  OBVIOUS
<1> HIDE DEF q, r, s
<1>3. a = q * (b * c) + (r * b + s)
  BY <1>1, <1>2
<1>4. r * b + s \in Nat /\ r * b + s < b * c /\ b * c \in Nat
  <2>1. (r + 1) * b <= c * b
    BY <1>1
  <2> QED
    BY <1>1, <1>2, <2>1
<1>5. a \div (b * c) = q
  BY <1>1, <1>3, <1>4, QuotientUnique
<1> QED
  BY <1>5 DEF q

(* The limbs from a place on are the quotient by the base to that place, when there are
   no more of them. *)
LEMMA LimbsAre ==
    ASSUME NEW a \in Nat, NEW i \in Nat, NEW n \in Nat
    PROVE  /\ Limbs(a, i, n) \in Nat /\ Limbs(a, i, n) < Beta(n)
           /\ a < Beta(i + n) => Limbs(a, i, n) = a \div Beta(i)
<1> DEFINE q == a \div Beta(i)
           r == a % Beta(i)
<1>1. Beta(i) \in Nat /\ Beta(i) > 0 /\ Beta(n) \in Nat /\ Beta(n) > 0 /\ Beta(i + n) = Beta(i) * Beta(n)
  BY BetaIs
<1>2. q \in Nat /\ r \in Nat /\ a = q * Beta(i) + r
  BY <1>1, QuotientIs
<1> HIDE DEF q, r
<1>3. Limbs(a, i, n) = q % Beta(n)
  BY DEF Limbs, q
<1>4. ASSUME a < Beta(i + n) PROVE q < Beta(n)
  <2> SUFFICES ASSUME Beta(n) <= q PROVE FALSE
    BY <1>1, <1>2
  <2>1. Beta(n) * Beta(i) <= q * Beta(i)
    BY <1>1, <1>2
  <2> QED
    BY <1>1, <1>2, <1>4, <2>1
<1> QED
  BY <1>1, <1>2, <1>3, <1>4 DEF q

(* The low limbs. *)
LEMMA LowLimbs ==
    ASSUME NEW a \in Nat, NEW n \in Nat
    PROVE  /\ Limbs(a, 0, n) \in Nat /\ Limbs(a, 0, n) < Beta(n)
           /\ a \div Beta(n) \in Nat
           /\ a = (a \div Beta(n)) * Beta(n) + Limbs(a, 0, n)
<1>1. Beta(0) = 1 /\ Beta(n) \in Nat /\ Beta(n) > 0
  BY BetaIs
<1>2. Limbs(a, 0, n) = a % Beta(n)
  <2>1. a \div 1 = a
    OBVIOUS
  <2> QED
    BY <1>1, <2>1 DEF Limbs
<1> QED
  BY <1>1, <1>2, QuotientIs

-----------------------------------------------------------------------------
(* One quotient limb of Algorithm D. *)

\* The test of Refine after k corrections.
TooLarge(q, r, v1, v2, next, k) ==
    /\ r + k * v1 < B
    /\ (q - k >= B \/ (q - k) * v2 > (r + k * v1) * B + next)

(* Refine stops after the fewest corrections that pass its test. *)
LEMMA RefineIs ==
    ASSUME NEW q \in Nat, NEW r \in Nat, NEW v1 \in Nat, NEW v2 \in Nat, NEW next \in Nat
    PROVE  \E k \in 0 .. q : /\ Refine(q, r, v1, v2, next) = q - k
                             /\ ~TooLarge(q, r, v1, v2, next, k)
                             /\ \A i \in 0 .. k - 1 : TooLarge(q, r, v1, v2, next, i)
<1> DEFINE Large(k) == TooLarge(q, r, v1, v2, next, k)
           First(k) == ~Large(k) /\ \A i \in 0 .. k - 1 : Large(i)
<1>1. ~Large(q)
  <2>1. B \in Nat /\ B >= 4
    BY BetaIs
  <2>2. q * v1 \in Nat
    OBVIOUS
  <2>3. (r + q * v1) * B \in Nat
    BY <2>1, <2>2
  <2>4. q - q = 0 /\ 0 * v2 = 0
    OBVIOUS
  <2> QED
    BY <2>1, <2>3, <2>4 DEF TooLarge
<1>2. Refine(q, r, v1, v2, next) = q - CHOOSE k \in 0 .. q : First(k)
  BY DEF Refine, TooLarge
<1> HIDE DEF Large
<1>3. \E k \in 0 .. q : First(k)
  <2> SUFFICES ASSUME \A k \in 0 .. q : ~First(k) PROVE FALSE
    OBVIOUS
  <2> DEFINE P == {n \in Nat : \A i \in 0 .. n : i <= q => Large(i)}
  <2>1. 0 \in P
    BY DEF P
  <2>2. ASSUME NEW n \in Nat, n \in P PROVE n + 1 \in P
    <3> SUFFICES ASSUME n + 1 <= q PROVE Large(n + 1)
      BY <2>2
    <3>1. \A i \in 0 .. (n + 1) - 1 : Large(i)
      BY <2>2
    <3> QED
      BY <3>1
  <2> HIDE DEF P
  <2>3. Nat \subseteq P
    BY <2>1, <2>2, SetInduction
  <2> QED
    BY <1>1, <2>3 DEF P
<1> HIDE DEF First
<1>4. PICK k \in 0 .. q : k = (CHOOSE i \in 0 .. q : First(i)) /\ First(k)
  BY <1>3
<1> QED
  BY <1>2, <1>4 DEF First, Large

(* The estimate is the quotient of three limbs by two, or all ones if that is more. *)
LEMMA EstimateIs ==
    ASSUME NEW three \in Nat, NEW two \in Nat,
           B <= two, two < B * B, three < (two + 1) * B
    PROVE  LET q == Estimate(three, two)
           IN  /\ q \in 0 .. B - 1 /\ q * two <= three
               /\ q = B - 1 \/ three < (q + 1) * two
<1> DEFINE v1 == two \div B
           v2 == two % B
           num == three \div B
           next == three % B
           q0 == IF num \div B >= v1 THEN B - 1 ELSE num \div v1
           r0 == num - q0 * v1
<1>0. B \in Nat /\ B >= 4
  BY BetaIs
<1>1. v1 \in Nat /\ v2 \in Nat /\ v2 < B /\ two = v1 * B + v2
  BY <1>0, QuotientIs
<1>2. num \in Nat /\ next \in Nat /\ next < B /\ three = num * B + next
  BY <1>0, QuotientIs
<1>3. Estimate(three, two) = Refine(q0, r0 % Word, v1, v2, next)
  BY DEF Estimate
<1>4. num \div B \in Nat /\ (num \div B) * B <= num /\ num < ((num \div B) + 1) * B
  BY <1>0, <1>2
<1>5. (q0 = B - 1 /\ v1 * B <= num) \/ (num < v1 * B /\ q0 = num \div v1)
  <2>1. CASE num \div B >= v1
    <3>1. v1 * B <= (num \div B) * B
      BY <1>0, <1>1, <1>4, <2>1
    <3> QED
      BY <1>0, <1>1, <1>2, <1>4, <2>1, <3>1
  <2>2. CASE ~(num \div B >= v1)
    <3>1. ((num \div B) + 1) * B <= v1 * B
      BY <1>0, <1>1, <1>4, <2>2
    <3> QED
      BY <1>0, <1>1, <1>2, <1>4, <2>2, <3>1
  <2> QED
    BY <2>1, <2>2
<1> HIDE DEF v1, v2, num, next, q0
<1>6. v1 > 0 /\ v1 < B
  <2>1. ASSUME v1 = 0 PROVE FALSE
    BY <1>0, <1>1, <2>1
  <2>2. ASSUME B <= v1 PROVE FALSE
    <3>1. B * B <= v1 * B
      BY <1>0, <1>1, <2>2
    <3> QED
      BY <1>0, <1>1, <3>1
  <2> QED
    BY <1>0, <1>1, <2>1, <2>2
<1>7. num <= two
  <2> SUFFICES ASSUME two + 1 <= num PROVE FALSE
    BY <1>2
  <2>1. (two + 1) * B <= num * B
    BY <1>0, <1>2
  <2> QED
    BY <1>0, <1>2, <2>1
<1>8. /\ q0 \in 0 .. B - 1 /\ r0 \in Nat /\ r0 < 2 * B
      /\ q0 = B - 1 \/ num < (q0 + 1) * v1
  <2>1. CASE q0 = B - 1 /\ v1 * B <= num
    <3>1. q0 * v1 = v1 * B - v1
      BY <1>0, <1>1, <2>1
    <3>2. r0 = num - v1 * B + v1
      BY <1>0, <1>1, <1>2, <3>1
    <3> QED
      BY <1>0, <1>1, <1>2, <1>6, <1>7, <2>1, <3>2
  <2>2. CASE num < v1 * B /\ q0 = num \div v1
    <3>1. q0 \in Nat /\ num % v1 \in Nat /\ num % v1 < v1 /\ num = q0 * v1 + (num % v1)
      BY <1>1, <1>2, <1>6, <2>2, QuotientIs
    <3>2. r0 = num % v1
      BY <1>1, <1>2, <3>1
    <3>3. q0 <= B - 1
      <4> SUFFICES ASSUME B <= q0 PROVE FALSE
        BY <1>0, <3>1
      <4>1. B * v1 <= q0 * v1
        BY <1>0, <1>1, <3>1
      <4> QED
        BY <1>0, <1>1, <1>2, <2>2, <3>1, <4>1
    <3>4. (q0 + 1) * v1 = q0 * v1 + v1
      BY <1>1, <3>1
    <3> QED
      BY <1>0, <1>1, <1>2, <1>6, <3>1, <3>2, <3>3, <3>4
  <2> QED
    BY <1>5, <2>1, <2>2
<1>9. r0 % Word = r0
  <2>1. 2 * B <= B * B /\ B * B \in Nat
    BY <1>0
  <2> HIDE DEF r0
  <2>2. r0 \in Nat /\ r0 < B * B
    BY <1>0, <1>8, <2>1
  <2> QED
    BY <2>1, <2>2 DEF Word
<1>10. PICK k \in 0 .. q0 : /\ Refine(q0, r0, v1, v2, next) = q0 - k
                            /\ ~TooLarge(q0, r0, v1, v2, next, k)
                            /\ \A i \in 0 .. k - 1 : TooLarge(q0, r0, v1, v2, next, i)
  <2> HIDE DEF r0
  <2>1. q0 \in Nat
    BY <1>0, <1>8
  <2> QED
    BY <1>1, <1>2, <1>8, <2>1, RefineIs
<1> DEFINE q == q0 - k
           r == r0 + k * v1
<1>11. Estimate(three, two) = q
  BY <1>3, <1>9, <1>10
<1>12. q \in 0 .. B - 1 /\ r \in Nat /\ num = q * v1 + r
  BY <1>0, <1>1, <1>2, <1>8, <1>10
<1>13. q * v2 <= r * B + next
  <2>1. CASE r >= B
    <3>1. q * v2 <= B * B
      <4>1. q * v2 <= B * v2 /\ B * v2 <= B * B
        BY <1>0, <1>1, <1>12
      <4> QED
        BY <1>0, <1>1, <1>12, <4>1
    <3>2. B * B <= r * B
      BY <1>0, <1>12, <2>1
    <3> HIDE DEF q, r
    <3> QED
      BY <1>0, <1>1, <1>2, <1>12, <3>1, <3>2
  <2>2. CASE r < B
    BY <1>0, <1>1, <1>2, <1>8, <1>10, <1>12, <2>2 DEF TooLarge
  <2> QED
    BY <1>0, <1>12, <2>1, <2>2
<1>14. q = B - 1 \/ three < (q + 1) * two
  <2>1. CASE k = 0
    <3>1. q = q0
      BY <1>8, <2>1
    <3>2. CASE num < (q0 + 1) * v1
      <4>1. (num + 1) * B <= ((q + 1) * v1) * B
        BY <1>0, <1>1, <1>2, <1>12, <3>1, <3>2
      <4>2. (q + 1) * two = ((q + 1) * v1) * B + (q + 1) * v2 /\ (q + 1) * v2 \in Nat
        BY <1>0, <1>1, <1>12
      <4> HIDE DEF q
      <4> QED
        BY <1>0, <1>1, <1>2, <1>12, <4>1, <4>2
    <3> QED
      BY <1>8, <3>1, <3>2
  <2>2. CASE k # 0
    <3>1. k - 1 \in 0 .. k - 1 /\ q0 - (k - 1) = q + 1 /\ r0 + (k - 1) * v1 = r - v1
      BY <1>1, <1>8, <1>10, <2>2
    <3>2. TooLarge(q0, r0, v1, v2, next, k - 1)
      BY <1>10, <3>1
    <3>3. q + 1 < B
      BY <1>0, <1>8, <1>10, <1>12, <2>2
    <3>4. (q + 1) * v2 > (r - v1) * B + next
      BY <1>0, <1>12, <3>1, <3>2, <3>3 DEF TooLarge
    <3>5. (q + 1) * two = ((q + 1) * v1) * B + (q + 1) * v2
      BY <1>0, <1>1, <1>12
    <3>6. num * B = ((q + 1) * v1) * B + (r - v1) * B
      <4>1. num = (q + 1) * v1 + (r - v1)
        BY <1>1, <1>12
      <4> HIDE DEF q, r
      <4> QED
        BY <1>0, <1>1, <1>12, <4>1
    <3> HIDE DEF q, r
    <3> QED
      BY <1>0, <1>1, <1>2, <1>12, <3>4, <3>5, <3>6
  <2> QED
    BY <2>1, <2>2
<1>15. q * two <= three
  <2>1. q * two = (q * v1) * B + q * v2
    BY <1>0, <1>1, <1>12
  <2>2. num * B = (q * v1) * B + r * B
    <3> HIDE DEF q, r
    <3> QED
      BY <1>0, <1>1, <1>12
  <2> HIDE DEF q, r
  <2> QED
    BY <1>0, <1>1, <1>2, <1>12, <1>13, <2>1, <2>2
<1> QED
  BY <1>11, <1>12, <1>14, <1>15

(* The estimate is the quotient limb or one more, and the subtraction tells which. *)
LEMMA SubtractedIs ==
    ASSUME NEW v \in Nat, NEW old \in Nat, NEW n \in Nat, NEW w \in Nat, w > 0,
           v < Beta(n), old < v * B, B * w <= v,
           NEW q \in 0 .. B - 1, q * (v \div w) <= old \div w,
           q = B - 1 \/ old \div w < (q + 1) * (v \div w)
    PROVE  \E p \in 0 .. B - 1 : \E r \in 0 .. v - 1 :
               Subtracted(q, old, v, n) = <<p, r>> /\ old = p * v + r
<1> DEFINE tv == v \div w
           rv == v % w
           to == old \div w
           ro == old % w
<1>0. B \in Nat /\ B >= 4
  BY BetaIs
<1>1. tv \in Nat /\ rv \in Nat /\ rv < w /\ v = tv * w + rv
  BY QuotientIs
<1>2. to \in Nat /\ ro \in Nat /\ ro < w /\ old = to * w + ro
  BY QuotientIs
<1>3. q * tv <= to /\ (q = B - 1 \/ to < (q + 1) * tv)
  OBVIOUS
<1>4. q \in Nat /\ q <= B - 1
  BY <1>0
<1> HIDE DEF tv, rv, to, ro
<1>5. old < q * v + v
  <2>1. CASE q = B - 1
    <3>1. q * v + v = B * v
      BY <1>0, <1>4, <2>1
    <3> QED
      BY <3>1, <1>0
  <2>2. CASE to < (q + 1) * tv
    <3>1. (to + 1) * w <= ((q + 1) * tv) * w
      BY <1>1, <1>2, <1>4, <2>2
    <3>2. q * v + v = ((q + 1) * tv) * w + (q + 1) * rv /\ (q + 1) * rv \in Nat
      BY <1>1, <1>4
    <3> QED
      BY <1>1, <1>2, <1>4, <3>1, <3>2
  <2> QED
    BY <1>3, <2>1, <2>2
<1>6. q * v <= old + v
  <2>1. q * v = (q * tv) * w + q * rv
    BY <1>1, <1>4
  <2>2. (q * tv) * w <= to * w
    BY <1>1, <1>2, <1>3, <1>4
  <2>3. q * rv <= B * w
    <3>1. q * rv <= q * w /\ q * w <= B * w
      BY <1>0, <1>1, <1>4
    <3> QED
      BY <1>0, <1>1, <1>4, <3>1
  <2> QED
    BY <1>0, <1>1, <1>2, <1>4, <2>1, <2>2, <2>3
<1>7. q * v \in Nat
  BY <1>4
<1>8. v < Beta(n + 1) /\ Beta(n + 1) \in Nat
  <2>1. n + 1 \in Nat /\ n <= n + 1
    OBVIOUS
  <2>2. Beta(n) <= Beta(n + 1) /\ Beta(n) \in Nat /\ Beta(n + 1) \in Nat
    BY <2>1, BetaGrows, BetaNat
  <2> QED
    BY <2>2
<1>9. CASE old < q * v
  <2>1. q - 1 \in 0 .. B - 1 /\ (q - 1) * v = q * v - v
    BY <1>0, <1>4, <1>7, <1>9
  <2>2. old - q * v + v \in 0 .. v - 1
    BY <1>6, <1>7, <1>9
  <2>3. (old - q * v + v) % Beta(n + 1) = old - q * v + v
    <3> DEFINE r == old - q * v + v
    <3>1. r \in Nat /\ r < Beta(n + 1)
      BY <1>8, <2>2
    <3> HIDE DEF r
    <3>2. r % Beta(n + 1) = r
      BY <1>8, <3>1
    <3> QED
      BY <3>2 DEF r
  <2>4. Subtracted(q, old, v, n) = <<q - 1, old - q * v + v>>
    BY <1>9, <2>3 DEF Subtracted
  <2>5. old = (q - 1) * v + (old - q * v + v)
    BY <1>7, <2>1
  <2> QED
    BY <2>1, <2>2, <2>4, <2>5
<1>10. CASE ~(old < q * v)
  <2>1. old - q * v \in 0 .. v - 1
    BY <1>5, <1>7, <1>10
  <2>2. (old - q * v) % Beta(n + 1) = old - q * v
    <3> DEFINE r == old - q * v
    <3>1. r \in Nat /\ r < Beta(n + 1)
      BY <1>8, <2>1
    <3> HIDE DEF r
    <3>2. r % Beta(n + 1) = r
      BY <1>8, <3>1
    <3> QED
      BY <3>2 DEF r
  <2>3. Subtracted(q, old, v, n) = <<q, old - q * v>>
    BY <1>10, <2>2 DEF Subtracted
  <2> QED
    BY <1>7, <2>1, <2>3
<1> QED
  BY <1>9, <1>10

\* A divisor of n limbs with its top bit set.
Normal(v, n) == v \in Nat /\ v < Beta(n) /\ Beta(n) <= 2 * v

(* A step of Algorithm D moves the multiple of the divisor at its place from the rest of
   the dividend to the quotient. *)
LEMMA KnuthStepIs ==
    ASSUME NEW n \in Nat, n >= 2, NEW v, Normal(v, n), NEW j \in Nat,
           NEW s, s.u \in Nat, s.q \in Nat, s.u < v * Beta(j + 1)
    PROVE  LET r == KnuthStep(s, v, n, j)
           IN  /\ r.u \in Nat /\ r.q \in Nat
               /\ r.u < v * Beta(j)
               /\ r.q * v + r.u = s.q * v + s.u
<1> DEFINE u == s.u
           old == u \div Beta(j)
           low == u % Beta(j)
           w == Beta(n - 2)
           three == Limbs(u, j + n - 2, 3)
           two == Limbs(v, n - 2, 2)
           q == Estimate(three, two)
<1> USE DEF Normal
<1>0. B \in Nat /\ B >= 4 /\ u \in Nat /\ v \in Nat
  BY BetaIs
<1>1. /\ n - 2 \in Nat /\ n - 1 \in Nat /\ (n - 2) + 1 = n - 1 /\ (n - 1) + 1 = n /\ (n - 2) + 2 = n
      /\ j + n - 2 = j + (n - 2) /\ j + n - 2 \in Nat /\ (j + n - 2) + 3 = n + (j + 1)
      /\ j + (n + 1) = n + (j + 1)
  OBVIOUS
<1>2. w \in Nat /\ w > 0 /\ Beta(j) \in Nat /\ Beta(j) > 0 /\ Beta(j + 1) \in Nat /\ Beta(n) \in Nat
  <2>1. j + 1 \in Nat
    OBVIOUS
  <2> QED
    BY <1>1, <2>1, BetaNat
<1>3. Beta(n) = (B * w) * B /\ Beta(j + 1) = Beta(j) * B
  <2>1. Beta((n - 1) + 1) = Beta(n - 1) * B /\ Beta((n - 2) + 1) = w * B /\ Beta(j + 1) = Beta(j) * B
    BY <1>1, BetaIs DEF B
  <2> QED
    BY <1>0, <1>1, <1>2, <2>1
<1>4. u < Beta(n + (j + 1))
  <2>1. v * Beta(j + 1) <= Beta(n) * Beta(j + 1)
    BY <1>2
  <2>2. Beta(n + (j + 1)) = Beta(n) * Beta(j + 1)
    BY BetaIs
  <2> QED
    BY <1>0, <1>2, <2>1, <2>2
<1>5. old \in Nat /\ low \in Nat /\ low < Beta(j) /\ u = old * Beta(j) + low
  BY <1>0, <1>2, QuotientIs
<1>6. Limbs(u, j, n + 1) = old
  <2>1. n + 1 \in Nat /\ u < Beta(j + (n + 1))
    BY <1>1, <1>4
  <2> HIDE DEF u
  <2> QED
    BY <1>0, <2>1, LimbsAre
<1>7. two = v \div w
  BY <1>0, <1>1, LimbsAre
<1>8. three = old \div w
  <2>1. three = u \div Beta(j + n - 2)
    BY <1>0, <1>1, <1>4, LimbsAre
  <2>2. Beta(j + n - 2) = Beta(j) * w
    BY <1>1, BetaIs
  <2> QED
    BY <1>0, <1>2, <2>1, <2>2, QuotientTwice
<1> HIDE DEF u, old, low, w, three, two, q
<1>9. old < v * B
  <2> SUFFICES ASSUME v * B <= old PROVE FALSE
    BY <1>0, <1>5
  <2>1. (v * B) * Beta(j) <= old * Beta(j)
    BY <1>0, <1>2, <1>5
  <2>2. u < (v * B) * Beta(j)
    BY <1>0, <1>2, <1>3 DEF u
  <2> QED
    BY <1>0, <1>2, <1>5, <2>1, <2>2
<1>10. B * w <= v
  <2>1. (B * w) * 2 <= (B * w) * B /\ B * w \in Nat
    BY <1>0, <1>2
  <2> QED
    BY <1>0, <1>2, <1>3, <2>1
<1>11. two \in Nat /\ v % w \in Nat /\ v % w < w /\ v = two * w + (v % w)
  BY <1>0, <1>2, <1>7, QuotientIs
<1>12. three \in Nat /\ old % w \in Nat /\ old % w < w /\ old = three * w + (old % w)
  BY <1>0, <1>2, <1>5, <1>8, QuotientIs
<1>13. B <= two
  <2> SUFFICES ASSUME two + 1 <= B PROVE FALSE
    BY <1>0, <1>11
  <2>1. (two + 1) * w <= B * w
    BY <1>0, <1>2, <1>11
  <2> QED
    BY <1>0, <1>2, <1>10, <1>11, <2>1
<1>14. two < B * B
  <2> SUFFICES ASSUME B * B <= two PROVE FALSE
    BY <1>0, <1>11
  <2>1. (B * B) * w <= two * w
    BY <1>0, <1>2, <1>11
  <2> QED
    BY <1>0, <1>2, <1>3, <1>11, <2>1
<1>15. three < (two + 1) * B
  <2> SUFFICES ASSUME (two + 1) * B <= three PROVE FALSE
    BY <1>0, <1>11, <1>12
  <2>1. ((two + 1) * B) * w <= three * w
    BY <1>0, <1>2, <1>11, <1>12
  <2>2. v * B <= ((two + 1) * w) * B
    BY <1>0, <1>2, <1>11
  <2> QED
    BY <1>0, <1>2, <1>9, <1>11, <1>12, <2>1, <2>2
<1>16. /\ q \in 0 .. B - 1 /\ q * two <= three
       /\ q = B - 1 \/ three < (q + 1) * two
  BY <1>11, <1>12, <1>13, <1>14, <1>15, EstimateIs DEF q
<1>17. PICK p \in 0 .. B - 1, r \in 0 .. v - 1 : Subtracted(q, old, v, n) = <<p, r>> /\ old = p * v + r
  <2>1. /\ v < Beta(n) /\ q * (v \div w) <= old \div w
        /\ q = B - 1 \/ old \div w < (q + 1) * (v \div w)
    BY <1>7, <1>8, <1>16
  <2>2. v \in Nat /\ old \in Nat /\ n \in Nat /\ w \in Nat /\ w > 0 /\ q \in 0 .. B - 1
    BY <1>0, <1>2, <1>5, <1>16
  <2>3. \E p \in 0 .. B - 1 : \E r \in 0 .. v - 1 :
            Subtracted(q, old, v, n) = <<p, r>> /\ old = p * v + r
    BY ONLY <1>9, <1>10, <2>1, <2>2, SubtractedIs
  <2> QED
    BY <2>3
<1>18. KnuthStep(s, v, n, j) = [u |-> u + (r - old) * Beta(j), q |-> s.q + p * Beta(j)]
  <2>1. p % B = p
    BY <1>0
  <2> QED
    BY <1>6, <1>17, <2>1 DEF KnuthStep, u, q, three, two
<1>19. u + (r - old) * Beta(j) = r * Beta(j) + low
  BY <1>0, <1>2, <1>5, <1>17
<1>20. r * Beta(j) + low \in Nat /\ r * Beta(j) + low < v * Beta(j)
  <2>1. (r + 1) * Beta(j) <= v * Beta(j)
    BY <1>0, <1>2
  <2> QED
    BY <1>0, <1>2, <1>5, <2>1
<1>21. s.q + p * Beta(j) \in Nat
  BY <1>0, <1>2
<1>22. (s.q + p * Beta(j)) * v + (r * Beta(j) + low) = s.q * v + u
  <2>1. old * Beta(j) = (p * v) * Beta(j) + r * Beta(j)
    BY <1>0, <1>2, <1>17
  <2>2. (s.q + p * Beta(j)) * v = s.q * v + (p * v) * Beta(j)
    BY <1>0, <1>2
  <2> QED
    BY <1>0, <1>2, <1>5, <1>21, <2>1, <2>2
<1> QED
  BY <1>18, <1>19, <1>20, <1>21, <1>22 DEF u

-----------------------------------------------------------------------------
(* Algorithm D. *)

\* qr is the quotient and the remainder of u by v.
Exact(qr, u, v) ==
    /\ qr[1] \in Nat /\ qr[2] \in Nat
    /\ u = qr[1] * v + qr[2] /\ qr[2] < v

\* f is what Algorithm D computes in k steps from the state first on.
Stepping(f, first, v, n, m, k) ==
    f = [i \in 0 .. k |-> IF i = 0 THEN first ELSE KnuthStep(f[i - 1], v, n, m - i + 1)]

(* The recursion of DivideKnuthD has a solution on every prefix. *)
LEMMA SteppingExists ==
    ASSUME NEW first, NEW v, NEW n, NEW m
    PROVE  \A k \in Nat : \E f : Stepping(f, first, v, n, m, k)
<1> DEFINE Step(s, i) == KnuthStep(s, v, n, m - i + 1)
           Solves(f, k) == f = [i \in 0 .. k |-> IF i = 0 THEN first ELSE Step(f[i - 1], i)]
           P == {k \in Nat : \E f : Solves(f, k)}
<1>1. \A f, k : Stepping(f, first, v, n, m, k) <=> Solves(f, k)
  BY DEF Stepping
<1> HIDE DEF Step
<1>2. 0 \in P
  <2>1. Solves([i \in 0 .. 0 |-> first], 0)
    OBVIOUS
  <2> QED
    BY <2>1
<1>3. ASSUME NEW k \in Nat, k \in P PROVE k + 1 \in P
  <2>1. PICK f : Solves(f, k)
    BY <1>3
  <2> DEFINE g == [i \in 0 .. k + 1 |-> IF i = k + 1 THEN Step(f[i - 1], i) ELSE f[i]]
  <2>2. g = [i \in 0 .. k + 1 |-> g[i]]
    OBVIOUS
  <2>3. ASSUME NEW i \in 0 .. k + 1
        PROVE  g[i] = IF i = 0 THEN first ELSE Step(g[i - 1], i)
    <3>1. CASE i = k + 1
      BY <3>1
    <3>2. CASE i \in 0 .. k
      <4>1. g[i] = f[i] /\ (i # 0 => g[i - 1] = f[i - 1])
        BY <3>2
      <4> QED
        BY <2>1, <3>2, <4>1
    <3> QED
      BY <3>1, <3>2
  <2> HIDE DEF g
  <2>4. Solves(g, k + 1)
    BY <2>2, <2>3
  <2> QED
    BY <2>4
<1> HIDE DEF P
<1>4. Nat \subseteq P
  BY <1>2, <1>3, SetInduction
<1> QED
  BY <1>1, <1>4 DEF P

(* A division of multiples is one of the numbers: the remainder is a multiple too. *)
LEMMA Denormalized ==
    ASSUME NEW u \in Nat, NEW v \in Nat, NEW d \in Nat, d > 0, NEW q \in Nat, NEW r \in Nat,
           q * (v * d) + r = u * d, r < v * d
    PROVE  r \div d \in Nat /\ r \div d < v /\ u = q * v + (r \div d)
<1> DEFINE qv == q * v
           rem == u - qv
<1>1. qv \in Nat /\ q * (v * d) = qv * d
  OBVIOUS
<1> HIDE DEF qv
<1>2. rem \in Int /\ r = rem * d /\ u = qv + rem
  BY <1>1
<1> HIDE DEF rem
<1>3. rem \in Nat /\ rem < v
  <2>1. ASSUME rem < 0 PROVE FALSE
    <3>1. rem * d < 0
      BY <1>2, <2>1
    <3> QED
      BY <1>2, <3>1
  <2>2. ASSUME v <= rem PROVE FALSE
    <3>1. v * d <= rem * d
      BY <1>2, <2>2
    <3> QED
      BY <1>2, <3>1
  <2> QED
    BY <1>2, <2>1, <2>2
<1>4. (rem * d + 0) \div d = rem
  BY <1>3, QuotientUnique
<1>5. r \div d = rem
  BY <1>2, <1>3, <1>4
<1> QED
  BY <1>2, <1>3, <1>5 DEF qv

(* Algorithm D divides exactly. *)
LEMMA KnuthDIs ==
    ASSUME NEW u \in Nat, NEW v \in Nat, v <= u, LimbCount(v) >= 2
    PROVE  Exact(DivideKnuthD(u, v), u, v)
<1> DEFINE n == LimbCount(v)
           m == LimbCount(u) - n
           d == TwoTo(NormalizeShift(v))
           w == v * d
           first == [u |-> u * d, q |-> 0]
           after[i \in 0 .. m + 1] ==
               IF i = 0 THEN first ELSE KnuthStep(after[i - 1], w, n, m - i + 1)
           end == after[m + 1]
<1>1. DivideKnuthD(u, v) = <<end.q, Limbs(end.u, 0, n) \div d>>
  BY DEF DivideKnuthD
<1>2. v # 0 /\ u # 0
  BY LimbCountIs
<1>3. /\ n \in Nat /\ n >= 2 /\ v < Beta(n) /\ Beta(n - 1) <= v
      /\ LimbCount(u) \in Nat /\ u < Beta(LimbCount(u)) /\ LimbCount(u) > 0
  BY <1>2, LimbCountIs
<1>4. d \in Nat /\ d > 0 /\ Normal(w, n)
  <2>1. d \in Nat /\ d > 0 /\ v * d < Beta(n) /\ Beta(n) <= 2 * (v * d)
    BY <1>2, NormalizeShiftIs
  <2>2. v * d \in Nat
    BY <2>1
  <2> QED
    BY <2>1, <2>2 DEF Normal
<1>5. m \in Nat
  <2> SUFFICES ASSUME LimbCount(u) <= n - 1 PROVE FALSE
    BY <1>3
  <2>1. n - 1 \in Nat
    BY <1>3
  <2>2. Beta(LimbCount(u)) <= Beta(n - 1) /\ Beta(LimbCount(u)) \in Nat /\ Beta(n - 1) \in Nat
    BY <1>3, <2>1, BetaGrows, BetaNat
  <2> QED
    BY <1>3, <2>2
<1> HIDE DEF n, m, d, w
<1>6. Stepping(after, first, w, n, m, m + 1)
  <2>1. m + 1 \in Nat
    BY <1>5
  <2>2. \E f : Stepping(f, first, w, n, m, m + 1)
    BY <2>1, SteppingExists
  <2> QED
    BY <2>2 DEF Stepping
<1> HIDE DEF after
<1> DEFINE S(i) == LET s == after[i] IN
                   /\ s.u \in Nat /\ s.q \in Nat
                   /\ s.u < w * Beta(m - i + 1)
                   /\ s.q * w + s.u = u * d
           P == {i \in Nat : i <= m + 1 => S(i)}
<1>7. 0 \in P
  <2>1. after[0] = first
    BY <1>5, <1>6 DEF Stepping
  <2>2. u < v * Beta(m + 1)
    <3>1. LimbCount(u) = (n - 1) + (m + 1) /\ n - 1 \in Nat /\ m + 1 \in Nat
      BY <1>3, <1>5 DEF m
    <3>2. Beta(LimbCount(u)) = Beta(n - 1) * Beta(m + 1)
      BY <3>1, BetaAdds
    <3>3. Beta(n - 1) \in Nat /\ Beta(m + 1) \in Nat
      BY <3>1, BetaNat
    <3>4. Beta(n - 1) * Beta(m + 1) <= v * Beta(m + 1)
      BY <1>3, <3>3
    <3> QED
      BY <1>3, <3>2, <3>3, <3>4
  <2>3. m + 1 \in Nat /\ Beta(m + 1) \in Nat
    BY <1>5, BetaNat
  <2>4. u * d < w * Beta(m + 1) /\ u * d \in Nat
    <3>1. u * d < (v * Beta(m + 1)) * d
      BY <1>4, <2>2, <2>3
    <3>2. (v * Beta(m + 1)) * d = w * Beta(m + 1)
      BY <1>4, <2>3 DEF w
    <3> QED
      BY <1>4, <3>1, <3>2
  <2>5. m - 0 + 1 = m + 1 /\ 0 * w = 0
    BY <1>4, <1>5 DEF Normal
  <2> QED
    BY <2>1, <2>4, <2>5
<1>8. ASSUME NEW i \in Nat, i \in P PROVE i + 1 \in P
  <2> SUFFICES ASSUME i + 1 <= m + 1 PROVE S(i + 1)
    OBVIOUS
  <2> DEFINE s == after[i]
             j == m - i
  <2>1. j \in Nat /\ m - i + 1 = j + 1 /\ m - (i + 1) + 1 = j
    BY <1>5
  <2>2. after[i + 1] = KnuthStep(s, w, n, j)
    <3>1. i + 1 \in 0 .. m + 1 /\ i + 1 # 0 /\ (i + 1) - 1 = i
      BY <1>5
    <3> QED
      BY <1>6, <2>1, <3>1 DEF Stepping
  <2>3. s.u \in Nat /\ s.q \in Nat /\ s.u < w * Beta(j + 1) /\ s.q * w + s.u = u * d
    BY <1>5, <1>8, <2>1
  <2> HIDE DEF s, j
  <2>4. LET r == KnuthStep(s, w, n, j)
        IN  /\ r.u \in Nat /\ r.q \in Nat
            /\ r.u < w * Beta(j)
            /\ r.q * w + r.u = s.q * w + s.u
    BY <1>3, <1>4, <2>1, <2>3, KnuthStepIs
  <2> QED
    BY <2>1, <2>2, <2>3, <2>4
<1> HIDE DEF P
<1>9. Nat \subseteq P
  BY <1>7, <1>8, SetInduction
<1>10. S(m + 1)
  BY <1>5, <1>9 DEF P
<1>11. end.u \in Nat /\ end.q \in Nat /\ end.u < w /\ end.q * w + end.u = u * d
  <2>1. m - (m + 1) + 1 = 0 /\ w * 1 = w
    BY <1>4, <1>5 DEF Normal
  <2> QED
    BY <1>10, <2>1, BetaIs
<1> HIDE DEF S, end
<1>12. Limbs(end.u, 0, n) = end.u
  <2>1. end.u < Beta(0 + n) /\ 0 + n = n
    BY <1>3, <1>4, <1>11, BetaNat DEF Normal
  <2>2. Limbs(end.u, 0, n) = end.u \div Beta(0)
    BY <1>3, <1>11, <2>1, LimbsAre
  <2>3. Beta(0) = 1
    BY BetaIs
  <2> QED
    BY <1>11, <2>2, <2>3
<1>13. /\ end.u \div d \in Nat /\ end.u \div d < v
       /\ u = end.q * v + (end.u \div d)
  BY <1>4, <1>11, Denormalized DEF w
<1> QED
  BY <1>1, <1>11, <1>12, <1>13 DEF Exact

-----------------------------------------------------------------------------
(* The recursive division of Burnikel and Ziegler. *)

(* The base has a half. *)
LEMMA BetaEven ==
    ASSUME NEW n \in Nat, n > 0
    PROVE  \E h \in Nat : Beta(n) = 2 * h
<1> DEFINE k == n * LimbBits - 1
<1>1. k \in Nat /\ n * LimbBits = k + 1
  <2>1. n * LimbBits >= LimbBits
    BY BigIntAssumption
  <2> QED
    BY <2>1, BigIntAssumption
<1> HIDE DEF k
<1>2. TwoTo(k + 1) = 2 * TwoTo(k) /\ TwoTo(k) \in Nat
  BY <1>1, TwoToIs
<1> QED
  BY <1>1, <1>2 DEF Beta

\* The function divides two pieces of n limbs by a normalized one of n limbs.
Halves(h, n) == \A a, v \in Nat : Normal(v, n) /\ a < v * Beta(n) => Exact(h[<<a, v>>], a, v)

(* An estimate that leaves a remainder of at least minus two divisors is corrected. *)
LEMMA CorrectedIs ==
    ASSUME NEW a \in Nat, NEW v \in Nat, NEW q \in Nat, NEW r \in Int,
           a = q * v + r, r < v, 0 <= r + v + v
    PROVE  Exact(Corrected(q, r, v), a, v)
<1>1. CASE r >= 0
  BY <1>1 DEF Corrected, Exact
<1>2. CASE r < 0 /\ r + v >= 0
  <2>1. q # 0
    BY <1>2
  <2>2. q - 1 \in Nat /\ (q - 1) * v = q * v - v
    BY <2>1
  <2> QED
    BY <1>2, <2>2 DEF Corrected, Exact
<1>3. CASE r < 0 /\ r + v < 0
  <2>1. q # 0 /\ q # 1
    BY <1>3
  <2>2. q - 2 \in Nat /\ (q - 2) * v = q * v - v - v
    BY <2>1
  <2>3. Abs(r + v + v) = r + v + v
    BY DEF Abs
  <2> QED
    BY <1>3, <2>2, <2>3 DEF Corrected, Exact
<1> QED
  BY <1>1, <1>2, <1>3

(* The division of three pieces by two is exact if that of two by one is. *)
LEMMA Bz3By2Is ==
    ASSUME NEW n \in Nat, n > 0, NEW h, Halves(h, n),
           NEW v \in Nat, Normal(v, 2 * n), NEW a \in Nat, a < v * Beta(n)
    PROVE  Exact(Bz3By2(h, a, v, n), a, v)
<1> DEFINE b == Beta(n)
           a2 == a \div Beta(2 * n)
           a1 == Limbs(a, n, n)
           a0 == Limbs(a, 0, n)
           v1 == Limbs(v, n, n)
           v0 == Limbs(v, 0, n)
           top == a \div b
           Result(q, r) == Corrected(q, r * b + a0 - q * v0, v)
<1>1. b \in Nat /\ b > 0 /\ Beta(2 * n) = b * b
  <2>1. n + n = 2 * n
    OBVIOUS
  <2> QED
    BY <2>1, BetaNat, BetaAdds
<1>2. v < b * b /\ b * b <= 2 * v
  BY <1>1 DEF Normal
<1>3. v1 \in Nat /\ v0 \in Nat /\ v1 < b /\ v0 < b /\ v = v1 * b + v0
  <2>1. v < Beta(n + n) /\ n + n = 2 * n
    BY DEF Normal
  <2>2. v1 = v \div b
    BY <2>1, LimbsAre
  <2> QED
    BY <2>2, LimbsAre, LowLimbs
<1>4. a0 \in Nat /\ a0 < b /\ top \in Nat /\ a = top * b + a0
  BY LowLimbs
<1>5. a1 = top % b
  BY DEF Limbs
<1>6. a2 = top \div b
  BY <1>1, QuotientTwice
<1>7. Bz3By2(h, a, v, n) = IF a2 < v1 THEN Result(h[<<top, v1>>][1], h[<<top, v1>>][2])
                           ELSE Result(b - 1, (a2 - v1) * b + a1 + v1)
  BY DEF Bz3By2
<1> HIDE DEF top, a1, a2, a0, v1, v0
<1>8. a1 \in Nat /\ a1 < b /\ a2 \in Nat /\ top = a2 * b + a1
  BY <1>1, <1>4, <1>5, <1>6, QuotientIs
<1> HIDE DEF b
<1>9. ASSUME NEW q \in Nat, NEW r \in Nat, q <= b, top = q * v1 + r, r < v1 \/ q = b - 1
      PROVE  Exact(Result(q, r), a, v)
  <2> DEFINE R == r * b + a0 - q * v0
  <2>1. R \in Int /\ a = q * v + R
    <3>1. top * b = (q * v1) * b + r * b
      BY <1>1, <1>3, <1>9
    <3>2. q * v = (q * v1) * b + q * v0
      BY <1>1, <1>3, <1>9
    <3> QED
      BY <1>1, <1>3, <1>4, <1>9, <3>1, <3>2
  <2>2. R < v
    <3>1. CASE r < v1
      <4>1. (r + 1) * b <= v1 * b
        BY <1>1, <1>3, <1>9, <3>1
      <4>2. q * v0 \in Nat
        BY <1>3
      <4> QED
        BY <1>1, <1>3, <1>4, <1>9, <4>1, <4>2
    <3>2. CASE q = b - 1
      <4>1. q * v = v * b - v
        BY <1>1, <3>2
      <4>2. a < v * b
        BY DEF b
      <4> HIDE DEF R
      <4> QED
        BY <1>1, <2>1, <4>1, <4>2
    <3> QED
      BY <1>9, <3>1, <3>2
  <2>3. 0 <= R + v + v
    <3>1. q * v0 <= b * b
      <4>1. q * v0 <= b * v0 /\ b * v0 <= b * b
        BY <1>1, <1>3, <1>9
      <4> QED
        BY <1>1, <1>3, <1>9, <4>1
    <3>2. r * b \in Nat
      BY <1>1, <1>9
    <3> QED
      BY <1>1, <1>2, <1>3, <1>4, <1>9, <3>1, <3>2
  <2> HIDE DEF R
  <2>4. Exact(Corrected(q, R, v), a, v)
    BY <1>9, <2>1, <2>2, <2>3, CorrectedIs
  <2> QED
    BY <2>4 DEF R
<1>10. CASE a2 < v1
  <2>1. top < v1 * b
    <3>1. (a2 + 1) * b <= v1 * b
      BY <1>1, <1>3, <1>8, <1>10
    <3> QED
      BY <1>1, <1>3, <1>8, <3>1
  <2>2. Normal(v1, n)
    <3>1. b <= 2 * v1 + 1
      <4> SUFFICES ASSUME 2 * v1 + 2 <= b PROVE FALSE
        BY <1>1, <1>3
      <4>1. (2 * v1 + 2) * b <= b * b
        BY <1>1, <1>3
      <4> QED
        BY <1>1, <1>2, <1>3, <4>1
    <3>2. PICK half \in Nat : b = 2 * half
      BY BetaEven DEF b
    <3> QED
      BY <1>3, <3>1, <3>2 DEF Normal, b
  <2> DEFINE qr == h[<<top, v1>>]
  <2>3. Exact(qr, top, v1)
    BY <1>3, <1>4, <2>1, <2>2 DEF Halves, b
  <2> HIDE DEF qr
  <2>4. qr[1] \in Nat /\ qr[2] \in Nat /\ top = qr[1] * v1 + qr[2] /\ qr[2] < v1
    BY <2>3 DEF Exact
  <2>5. qr[1] <= b
    <3> SUFFICES ASSUME b <= qr[1] PROVE FALSE
      BY <1>1, <2>4
    <3>1. b * v1 <= qr[1] * v1
      BY <1>1, <1>3, <2>4
    <3> QED
      BY <1>1, <1>3, <2>1, <2>4, <3>1
  <2>6. Exact(Result(qr[1], qr[2]), a, v)
    BY <1>9, <2>4, <2>5
  <2> QED
    BY <1>7, <1>10, <2>6 DEF qr
<1>11. CASE ~(a2 < v1)
  <2> DEFINE r == (a2 - v1) * b + a1 + v1
  <2>1. r \in Nat
    <3>1. (a2 - v1) * b \in Nat
      BY <1>1, <1>3, <1>8, <1>11
    <3> QED
      BY <1>3, <1>8, <3>1
  <2>2. b - 1 \in Nat /\ b - 1 <= b /\ top = (b - 1) * v1 + r
    BY <1>1, <1>3, <1>8
  <2> HIDE DEF r
  <2>3. Exact(Result(b - 1, r), a, v)
    BY <1>9, <2>1, <2>2
  <2> QED
    BY <1>7, <1>11, <2>3 DEF r
<1> QED
  BY <1>10, <1>11

(* The division of two pieces by one is exact if that of their halves is. *)
LEMMA TwoHalvesIs ==
    ASSUME NEW k \in Nat, k > 0, NEW h, Halves(h, k),
           NEW v \in Nat, Normal(v, 2 * k), NEW a \in Nat, a < v * Beta(2 * k)
    PROVE  Exact(TwoHalves(h, a, v, k), a, v)
<1> DEFINE b == Beta(k)
           up == a \div b
           lo == Limbs(a, 0, k)
           high == Bz3By2(h, Limbs(a, k, 3 * k), v, k)
           mid == high[2] * b + lo
           low == Bz3By2(h, mid, v, k)
<1>1. b \in Nat /\ b > 0 /\ Beta(2 * k) = b * b
  <2>1. k + k = 2 * k
    OBVIOUS
  <2> QED
    BY <2>1, BetaNat, BetaAdds
<1>2. TwoHalves(h, a, v, k) = <<high[1] * b + low[1], low[2]>>
  BY DEF TwoHalves
<1>3. up \in Nat /\ lo \in Nat /\ lo < b /\ a = up * b + lo
  BY LowLimbs
<1>4. Limbs(a, k, 3 * k) = up
  <2>1. Beta(2 * k + 2 * k) = (b * b) * (b * b) /\ k + 3 * k = 2 * k + 2 * k /\ 2 * k \in Nat /\ 3 * k \in Nat
    BY <1>1, BetaAdds
  <2>2. v * (b * b) <= (b * b) * (b * b)
    BY <1>1 DEF Normal
  <2>3. a < Beta(k + 3 * k)
    BY <1>1, <2>1, <2>2
  <2> QED
    BY <2>1, <2>3, LimbsAre
<1>5. up < v * b
  <2> HIDE DEF up, b
  <2> SUFFICES ASSUME v * b <= up PROVE FALSE
    BY <1>1, <1>3
  <2>1. (v * b) * b <= up * b
    BY <1>1, <1>3
  <2> QED
    BY <1>1, <1>3, <2>1
<1>6. Exact(high, up, v)
  BY <1>3, <1>4, <1>5, Bz3By2Is
<1> HIDE DEF high, up, lo
<1>7. high[1] \in Nat /\ high[2] \in Nat /\ up = high[1] * v + high[2] /\ high[2] < v
  BY <1>6 DEF Exact
<1>8. mid \in Nat /\ mid < v * b
  <2>1. (high[2] + 1) * b <= v * b
    BY <1>1, <1>7
  <2>2. high[2] * b \in Nat
    BY <1>1, <1>7
  <2> QED
    BY <1>1, <1>3, <1>7, <2>1, <2>2
<1> HIDE DEF mid
<1>9. Exact(low, mid, v)
  BY <1>8, Bz3By2Is
<1> HIDE DEF low
<1>10. low[1] \in Nat /\ low[2] \in Nat /\ mid = low[1] * v + low[2] /\ low[2] < v
  BY <1>9 DEF Exact
<1> HIDE DEF b
<1>11. a = (high[1] * b + low[1]) * v + low[2]
  <2>1. up * b = (high[1] * b) * v + high[2] * b
    BY <1>1, <1>7
  <2>2. (high[1] * b + low[1]) * v = (high[1] * b) * v + low[1] * v
    BY <1>1, <1>7, <1>10
  <2>3. high[2] * b + lo = low[1] * v + low[2]
    BY <1>10 DEF mid, b
  <2> QED
    BY <1>1, <1>3, <1>7, <1>10, <2>1, <2>2, <2>3
<1>12. high[1] * b + low[1] \in Nat
  BY <1>1, <1>7, <1>10
<1> QED
  BY <1>2, <1>10, <1>11, <1>12 DEF Exact

\* What bz_div_2by1 does with a divisor of k limbs, when halves is what it does with one
\* of half as many.
Dividing(halves, k) ==
    [p \in Nat \X Nat |->
        IF p[1] < p[2] THEN <<0, p[1]>>
        ELSE IF k < BzThreshold \/ k % 2 = 1 THEN DivideKnuthD(p[1], p[2])
        ELSE TwoHalves(halves, p[1], p[2], k \div 2)]

Halving(f, n) == f = [k \in 1 .. n |-> Dividing(f[k \div 2], k)]

(* The recursion of Bz2By1 has a solution on every prefix. *)
LEMMA HalvingExists == \A n \in Nat : \E f : Halving(f, n)
<1> DEFINE P == {n \in Nat : \E f : Halving(f, n)}
<1>0. \A k, f, g : k < BzThreshold => Dividing(f, k) = Dividing(g, k)
  BY DEF Dividing
<1>1. 0 \in P
  <2>1. Halving([k \in 1 .. 0 |-> 0], 0)
    BY DEF Halving
  <2> QED
    BY <2>1
<1>2. ASSUME NEW n \in Nat, n \in P PROVE n + 1 \in P
  <2>1. PICK f : Halving(f, n)
    BY <1>2
  <2> DEFINE g == [k \in 1 .. n + 1 |-> IF k = n + 1 THEN Dividing(f[k \div 2], k) ELSE f[k]]
  <2>2. g = [k \in 1 .. n + 1 |-> g[k]]
    OBVIOUS
  <2>3. ASSUME NEW k \in 1 .. n + 1
        PROVE  g[k] = Dividing(g[k \div 2], k)
    <3>1. g[k] = Dividing(f[k \div 2], k)
      <4>1. CASE k = n + 1
        BY <4>1
      <4>2. CASE k \in 1 .. n
        <5>1. g[k] = f[k]
          BY <4>2
        <5> HIDE DEF g
        <5> QED
          BY <2>1, <4>2, <5>1 DEF Halving
      <4> QED
        BY <4>1, <4>2
    <3>2. CASE k < BzThreshold
      <4> HIDE DEF g
      <4> QED
        BY <1>0, <3>1, <3>2
    <3>3. CASE ~(k < BzThreshold)
      <4>1. k \div 2 \in 1 .. n
        BY <3>3, BigIntAssumption
      <4>2. g[k \div 2] = f[k \div 2]
        BY <4>1
      <4> HIDE DEF g
      <4> QED
        BY <3>1, <4>2
    <3> QED
      BY <3>2, <3>3, BigIntAssumption
  <2> HIDE DEF g
  <2>4. Halving(g, n + 1)
    BY <2>2, <2>3 DEF Halving
  <2> QED
    BY <2>4
<1> HIDE DEF P
<1>3. Nat \subseteq P
  BY <1>1, <1>2, SetInduction
<1> QED
  BY <1>3 DEF P

(* A normalized number of n limbs has that many. *)
LEMMA NormalCount ==
    ASSUME NEW n \in Nat, n > 0, NEW v, Normal(v, n)
    PROVE  LimbCount(v) = n /\ v > 0
<1>1. n - 1 \in Nat /\ (n - 1) + 1 = n
  OBVIOUS
<1>2. Beta(n) = Beta(n - 1) * B /\ Beta(n - 1) \in Nat /\ Beta(n - 1) > 0 /\ Beta(n) \in Nat
  BY <1>1, BetaAdds, BetaNat DEF B
<1>3. Beta(n - 1) * 2 <= Beta(n - 1) * B
  <2>1. B \in Nat /\ B >= 4
    BY BetaIs
  <2> QED
    BY <1>2, <2>1
<1>4. Beta(n - 1) <= v /\ v < Beta(n) /\ v \in Nat
  BY <1>2, <1>3 DEF Normal
<1> QED
  BY <1>1, <1>2, <1>4, LimbCountUnique

(* The recursive division is exact. *)
LEMMA Bz2By1Is ==
    ASSUME NEW n \in Nat, n >= 2, NEW v \in Nat, Normal(v, n), NEW a \in Nat, a < v * Beta(n)
    PROVE  Exact(Bz2By1(a, v, n), a, v)
<1> DEFINE divide[k \in 1 .. n] == [p \in Nat \X Nat |->
               IF p[1] < p[2] THEN <<0, p[1]>>
               ELSE IF k < BzThreshold \/ k % 2 = 1 THEN DivideKnuthD(p[1], p[2])
               ELSE TwoHalves(divide[k \div 2], p[1], p[2], k \div 2)]
<1>1. Halving(divide, n)
  BY HalvingExists DEF Halving, Dividing
<1>2. Bz2By1(a, v, n) = divide[n][<<a, v>>]
  BY DEF Bz2By1
<1> HIDE DEF divide
<1> DEFINE P == {m \in Nat : \A k \in 2 .. n : k <= m => Halves(divide[k], k)}
<1>3. 0 \in P
  OBVIOUS
<1>4. ASSUME NEW m \in Nat, m \in P PROVE m + 1 \in P
  <2> SUFFICES ASSUME NEW k \in 2 .. n, k <= m + 1 PROVE Halves(divide[k], k)
    OBVIOUS
  <2> SUFFICES ASSUME NEW x \in Nat, NEW y \in Nat, Normal(y, k), x < y * Beta(k)
               PROVE  Exact(divide[k][<<x, y>>], x, y)
    BY DEF Halves
  <2>1. divide[k][<<x, y>>] = IF x < y THEN <<0, x>>
                              ELSE IF k < BzThreshold \/ k % 2 = 1 THEN DivideKnuthD(x, y)
                              ELSE TwoHalves(divide[k \div 2], x, y, k \div 2)
    <3>1. divide[k] = Dividing(divide[k \div 2], k)
      BY <1>1 DEF Halving
    <3> QED
      BY <3>1 DEF Dividing
  <2>2. CASE x < y
    <3>1. 0 * y + x = x
      OBVIOUS
    <3> QED
      BY <2>1, <2>2, <3>1 DEF Exact
  <2>3. CASE ~(x < y) /\ (k < BzThreshold \/ k % 2 = 1)
    <3>1. LimbCount(y) >= 2
      BY NormalCount
    <3>2. Exact(DivideKnuthD(x, y), x, y)
      BY <2>3, <3>1, KnuthDIs
    <3> QED
      BY <2>1, <2>3, <3>2
  <2>4. CASE ~(x < y) /\ ~(k < BzThreshold \/ k % 2 = 1)
    <3> DEFINE j == k \div 2
    <3>1. j \in 2 .. n /\ j <= m /\ 2 * j = k
      BY <2>4, BigIntAssumption
    <3>2. Halves(divide[j], j)
      BY <1>4, <3>1
    <3> HIDE DEF j
    <3>3. Exact(TwoHalves(divide[j], x, y, j), x, y)
      BY <3>1, <3>2, TwoHalvesIs
    <3> QED
      BY <2>1, <2>4, <3>3 DEF j
  <2> QED
    BY <2>2, <2>3, <2>4
<1> HIDE DEF P
<1>5. Nat \subseteq P
  BY <1>3, <1>4, SetInduction
<1>6. Halves(divide[n], n)
  BY <1>5 DEF P
<1> QED
  BY <1>2, <1>6 DEF Halves

\* One chunk of the dividend w is brought down and divided.
Chunk(s, w, v, n, i) ==
    LET qr == Bz2By1(s[2] * Beta(n) + Limbs(w, i * n, n), v, n)
    IN  <<s[1] * Beta(n) + qr[1], qr[2]>>

Chunking(f, w, v, n, chunks, k) ==
    f = [i \in 0 .. k |-> IF i = 0 THEN <<0, 0>> ELSE Chunk(f[i - 1], w, v, n, chunks - i)]

(* The recursion of DivideBurnikelZiegler has a solution on every prefix. *)
LEMMA ChunkingExists ==
    ASSUME NEW w, NEW v, NEW n, NEW chunks
    PROVE  \A k \in Nat : \E f : Chunking(f, w, v, n, chunks, k)
<1> DEFINE Step(s, i) == Chunk(s, w, v, n, chunks - i)
           Solves(f, k) == f = [i \in 0 .. k |-> IF i = 0 THEN <<0, 0>> ELSE Step(f[i - 1], i)]
           P == {k \in Nat : \E f : Solves(f, k)}
<1>1. \A f, k : Chunking(f, w, v, n, chunks, k) <=> Solves(f, k)
  BY DEF Chunking
<1> HIDE DEF Step
<1>2. 0 \in P
  <2>1. Solves([i \in 0 .. 0 |-> <<0, 0>>], 0)
    OBVIOUS
  <2> QED
    BY <2>1
<1>3. ASSUME NEW k \in Nat, k \in P PROVE k + 1 \in P
  <2>1. PICK f : Solves(f, k)
    BY <1>3
  <2> DEFINE g == [i \in 0 .. k + 1 |-> IF i = k + 1 THEN Step(f[i - 1], i) ELSE f[i]]
  <2>2. g = [i \in 0 .. k + 1 |-> g[i]]
    OBVIOUS
  <2>3. ASSUME NEW i \in 0 .. k + 1
        PROVE  g[i] = IF i = 0 THEN <<0, 0>> ELSE Step(g[i - 1], i)
    <3>1. CASE i = k + 1
      BY <3>1
    <3>2. CASE i \in 0 .. k
      <4>1. g[i] = f[i] /\ (i # 0 => g[i - 1] = f[i - 1])
        BY <3>2
      <4> QED
        BY <2>1, <3>2, <4>1
    <3> QED
      BY <3>1, <3>2
  <2> HIDE DEF g
  <2>4. Solves(g, k + 1)
    BY <2>2, <2>3
  <2> QED
    BY <2>4
<1> HIDE DEF P
<1>4. Nat \subseteq P
  BY <1>2, <1>3, SetInduction
<1> QED
  BY <1>1, <1>4 DEF P

(* The division by chunks is exact. *)
LEMMA BurnikelZieglerIs ==
    ASSUME NEW u \in Nat, NEW v \in Nat, LimbCount(v) >= 2
    PROVE  Exact(DivideBurnikelZiegler(u, v), u, v)
<1> DEFINE d == TwoTo(NormalizeShift(v))
           n == LimbCount(v)
           w == u * d
           y == v * d
           chunks == (LimbCount(w) + n - 1) \div n
           Next(q, qr) == <<q * Beta(n) + qr[1], qr[2]>>
           Step(s, i)  == Next(s[1], Bz2By1(s[2] * Beta(n) + Limbs(w, (chunks - i) * n, n), y, n))
           after[i \in 0 .. chunks] == IF i = 0 THEN <<0, 0>> ELSE Step(after[i - 1], i)
           end == after[chunks]
<1>1. DivideBurnikelZiegler(u, v) = <<end[1], end[2] \div d>>
  BY DEF DivideBurnikelZiegler
<1>2. v # 0 /\ n \in Nat /\ n >= 2
  BY LimbCountIs
<1>3. d \in Nat /\ d > 0 /\ y \in Nat /\ Normal(y, n) /\ w \in Nat
  <2>1. d \in Nat /\ d > 0 /\ v * d < Beta(n) /\ Beta(n) <= 2 * (v * d)
    BY <1>2, NormalizeShiftIs
  <2>2. v * d \in Nat /\ u * d \in Nat
    BY <2>1
  <2> QED
    BY <2>1, <2>2 DEF Normal
<1>4. \A s, i : Step(s, i) = Chunk(s, w, y, n, chunks - i)
  BY DEF Chunk
<1>5. chunks \in Nat /\ LimbCount(w) \in Nat /\ LimbCount(w) <= chunks * n
  <2> HIDE DEF n, w
  <2> DEFINE c == LimbCount(w) + n - 1
  <2>1. LimbCount(w) \in Nat
    BY <1>3, LimbCountIs
  <2>2. c \in Nat
    BY <1>2, <2>1
  <2> HIDE DEF c
  <2>3. c \div n \in Nat /\ c % n < n /\ c % n \in Nat /\ c = (c \div n) * n + (c % n)
    BY <1>2, <2>2, QuotientIs
  <2>4. chunks = c \div n
    BY DEF c
  <2>5. c = LimbCount(w) + n - 1
    BY DEF c
  <2> HIDE DEF chunks
  <2> QED
    BY <1>2, <2>1, <2>3, <2>4, <2>5
<1> HIDE DEF d, n, w, y, chunks
<1>6. Chunking(after, w, y, n, chunks, chunks)
  <2>1. \E f : Chunking(f, w, y, n, chunks, chunks)
    BY <1>5, ChunkingExists
  <2>2. \E f : f = [i \in 0 .. chunks |-> IF i = 0 THEN <<0, 0>> ELSE Step(f[i - 1], i)]
    <3> HIDE DEF Step
    <3> QED
      BY <1>4, <2>1 DEF Chunking
  <2> HIDE DEF Step
  <2>3. after = [i \in 0 .. chunks |-> IF i = 0 THEN <<0, 0>> ELSE Step(after[i - 1], i)]
    BY <2>2
  <2> HIDE DEF after
  <2> QED
    BY <1>4, <2>3 DEF Chunking
<1> HIDE DEF after, Step
<1> DEFINE S(i) == Exact(after[i], w \div Beta((chunks - i) * n), y)
           P == {i \in Nat : i <= chunks => S(i)}
<1>7. 0 \in P
  <2>1. after[0] = <<0, 0>>
    BY <1>5, <1>6 DEF Chunking
  <2> DEFINE top == Beta((chunks - 0) * n)
  <2>2. top \in Nat /\ w < top
    <3>1. chunks * n \in Nat /\ (chunks - 0) * n = chunks * n
      BY <1>2, <1>5
    <3>2. Beta(LimbCount(w)) <= Beta(chunks * n) /\ Beta(chunks * n) \in Nat /\ Beta(LimbCount(w)) \in Nat
      BY <1>5, <3>1, BetaGrows, BetaNat
    <3>3. w < Beta(LimbCount(w))
      BY <1>3, LimbCountIs
    <3> QED
      BY <1>3, <3>1, <3>2, <3>3
  <2> HIDE DEF top
  <2>3. w \div top = 0
    BY <1>3, <2>2
  <2>4. y > 0 /\ 0 * y + 0 = 0
    BY <1>2, <1>3, NormalCount
  <2>5. S(0)
    BY <2>1, <2>3, <2>4 DEF Exact, top
  <2> QED
    BY <2>5
<1>8. ASSUME NEW i \in Nat, i \in P PROVE i + 1 \in P
  <2> SUFFICES ASSUME i + 1 <= chunks PROVE S(i + 1)
    OBVIOUS
  <2> DEFINE s == after[i]
             c == chunks - (i + 1)
             j == c * n
             b == Beta(n)
             up == w \div Beta(j + n)
             L == Limbs(w, j, n)
             a == s[2] * b + L
             qr == Bz2By1(a, y, n)
  <2>1. c \in Nat /\ j \in Nat /\ (chunks - i) * n = j + n
    BY <1>2, <1>5
  <2>2. after[i + 1] = <<s[1] * b + qr[1], qr[2]>>
    <3>1. i + 1 \in 0 .. chunks /\ i + 1 # 0 /\ (i + 1) - 1 = i
      BY <1>5
    <3>2. after[i + 1] = Chunk(s, w, y, n, c)
      BY <1>6, <3>1 DEF Chunking
    <3> QED
      BY <3>2 DEF Chunk
  <2>3. b \in Nat /\ b > 0 /\ Beta(j) \in Nat /\ Beta(j) > 0 /\ Beta(j + n) = Beta(j) * b
    BY <1>2, <2>1, BetaNat, BetaAdds
  <2>4. s[1] \in Nat /\ s[2] \in Nat /\ up = s[1] * y + s[2] /\ s[2] < y
    <3>1. S(i)
      BY <1>5, <1>8
    <3> QED
      BY <2>1, <3>1 DEF Exact
  <2>5. L \in Nat /\ L < b /\ w \div Beta(j) = up * b + L /\ w \div Beta(j) \in Nat
    <3> DEFINE x == w \div Beta(j)
    <3>1. x \in Nat
      BY <1>3, <2>3, QuotientIs
    <3>2. up = x \div b
      BY <1>3, <2>3, QuotientTwice
    <3>3. L = x % b
      BY DEF Limbs
    <3> HIDE DEF x, up, L, b
    <3>4. L \in Nat /\ L < b /\ x = up * b + L
      BY <2>3, <3>1, <3>2, <3>3, QuotientIs
    <3> QED
      BY <3>1, <3>4 DEF x
  <2> HIDE DEF s, c, j, up, L
  <2>6. a \in Nat /\ a < y * b
    <3> HIDE DEF b
    <3>1. (s[2] + 1) * b <= y * b
      BY <1>3, <2>3, <2>4
    <3>2. s[2] * b \in Nat
      BY <2>3, <2>4
    <3> QED
      BY <1>3, <2>3, <2>4, <2>5, <3>1, <3>2
  <2> HIDE DEF a
  <2>7. Exact(qr, a, y)
    BY <1>2, <1>3, <2>6, Bz2By1Is
  <2> HIDE DEF qr
  <2>8. qr[1] \in Nat /\ qr[2] \in Nat /\ a = qr[1] * y + qr[2] /\ qr[2] < y
    BY <2>7 DEF Exact
  <2>9. s[1] * b + qr[1] \in Nat
    BY <2>3, <2>4, <2>8
  <2>10. up * b + L = (s[1] * b + qr[1]) * y + qr[2]
    <3> HIDE DEF b
    <3>1. up * b = (s[1] * b) * y + s[2] * b
      BY <1>3, <2>3, <2>4
    <3>2. (s[1] * b + qr[1]) * y = (s[1] * b) * y + qr[1] * y
      BY <1>3, <2>3, <2>4, <2>8
    <3>3. s[2] * b + L = qr[1] * y + qr[2]
      BY <2>8 DEF a
    <3>4. (s[1] * b) * y \in Nat /\ s[2] * b \in Nat /\ qr[1] * y \in Nat
      BY <1>3, <2>3, <2>4, <2>8
    <3> QED
      BY <2>5, <2>8, <3>1, <3>2, <3>3, <3>4
  <2>11. Exact(after[i + 1], w \div Beta(j), y)
    <3> HIDE DEF b
    <3> QED
      BY <2>2, <2>5, <2>8, <2>9, <2>10 DEF Exact
  <2> QED
    BY <2>11 DEF j, c
<1> HIDE DEF P
<1>9. Nat \subseteq P
  BY <1>7, <1>8, SetInduction
<1>10. Exact(end, w, y)
  <2>1. S(chunks)
    BY <1>5, <1>9 DEF P
  <2>2. (chunks - chunks) * n = 0 /\ w \div 1 = w
    BY <1>2, <1>3, <1>5
  <2>3. Beta(0) = 1
    BY BetaIs
  <2> QED
    BY <2>1, <2>2, <2>3
<1> HIDE DEF end, S
<1>11. end[1] \in Nat /\ end[2] \in Nat /\ w = end[1] * y + end[2] /\ end[2] < y
  BY <1>10 DEF Exact
<1>12. /\ end[2] \div d \in Nat /\ end[2] \div d < v
       /\ u = end[1] * v + (end[2] \div d)
  BY <1>3, <1>11, Denormalized DEF w, y
<1> QED
  BY <1>1, <1>11, <1>12 DEF Exact

-----------------------------------------------------------------------------
(* Division of magnitudes and of signed numbers. *)

(* divide_magnitude is exact, whichever algorithm it takes. *)
LEMMA DivideMagnitudeIs ==
    ASSUME NEW u \in Nat, NEW v \in Nat, v # 0
    PROVE  Exact(DivideMagnitude(u, v), u, v)
<1>1. CASE u < v
  <2>1. 0 * v + u = u
    OBVIOUS
  <2> QED
    BY <1>1, <2>1 DEF DivideMagnitude, Exact
<1>2. CASE ~(u < v) /\ LimbCount(v) = 1
  BY <1>2, QuotientIs DEF DivideMagnitude, Exact
<1>3. CASE ~(u < v) /\ LimbCount(v) # 1
  <2>1. LimbCount(v) \in Nat /\ LimbCount(v) >= 2
    BY <1>3, LimbCountIs
  <2>2. Exact(DivideBurnikelZiegler(u, v), u, v) /\ Exact(DivideKnuthD(u, v), u, v)
    BY <1>3, <2>1, BurnikelZieglerIs, KnuthDIs
  <2> QED
    BY <1>3, <2>2 DEF DivideMagnitude
<1> QED
  BY <1>2, <1>1, <1>3

(* For all numbers, of any length and sign: whichever of the algorithms divides, the       *)
(* quotient is rounded down and the remainder completes it (divide_with_remainder).        *)
THEOREM DivisionIsExact ==
    ASSUME NEW n \in Int, NEW d \in Int \ {0}
    PROVE  Divided(n, d, DivideWithRemainder(n, d))
<1> DEFINE u == Abs(n)
           v == Abs(d)
           differ == (n < 0) # (d < 0)
           qr == DivideMagnitude(u, v)
           fl == IF differ /\ qr[2] # 0 THEN <<qr[1] + 1, v - qr[2]>> ELSE qr
           result == <<IF differ THEN -fl[1] ELSE fl[1], IF d < 0 THEN -fl[2] ELSE fl[2]>>
<1>1. DivideWithRemainder(n, d) = IF n = 0 THEN <<0, 0>> ELSE result
  BY DEF DivideWithRemainder
<1>2. CASE n = 0
  <2>1. 0 * d = 0
    OBVIOUS
  <2> QED
    BY <1>1, <1>2, <2>1 DEF Divided, Abs
<1>3. CASE n # 0
  <2>1. u \in Nat /\ v \in Nat /\ v # 0
    BY DEF Abs
  <2>2. Exact(qr, u, v)
    BY <2>1, DivideMagnitudeIs
  <2>3. qr[1] \in Nat /\ qr[2] \in Nat /\ u = qr[1] * v + qr[2] /\ qr[2] < v
    BY <2>2 DEF Exact
  <2> HIDE DEF qr
  <2>4. /\ fl[1] \in Nat /\ fl[2] \in Nat /\ fl[2] < v
        /\ u = IF differ THEN fl[1] * v - fl[2] ELSE fl[1] * v + fl[2]
    <3>1. CASE differ /\ qr[2] # 0
      <4>1. fl[1] = qr[1] + 1 /\ fl[2] = v - qr[2]
        BY <3>1
      <4>2. (qr[1] + 1) * v = qr[1] * v + v
        BY <2>1, <2>3
      <4> QED
        BY <2>1, <2>3, <3>1, <4>1, <4>2
    <3>2. CASE ~(differ /\ qr[2] # 0)
      BY <2>1, <2>3, <3>2
    <3> QED
      BY <3>1, <3>2
  <2> DEFINE f1 == fl[1]
             f2 == fl[2]
  <2>5. /\ f1 \in Nat /\ f2 \in Nat /\ f2 < v
        /\ u = IF differ THEN f1 * v - f2 ELSE f1 * v + f2
    BY <2>4
  <2>6. DivideWithRemainder(n, d) = <<IF differ THEN -f1 ELSE f1, IF d < 0 THEN -f2 ELSE f2>>
    BY <1>1, <1>3
  <2> HIDE DEF f1, f2
  <2>7. f1 * v \in Nat /\ (d < 0 => f1 * v = -(f1 * d)) /\ (d > 0 => f1 * v = f1 * d) /\ (-f1) * d = -(f1 * d)
    BY <2>1, <2>5 DEF Abs
  <2>8. Abs(IF d < 0 THEN -f2 ELSE f2) = f2
    BY <2>5 DEF Abs
  <2>9. CASE d > 0 /\ n > 0
    BY <2>5, <2>6, <2>7, <2>8, <2>9 DEF Divided, Abs
  <2>10. CASE d > 0 /\ n < 0
    BY <2>5, <2>6, <2>7, <2>8, <2>10 DEF Divided, Abs
  <2>11. CASE d < 0 /\ n > 0
    BY <2>5, <2>6, <2>7, <2>8, <2>11 DEF Divided, Abs
  <2>12. CASE d < 0 /\ n < 0
    BY <2>5, <2>6, <2>7, <2>8, <2>12 DEF Divided, Abs
  <2> QED
    BY <1>3, <2>9, <2>10, <2>11, <2>12
<1> QED
  BY <1>2, <1>3

-----------------------------------------------------------------------------
(* Products.  The operands of the smaller products are smaller than the     *)
(* longer operand of the product they are for.                              *)

\* r is the product, or tells that the limbs were exhausted under a limit.
Right(r, a, b, max) ==
    /\ r.exhausted \in BOOLEAN
    /\ r.exhausted => max > 0
    /\ ~r.exhausted => r.value = a * b

\* The function multiplies numbers less than m.
MultipliesBelow(times, m, max) ==
    \A x, y \in Nat : x < m /\ y < m => Right(times[<<x, y>>], x, y, max)

\* Two functions agree on numbers less than m.
AgreeBelow(f, g, m) == \A x, y \in Nat : x < m /\ y < m => f[<<x, y>>] = g[<<x, y>>]

(* A subtraction from the larger number keeps no borrow. *)
LEMMA SubtractIs ==
    ASSUME NEW a \in Nat, NEW b \in Nat, b <= a
    PROVE  SubtractMagnitude(a, b) = a - b
<1> DEFINE r == a - b
<1>1. r \in Nat /\ r <= a /\ a < Beta(LimbCount(a)) /\ Beta(LimbCount(a)) \in Nat
  BY LimbCountIs, BetaNat
<1> HIDE DEF r
<1>2. r % Beta(LimbCount(a)) = r
  BY <1>1
<1> QED
  BY <1>2 DEF SubtractMagnitude, r

(* A division without remainder, of either sign. *)
LEMMA DivideExactIs ==
    ASSUME NEW x \in Int, NEW d \in Nat, d > 0
    PROVE  DivideExact(d * x, d) = x
<1>1. CASE x >= 0
  <2>1. (x * d + 0) \div d = x
    BY <1>1, QuotientUnique
  <2>2. d * x >= 0 /\ d * x = x * d + 0
    BY <1>1
  <2> QED
    BY <2>1, <2>2 DEF DivideExact
<1>2. CASE x < 0
  <2> DEFINE y == -x
  <2>1. y \in Nat
    BY <1>2
  <2>2. d * x < 0 /\ -(d * x) = y * d + 0
    BY <1>2
  <2>3. -y = x
    OBVIOUS
  <2> HIDE DEF y
  <2>4. (y * d + 0) \div d = y
    BY <2>1, QuotientUnique
  <2> QED
    BY <2>2, <2>3, <2>4 DEF DivideExact
<1> QED
  BY <1>1, <1>2

(* The longer operand is at least the base to the power of the length of a piece. *)
LEMMA LongerIs ==
    ASSUME NEW a \in Nat, NEW b \in Nat, a # 0, b # 0
    PROVE  LET n == Larger(LimbCount(a), LimbCount(b))
           IN  /\ n \in Nat /\ n > 0 /\ a < Beta(n) /\ b < Beta(n)
               /\ Larger(a, b) \in Nat /\ a <= Larger(a, b) /\ b <= Larger(a, b)
               /\ \A k \in Nat : k < n => Beta(k) <= Larger(a, b)
<1> DEFINE n == Larger(LimbCount(a), LimbCount(b))
<1>1. /\ LimbCount(a) \in Nat /\ LimbCount(a) > 0 /\ a < Beta(LimbCount(a)) /\ Beta(LimbCount(a) - 1) <= a
      /\ LimbCount(b) \in Nat /\ LimbCount(b) > 0 /\ b < Beta(LimbCount(b)) /\ Beta(LimbCount(b) - 1) <= b
  BY LimbCountIs
<1>2. n \in Nat /\ n > 0 /\ LimbCount(a) <= n /\ LimbCount(b) <= n /\ (n = LimbCount(a) \/ n = LimbCount(b))
  BY <1>1 DEF Larger
<1>3. Larger(a, b) \in Nat /\ a <= Larger(a, b) /\ b <= Larger(a, b)
  BY DEF Larger
<1> HIDE DEF n
<1>4. a < Beta(n) /\ b < Beta(n)
  <2>1. Beta(LimbCount(a)) <= Beta(n) /\ Beta(LimbCount(b)) <= Beta(n)
    BY <1>1, <1>2, BetaGrows
  <2>2. Beta(n) \in Nat /\ Beta(LimbCount(a)) \in Nat /\ Beta(LimbCount(b)) \in Nat
    BY <1>1, <1>2, BetaNat
  <2> QED
    BY <1>1, <2>1, <2>2
<1>5. ASSUME NEW k \in Nat, k < n PROVE Beta(k) <= Larger(a, b)
  <2>1. n - 1 \in Nat /\ k <= n - 1
    BY <1>2, <1>5
  <2>2. Beta(k) <= Beta(n - 1) /\ Beta(k) \in Nat /\ Beta(n - 1) \in Nat
    BY <2>1, BetaGrows, BetaNat
  <2>3. Beta(n - 1) <= a \/ Beta(n - 1) <= b
    BY <1>1, <1>2
  <2> QED
    BY <1>3, <2>2, <2>3
<1> QED
  BY <1>2, <1>3, <1>4, <1>5 DEF n

-----------------------------------------------------------------------------
(* Karatsuba's product of two halves. *)

High(x, half) == x \div Beta(half)
Low(x, half)  == x - High(x, half) * Beta(half)

KaratsubaOf(z0, z1, z2, half) ==
    Together(z2.value * Beta(2 * half)
                 + SubtractMagnitude(z1.value, z2.value + z0.value) * Beta(half) + z0.value,
             {z0, z1, z2})

(* The halves and their sum are small. *)
LEMMA HalvesAreSmall ==
    ASSUME NEW m \in Nat, NEW x \in Nat, x <= m, NEW half \in Nat, half > 0, Beta(half) <= m
    PROVE  /\ High(x, half) \in Nat /\ Low(x, half) \in Nat
           /\ x = High(x, half) * Beta(half) + Low(x, half)
           /\ High(x, half) + Low(x, half) < m
           /\ SubtractMagnitude(x, High(x, half) * Beta(half)) = Low(x, half)
<1> DEFINE b == Beta(half)
           h == x \div b
           l == x % b
<1>1. b \in Nat /\ b >= 4
  BY BetaIs
<1>2. h \in Nat /\ l \in Nat /\ l < b /\ x = h * b + l
  BY <1>1, QuotientIs
<1> HIDE DEF b, h, l
<1>3. High(x, half) = h /\ Low(x, half) = l
  BY <1>1, <1>2 DEF High, Low, h, b
<1>4. h + l < m
  <2>1. CASE h = 0
    BY <1>1, <1>2, <2>1 DEF b
  <2>2. CASE h > 0
    <3>1. h * 4 <= h * b
      BY <1>1, <1>2
    <3> QED
      BY <1>1, <1>2, <2>2, <3>1
  <2> QED
    BY <1>2, <2>1, <2>2
<1>5. h * b \in Nat /\ h * b <= x /\ x - h * b = l
  BY <1>1, <1>2
<1>6. SubtractMagnitude(x, h * b) = l
  BY <1>5, SubtractIs
<1> QED
  BY <1>2, <1>3, <1>4, <1>6 DEF b

(* Karatsuba makes its product from three smaller ones. *)
LEMMA KaratsubaUses ==
    ASSUME NEW a \in Nat, NEW b \in Nat, a # 0, b # 0,
           Larger(LimbCount(a), LimbCount(b)) >= 2
    PROVE  \E half \in Nat :
               /\ half > 0 /\ Beta(half) <= Larger(a, b)
               /\ \A f : Karatsuba(f, a, b) =
                      KaratsubaOf(f[<<Low(a, half), Low(b, half)>>],
                                  f[<<Low(a, half) + High(a, half), Low(b, half) + High(b, half)>>],
                                  f[<<High(a, half), High(b, half)>>], half)
<1> DEFINE n == Larger(LimbCount(a), LimbCount(b))
           half == (n + 1) \div 2
<1>1. n \in Nat /\ n >= 2 /\ a <= Larger(a, b) /\ b <= Larger(a, b) /\ Larger(a, b) \in Nat
  BY LongerIs
<1>2. half \in Nat /\ half > 0 /\ half < n
  <2> HIDE DEF n
  <2> QED
    BY <1>1
<1>3. Beta(half) <= Larger(a, b)
  <2> HIDE DEF half
  <2> QED
    BY <1>2, LongerIs
<1> HIDE DEF half
<1>4. /\ SubtractMagnitude(a, High(a, half) * Beta(half)) = Low(a, half)
      /\ SubtractMagnitude(b, High(b, half) * Beta(half)) = Low(b, half)
  BY <1>1, <1>2, <1>3, HalvesAreSmall
<1>5. ASSUME NEW f
      PROVE  Karatsuba(f, a, b) =
                 KaratsubaOf(f[<<Low(a, half), Low(b, half)>>],
                             f[<<Low(a, half) + High(a, half), Low(b, half) + High(b, half)>>],
                             f[<<High(a, half), High(b, half)>>], half)
  <2> DEFINE high(x) == x \div Beta(half)
             low(x)  == SubtractMagnitude(x, high(x) * Beta(half))
  <2>1. Karatsuba(f, a, b) = KaratsubaOf(f[<<low(a), low(b)>>], f[<<low(a) + high(a), low(b) + high(b)>>],
                                         f[<<high(a), high(b)>>], half)
    BY DEF Karatsuba, KaratsubaOf, half
  <2>2. high(a) = High(a, half) /\ high(b) = High(b, half)
    BY DEF High
  <2> HIDE DEF high
  <2>3. low(a) = Low(a, half) /\ low(b) = Low(b, half)
    BY <1>4, <2>2
  <2> HIDE DEF low
  <2> QED
    BY <2>1, <2>2, <2>3
<1> QED
  BY <1>2, <1>3, <1>5

(* Karatsuba's product is right if the smaller ones are. *)
LEMMA KaratsubaIs ==
    ASSUME NEW a \in Nat, NEW b \in Nat, a # 0, b # 0, NEW max \in Nat,
           Larger(LimbCount(a), LimbCount(b)) >= 2,
           NEW times, MultipliesBelow(times, Larger(a, b), max)
    PROVE  Right(Karatsuba(times, a, b), a, b, max)
<1> DEFINE m == Larger(a, b)
<1>1. PICK half \in Nat :
          /\ half > 0 /\ Beta(half) <= m
          /\ \A f : Karatsuba(f, a, b) =
                 KaratsubaOf(f[<<Low(a, half), Low(b, half)>>],
                             f[<<Low(a, half) + High(a, half), Low(b, half) + High(b, half)>>],
                             f[<<High(a, half), High(b, half)>>], half)
  BY KaratsubaUses
<1> DEFINE w  == Beta(half)
           ah == High(a, half)
           al == Low(a, half)
           bh == High(b, half)
           bl == Low(b, half)
           z0 == times[<<al, bl>>]
           z1 == times[<<al + ah, bl + bh>>]
           z2 == times[<<ah, bh>>]
           r  == KaratsubaOf(z0, z1, z2, half)
<1>2. m \in Nat /\ a <= m /\ b <= m
  BY LongerIs
<1>3. w \in Nat /\ w > 0 /\ Beta(2 * half) = w * w
  <2>1. half + half = 2 * half
    OBVIOUS
  <2> QED
    BY <2>1, BetaNat, BetaAdds
<1> HIDE DEF m
<1>4. ah \in Nat /\ al \in Nat /\ a = ah * w + al /\ ah + al < m
  BY <1>1, <1>2, HalvesAreSmall
<1>5. bh \in Nat /\ bl \in Nat /\ b = bh * w + bl /\ bh + bl < m
  BY <1>1, <1>2, HalvesAreSmall
<1>6. Karatsuba(times, a, b) = r
  BY <1>1
<1> HIDE DEF ah, al, bh, bl, w
<1>7. Right(z0, al, bl, max) /\ Right(z1, al + ah, bl + bh, max) /\ Right(z2, ah, bh, max)
  <2>1. al < m /\ bl < m /\ ah < m /\ bh < m /\ al + ah < m /\ bl + bh < m
        /\ al + ah \in Nat /\ bl + bh \in Nat
    BY <1>2, <1>4, <1>5
  <2> QED
    BY <1>4, <1>5, <2>1 DEF MultipliesBelow, m
<1> HIDE DEF z0, z1, z2
<1>8. r.exhausted = (z0.exhausted \/ z1.exhausted \/ z2.exhausted)
  BY DEF KaratsubaOf, Together
<1>9. CASE z0.exhausted \/ z1.exhausted \/ z2.exhausted
  <2> HIDE DEF r
  <2> QED
    BY <1>6, <1>7, <1>8, <1>9 DEF Right
<1>10. CASE ~(z0.exhausted \/ z1.exhausted \/ z2.exhausted)
  <2>1. z0.value = al * bl /\ z2.value = ah * bh /\ z1.value = (al + ah) * (bl + bh)
    BY <1>7, <1>10 DEF Right
  <2> DEFINE mid == al * bh + ah * bl
  <2>2. mid \in Nat /\ al * bl \in Nat /\ ah * bh \in Nat
    BY <1>4, <1>5
  <2>3. (al + ah) * (bl + bh) = mid + (ah * bh + al * bl)
    BY <1>4, <1>5
  <2>4. SubtractMagnitude(z1.value, z2.value + z0.value) = mid
    <3> DEFINE big == (al + ah) * (bl + bh)
               small == ah * bh + al * bl
    <3>1. big \in Nat /\ small \in Nat /\ small <= big /\ big - small = mid
      BY <2>2, <2>3
    <3> HIDE DEF big, small, mid
    <3>2. SubtractMagnitude(big, small) = mid
      BY <3>1, SubtractIs
    <3> QED
      BY <2>1, <3>2 DEF big, small
  <2>5. r.value = (ah * bh) * (w * w) + mid * w + al * bl
    BY <1>3, <2>1, <2>4 DEF KaratsubaOf, Together, w
  <2>6. a * b = (ah * bh) * (w * w) + mid * w + al * bl
    BY <1>3, <1>4, <1>5
  <2> HIDE DEF r
  <2> QED
    BY <1>6, <1>7, <1>8, <1>10, <2>5, <2>6 DEF Right
<1> QED
  BY <1>9, <1>10

(* It depends on the smaller ones alone. *)
LEMMA KaratsubaLocal ==
    ASSUME NEW a \in Nat, NEW b \in Nat, a # 0, b # 0,
           Larger(LimbCount(a), LimbCount(b)) >= 2,
           NEW f, NEW g, AgreeBelow(f, g, Larger(a, b))
    PROVE  Karatsuba(f, a, b) = Karatsuba(g, a, b)
<1> DEFINE m == Larger(a, b)
<1>1. PICK half \in Nat :
          /\ half > 0 /\ Beta(half) <= m
          /\ \A h : Karatsuba(h, a, b) =
                 KaratsubaOf(h[<<Low(a, half), Low(b, half)>>],
                             h[<<Low(a, half) + High(a, half), Low(b, half) + High(b, half)>>],
                             h[<<High(a, half), High(b, half)>>], half)
  BY KaratsubaUses
<1>2. m \in Nat /\ a <= m /\ b <= m
  BY LongerIs
<1> DEFINE ah == High(a, half)
           al == Low(a, half)
           bh == High(b, half)
           bl == Low(b, half)
<1>3. /\ ah \in Nat /\ al \in Nat /\ ah + al < m
      /\ bh \in Nat /\ bl \in Nat /\ bh + bl < m
  <2> HIDE DEF m
  <2> QED
    BY <1>1, <1>2, HalvesAreSmall
<1> HIDE DEF m, ah, al, bh, bl
<1>4. al < m /\ bl < m /\ ah < m /\ bh < m /\ al + ah < m /\ bl + bh < m
      /\ al + ah \in Nat /\ bl + bh \in Nat
  BY <1>2, <1>3
<1>5. f[<<al, bl>>] = g[<<al, bl>>] /\ f[<<ah, bh>>] = g[<<ah, bh>>]
      /\ f[<<al + ah, bl + bh>>] = g[<<al + ah, bl + bh>>]
  BY <1>3, <1>4 DEF AgreeBelow, m
<1> QED
  BY <1>1, <1>5 DEF al, ah, bl, bh

-----------------------------------------------------------------------------
(* Toom's product of three pieces. *)

Piece(x, i, k) == Limbs(x, i * k, k)

AtOne(x, k)      == Piece(x, 0, k) + Piece(x, 1, k) + Piece(x, 2, k)
AtMinusOne(x, k) == Piece(x, 0, k) - Piece(x, 1, k) + Piece(x, 2, k)
AtTwo(x, k)      == Piece(x, 0, k) + 2 * Piece(x, 1, k) + 4 * Piece(x, 2, k)

\* The numbers of which the five products are made.
ToomArguments(a, b, k) ==
    <<<<Piece(a, 0, k), Piece(b, 0, k)>>,
      <<AtOne(a, k), AtOne(b, k)>>,
      <<Abs(AtMinusOne(a, k)), Abs(AtMinusOne(b, k))>>,
      <<AtTwo(a, k), AtTwo(b, k)>>,
      <<Piece(a, 2, k), Piece(b, 2, k)>>>>

\* The coefficients of the product from its values.
ToomValue(r0, r1, rm1, r2, c4, k) ==
    LET s1 == DivideExact(r1 + rm1, 2) - r0
        s2 == DivideExact(r1 - rm1, 2)
        c2 == s1 - c4
        c3 == DivideExact(DivideExact(r2 - r0 - 2 * s2, 2) - 2 * c2 - 8 * c4, 3)
        c1 == s2 - c3
    IN  Abs(r0 + c1 * Beta(k) + c2 * Beta(2 * k) + c3 * Beta(3 * k) + c4 * Beta(4 * k))

ToomOf(p0, p1, m1, p2, inf, negative, k) ==
    Together(ToomValue(p0.value, p1.value, IF negative THEN -m1.value ELSE m1.value,
                       p2.value, inf.value, k),
             {p0, p1, m1, p2, inf})

Opposite(a, b, k) == (AtMinusOne(a, k) < 0) # (AtMinusOne(b, k) < 0)

(* The pieces make up the number, and their values are smaller than it, or than the   *)
(* longer operand.                                                                    *)
LEMMA PiecesAre ==
    ASSUME NEW m \in Nat, NEW x \in Nat, x <= m, NEW k \in Nat, k > 0, Beta(k) <= m,
           x < Beta(3 * k)
    PROVE  LET x0 == Piece(x, 0, k)
               x1 == Piece(x, 1, k)
               x2 == Piece(x, 2, k)
           IN  /\ x0 \in Nat /\ x1 \in Nat /\ x2 \in Nat
               /\ x = x0 + x1 * Beta(k) + x2 * (Beta(k) * Beta(k))
               /\ x0 + 2 * x1 + 4 * x2 < m
<1> DEFINE w  == Beta(k)
           y  == x \div w
           x0 == Limbs(x, 0, k)
           x1 == y % w
           x2 == y \div w
<1>1. w \in Nat /\ w >= 4
  BY BetaIs
<1>2. x0 \in Nat /\ x0 < w /\ y \in Nat /\ x = y * w + x0
  BY LowLimbs
<1>3. x1 \in Nat /\ x2 \in Nat /\ y = x2 * w + x1
  <2> HIDE DEF w, y
  <2> QED
    BY <1>1, <1>2, QuotientIs
<1>4. Piece(x, 0, k) = x0
  BY DEF Piece
<1>5. Piece(x, 1, k) = x1
  BY DEF Piece, Limbs
<1>6. Piece(x, 2, k) = x2
  <2>1. 2 * k \in Nat /\ 2 * k + k = 3 * k /\ k + k = 2 * k
    OBVIOUS
  <2>2. Limbs(x, 2 * k, k) = x \div Beta(2 * k)
    BY <2>1, LimbsAre
  <2>3. Beta(2 * k) = w * w
    BY <2>1, BetaAdds
  <2>4. (x \div w) \div w = x \div (w * w)
    <3> HIDE DEF w
    <3> QED
      BY <1>1, QuotientTwice
  <2> QED
    BY <2>2, <2>3, <2>4 DEF Piece
<1>9. w <= m
  OBVIOUS
<1> HIDE DEF w, y, x0, x1, x2
<1>7. x = x0 + x1 * w + x2 * (w * w)
  <2>1. y * w = x2 * (w * w) + x1 * w
    BY <1>1, <1>2, <1>3
  <2> QED
    BY <1>1, <1>2, <1>3, <2>1
<1>8. x0 + 2 * x1 + 4 * x2 < m
  <2>1. x1 * 4 <= x1 * w
    BY <1>1, <1>3
  <2>2. x2 * 16 <= x2 * (w * w)
    <3>1. w * w \in Nat /\ w * w >= 16
      BY <1>1
    <3> HIDE DEF w
    <3> QED
      BY <1>3, <3>1
  <2>3. CASE x1 = 0 /\ x2 = 0
    BY <1>1, <1>2, <1>9, <2>3
  <2>4. CASE x1 > 0 \/ x2 > 0
    <3>1. x1 * w \in Nat /\ x2 * (w * w) \in Nat
      BY <1>1, <1>3
    <3>2. 2 * x1 + 4 * x2 < 4 * x1 + 16 * x2
      BY <1>3, <2>4
    <3> QED
      BY <1>2, <1>3, <1>7, <2>1, <2>2, <3>1, <3>2
  <2> QED
    BY <1>3, <2>3, <2>4
<1> QED
  BY <1>2, <1>3, <1>4, <1>5, <1>6, <1>7, <1>8 DEF w

(* Toom's algorithm makes its product from five. *)
LEMMA ToomUses ==
    ASSUME NEW a \in Nat, NEW b \in Nat, a # 0, b # 0,
           Larger(LimbCount(a), LimbCount(b)) >= 2
    PROVE  \E k \in Nat :
               /\ k > 0 /\ Beta(k) <= Larger(a, b) /\ a < Beta(3 * k) /\ b < Beta(3 * k)
               /\ \A f : Toom3(f, a, b) =
                      ToomOf(f[ToomArguments(a, b, k)[1]], f[ToomArguments(a, b, k)[2]],
                             f[ToomArguments(a, b, k)[3]], f[ToomArguments(a, b, k)[4]],
                             f[ToomArguments(a, b, k)[5]], Opposite(a, b, k), k)
<1> DEFINE n == Larger(LimbCount(a), LimbCount(b))
           k == (n + 2) \div 3
<1>1. n \in Nat /\ n >= 2 /\ a < Beta(n) /\ b < Beta(n)
  BY LongerIs
<1>2. k \in Nat /\ k > 0 /\ k < n /\ n <= 3 * k
  <2> HIDE DEF n
  <2> QED
    BY <1>1
<1>3. Beta(k) <= Larger(a, b)
  <2> HIDE DEF k
  <2> QED
    BY <1>2, LongerIs
<1> HIDE DEF k
<1>4. a < Beta(3 * k) /\ b < Beta(3 * k)
  <2> HIDE DEF n
  <2>1. 3 * k \in Nat
    BY <1>2
  <2>2. Beta(n) <= Beta(3 * k) /\ Beta(n) \in Nat /\ Beta(3 * k) \in Nat
    BY <1>1, <1>2, <2>1, BetaGrows, BetaNat
  <2> QED
    BY <1>1, <2>2
<1>5. ASSUME NEW f
      PROVE  Toom3(f, a, b) =
                 ToomOf(f[ToomArguments(a, b, k)[1]], f[ToomArguments(a, b, k)[2]],
                        f[ToomArguments(a, b, k)[3]], f[ToomArguments(a, b, k)[4]],
                        f[ToomArguments(a, b, k)[5]], Opposite(a, b, k), k)
  <2> DEFINE at(x, w)   == Piece(x, 0, k) + Piece(x, 1, k) * w + Piece(x, 2, k) * w * w
             product(w) == f[<<Abs(at(a, w)), Abs(at(b, w))>>]
             opposite   == (at(a, -1) < 0) # (at(b, -1) < 0)
  <2>1. Toom3(f, a, b) = ToomOf(product(0), product(1), product(-1), product(2),
                                f[<<Piece(a, 2, k), Piece(b, 2, k)>>], opposite, k)
    BY DEF Toom3, ToomOf, ToomValue, k, Piece
  <2>2. ASSUME NEW x \in Nat
        PROVE  /\ Abs(at(x, 0)) = Piece(x, 0, k) /\ Abs(at(x, 1)) = AtOne(x, k)
               /\ at(x, -1) = AtMinusOne(x, k) /\ Abs(at(x, 2)) = AtTwo(x, k)
    <3>1. Piece(x, 0, k) \in Nat /\ Piece(x, 1, k) \in Nat /\ Piece(x, 2, k) \in Nat
      <4>1. 0 * k \in Nat /\ 1 * k \in Nat /\ 2 * k \in Nat
        BY <1>2
      <4> QED
        BY <1>2, <4>1, LimbsAre DEF Piece
    <3> QED
      BY <3>1 DEF AtOne, AtMinusOne, AtTwo, Abs
  <2> HIDE DEF at
  <2>3. /\ product(0) = f[<<Piece(a, 0, k), Piece(b, 0, k)>>]
        /\ product(1) = f[<<AtOne(a, k), AtOne(b, k)>>]
        /\ product(-1) = f[<<Abs(AtMinusOne(a, k)), Abs(AtMinusOne(b, k))>>]
        /\ product(2) = f[<<AtTwo(a, k), AtTwo(b, k)>>]
        /\ opposite = Opposite(a, b, k)
    BY <2>2 DEF Opposite
  <2> HIDE DEF product, opposite
  <2> QED
    BY <2>1, <2>3 DEF ToomArguments
<1> QED
  BY <1>2, <1>3, <1>4, <1>5

(* The values determine the coefficients. *)
LEMMA ToomValueIs ==
    ASSUME NEW c0 \in Nat, NEW c1 \in Nat, NEW c2 \in Nat, NEW c3 \in Nat, NEW c4 \in Nat,
           NEW k \in Nat
    PROVE  ToomValue(c0, c0 + c1 + c2 + c3 + c4, c0 - c1 + c2 - c3 + c4,
                     c0 + 2 * c1 + 4 * c2 + 8 * c3 + 16 * c4, c4, k)
               = c0 + c1 * Beta(k) + c2 * Beta(2 * k) + c3 * Beta(3 * k) + c4 * Beta(4 * k)
<1> DEFINE r1  == c0 + c1 + c2 + c3 + c4
           rm1 == c0 - c1 + c2 - c3 + c4
           r2  == c0 + 2 * c1 + 4 * c2 + 8 * c3 + 16 * c4
           s1  == DivideExact(r1 + rm1, 2) - c0
           s2  == DivideExact(r1 - rm1, 2)
           d2  == s1 - c4
           d3  == DivideExact(DivideExact(r2 - c0 - 2 * s2, 2) - 2 * d2 - 8 * c4, 3)
           d1  == s2 - d3
           sum == c0 + c1 * Beta(k) + c2 * Beta(2 * k) + c3 * Beta(3 * k) + c4 * Beta(4 * k)
<1>1. s1 = c2 + c4
  <2>1. r1 + rm1 = 2 * (c0 + c2 + c4) /\ c0 + c2 + c4 \in Int
    OBVIOUS
  <2>2. DivideExact(2 * (c0 + c2 + c4), 2) = c0 + c2 + c4
    BY <2>1, DivideExactIs
  <2> QED
    BY <2>1, <2>2
<1>2. s2 = c1 + c3
  <2>1. r1 - rm1 = 2 * (c1 + c3) /\ c1 + c3 \in Int
    OBVIOUS
  <2>2. DivideExact(2 * (c1 + c3), 2) = c1 + c3
    BY <2>1, DivideExactIs
  <2> QED
    BY <2>1, <2>2
<1> HIDE DEF s1, s2
<1>3. d2 = c2
  BY <1>1
<1> HIDE DEF d2
<1>4. d3 = c3
  <2> DEFINE half == 2 * c2 + 3 * c3 + 8 * c4
  <2>1. r2 - c0 - 2 * s2 = 2 * half /\ half \in Int
    BY <1>2
  <2> HIDE DEF r2
  <2>2. DivideExact(2 * half, 2) = half
    BY <2>1, DivideExactIs
  <2>3. half - 2 * d2 - 8 * c4 = 3 * c3
    BY <1>3
  <2> HIDE DEF half
  <2>4. DivideExact(3 * c3, 3) = c3
    BY DivideExactIs
  <2> QED
    BY <2>1, <2>2, <2>3, <2>4
<1> HIDE DEF d3
<1>5. d1 = c1
  BY <1>2, <1>4
<1> HIDE DEF d1
<1>6. Abs(sum) = sum
  <2>1. 2 * k \in Nat /\ 3 * k \in Nat /\ 4 * k \in Nat
    OBVIOUS
  <2>2. Beta(k) \in Nat /\ Beta(2 * k) \in Nat /\ Beta(3 * k) \in Nat /\ Beta(4 * k) \in Nat
    BY <2>1, BetaNat
  <2>3. sum \in Nat
    BY <2>2
  <2> HIDE DEF sum
  <2> QED
    BY <2>3 DEF Abs
<1>7. ToomValue(c0, r1, rm1, r2, c4, k)
          = Abs(c0 + d1 * Beta(k) + d2 * Beta(2 * k) + d3 * Beta(3 * k) + c4 * Beta(4 * k))
  BY DEF ToomValue, d1, d2, d3, s1, s2
<1> HIDE DEF r1, rm1, r2
<1>8. ToomValue(c0, r1, rm1, r2, c4, k) = sum
  BY <1>3, <1>4, <1>5, <1>6, <1>7
<1> QED
  BY <1>8 DEF r1, rm1, r2, sum

(* The product of two numbers of three pieces, from its coefficients. *)
LEMMA CoefficientsAre ==
    ASSUME NEW a0 \in Nat, NEW a1 \in Nat, NEW a2 \in Nat,
           NEW b0 \in Nat, NEW b1 \in Nat, NEW b2 \in Nat, NEW w \in Nat
    PROVE  LET c0 == a0 * b0
               c1 == a0 * b1 + a1 * b0
               c2 == a0 * b2 + a1 * b1 + a2 * b0
               c3 == a1 * b2 + a2 * b1
               c4 == a2 * b2
           IN  /\ c0 \in Nat /\ c1 \in Nat /\ c2 \in Nat /\ c3 \in Nat /\ c4 \in Nat
               /\ (a0 + a1 + a2) * (b0 + b1 + b2) = c0 + c1 + c2 + c3 + c4
               /\ (a0 - a1 + a2) * (b0 - b1 + b2) = c0 - c1 + c2 - c3 + c4
               /\ (a0 + 2 * a1 + 4 * a2) * (b0 + 2 * b1 + 4 * b2)
                      = c0 + 2 * c1 + 4 * c2 + 8 * c3 + 16 * c4
               /\ (a0 + a1 * w + a2 * (w * w)) * (b0 + b1 * w + b2 * (w * w))
                      = c0 + c1 * w + c2 * (w * w) + c3 * (w * w * w) + c4 * (w * w * w * w)
OBVIOUS

(* The numbers in the five products are smaller than the longer operand. *)
LEMMA ToomArgumentsAreSmall ==
    ASSUME NEW a \in Nat, NEW b \in Nat, a # 0, b # 0, NEW k \in Nat, k > 0,
           Beta(k) <= Larger(a, b), a < Beta(3 * k), b < Beta(3 * k)
    PROVE  \A i \in 1 .. 5 : /\ ToomArguments(a, b, k)[i] \in Nat \X Nat
                             /\ ToomArguments(a, b, k)[i][1] < Larger(a, b)
                             /\ ToomArguments(a, b, k)[i][2] < Larger(a, b)
<1> DEFINE m == Larger(a, b)
           Small(y) == y \in Nat /\ y < m
<1>1. m \in Nat /\ a <= m /\ b <= m
  BY LongerIs
<1>2. ASSUME NEW x \in Nat, x <= m, x < Beta(3 * k)
      PROVE  /\ Small(Piece(x, 0, k)) /\ Small(Piece(x, 2, k)) /\ Small(AtOne(x, k))
             /\ Small(AtTwo(x, k)) /\ Small(Abs(AtMinusOne(x, k)))
  <2> DEFINE x0 == Piece(x, 0, k)
             x1 == Piece(x, 1, k)
             x2 == Piece(x, 2, k)
  <2> HIDE DEF m
  <2>1. x0 \in Nat /\ x1 \in Nat /\ x2 \in Nat /\ x0 + 2 * x1 + 4 * x2 < m
    BY <1>1, <1>2, PiecesAre DEF m
  <2> HIDE DEF x0, x1, x2
  <2>2. /\ Small(x0) /\ Small(x2) /\ Small(x0 + x1 + x2) /\ Small(x0 + 2 * x1 + 4 * x2)
        /\ Small(Abs(x0 - x1 + x2))
    BY <1>1, <2>1 DEF Abs
  <2> QED
    BY <2>2 DEF AtOne, AtTwo, AtMinusOne, x0, x1, x2
<1>3. /\ Small(Piece(a, 0, k)) /\ Small(Piece(a, 2, k)) /\ Small(AtOne(a, k))
      /\ Small(AtTwo(a, k)) /\ Small(Abs(AtMinusOne(a, k)))
  BY <1>1, <1>2
<1>4. /\ Small(Piece(b, 0, k)) /\ Small(Piece(b, 2, k)) /\ Small(AtOne(b, k))
      /\ Small(AtTwo(b, k)) /\ Small(Abs(AtMinusOne(b, k)))
  BY <1>1, <1>2
<1> QED
  BY <1>3, <1>4 DEF ToomArguments

(* A sign that is set apart comes back to the product. *)
LEMMA SignedProduct ==
    ASSUME NEW x \in Int, NEW y \in Int
    PROVE  x * y = IF (x < 0) # (y < 0) THEN -(Abs(x) * Abs(y)) ELSE Abs(x) * Abs(y)
BY DEF Abs

(* The product of Toom's algorithm is right if the smaller ones are. *)
LEMMA ToomIs ==
    ASSUME NEW a \in Nat, NEW b \in Nat, a # 0, b # 0, NEW max \in Nat,
           Larger(LimbCount(a), LimbCount(b)) >= 2,
           NEW times, MultipliesBelow(times, Larger(a, b), max)
    PROVE  Right(Toom3(times, a, b), a, b, max)
<1> DEFINE m == Larger(a, b)
<1>1. PICK k \in Nat :
          /\ k > 0 /\ Beta(k) <= m /\ a < Beta(3 * k) /\ b < Beta(3 * k)
          /\ \A f : Toom3(f, a, b) =
                 ToomOf(f[ToomArguments(a, b, k)[1]], f[ToomArguments(a, b, k)[2]],
                        f[ToomArguments(a, b, k)[3]], f[ToomArguments(a, b, k)[4]],
                        f[ToomArguments(a, b, k)[5]], Opposite(a, b, k), k)
  BY ToomUses
<1> DEFINE arg   == ToomArguments(a, b, k)
           part1 == times[arg[1]]
           part2 == times[arg[2]]
           part3 == times[arg[3]]
           part4 == times[arg[4]]
           part5 == times[arg[5]]
           r     == ToomOf(part1, part2, part3, part4, part5, Opposite(a, b, k), k)
<1>2. Toom3(times, a, b) = r
  BY <1>1
<1>3. m \in Nat /\ a <= m /\ b <= m
  BY LongerIs
<1>4. \A i \in 1 .. 5 : Right(times[arg[i]], arg[i][1], arg[i][2], max)
  <2> SUFFICES ASSUME NEW i \in 1 .. 5 PROVE Right(times[arg[i]], arg[i][1], arg[i][2], max)
    OBVIOUS
  <2>1. arg[i] \in Nat \X Nat /\ arg[i][1] < m /\ arg[i][2] < m
    BY <1>1, ToomArgumentsAreSmall
  <2> HIDE DEF arg
  <2>2. arg[i] = <<arg[i][1], arg[i][2]>> /\ arg[i][1] \in Nat /\ arg[i][2] \in Nat
    BY <2>1
  <2> QED
    BY <2>1, <2>2 DEF MultipliesBelow
<1> DEFINE Out == part1.exhausted \/ part2.exhausted \/ part3.exhausted \/ part4.exhausted
                      \/ part5.exhausted
<1>5. /\ Right(part1, Piece(a, 0, k), Piece(b, 0, k), max)
      /\ Right(part2, AtOne(a, k), AtOne(b, k), max)
      /\ Right(part3, Abs(AtMinusOne(a, k)), Abs(AtMinusOne(b, k)), max)
      /\ Right(part4, AtTwo(a, k), AtTwo(b, k), max)
      /\ Right(part5, Piece(a, 2, k), Piece(b, 2, k), max)
  <2> HIDE DEF arg
  <2>1. /\ Right(part1, arg[1][1], arg[1][2], max) /\ Right(part2, arg[2][1], arg[2][2], max)
        /\ Right(part3, arg[3][1], arg[3][2], max) /\ Right(part4, arg[4][1], arg[4][2], max)
        /\ Right(part5, arg[5][1], arg[5][2], max)
    BY <1>4
  <2> HIDE DEF part1, part2, part3, part4, part5
  <2> QED
    BY <2>1 DEF arg, ToomArguments
<1> HIDE DEF part1, part2, part3, part4, part5
<1>6. r.exhausted = Out
  BY DEF ToomOf, Together
<1>7. CASE Out
  <2> HIDE DEF r
  <2> QED
    BY <1>2, <1>5, <1>6, <1>7 DEF Right
<1>8. CASE ~Out
  <2> DEFINE a0 == Piece(a, 0, k)
             a1 == Piece(a, 1, k)
             a2 == Piece(a, 2, k)
             b0 == Piece(b, 0, k)
             b1 == Piece(b, 1, k)
             b2 == Piece(b, 2, k)
             c0 == a0 * b0
             c1 == a0 * b1 + a1 * b0
             c2 == a0 * b2 + a1 * b1 + a2 * b0
             c3 == a1 * b2 + a2 * b1
             c4 == a2 * b2
             w  == Beta(k)
  <2>1. a0 \in Nat /\ a1 \in Nat /\ a2 \in Nat /\ a = a0 + a1 * w + a2 * (w * w)
    <3> HIDE DEF m
    <3> QED
      BY <1>1, <1>3, PiecesAre
  <2>2. b0 \in Nat /\ b1 \in Nat /\ b2 \in Nat /\ b = b0 + b1 * w + b2 * (w * w)
    <3> HIDE DEF m
    <3> QED
      BY <1>1, <1>3, PiecesAre
  <2>3. /\ w \in Nat /\ Beta(2 * k) = w * w /\ Beta(3 * k) = w * w * w
        /\ Beta(4 * k) = w * w * w * w
    <3>1. k + k = 2 * k /\ 2 * k + k = 3 * k /\ 3 * k + k = 4 * k /\ 2 * k \in Nat /\ 3 * k \in Nat
      OBVIOUS
    <3>2. Beta(2 * k) = w * w /\ Beta(3 * k) = Beta(2 * k) * w /\ Beta(4 * k) = Beta(3 * k) * w
      BY <3>1, BetaAdds
    <3> QED
      BY <3>2, BetaNat
  <2>4. /\ part1.value = a0 * b0
        /\ part2.value = AtOne(a, k) * AtOne(b, k)
        /\ part3.value = Abs(AtMinusOne(a, k)) * Abs(AtMinusOne(b, k))
        /\ part4.value = AtTwo(a, k) * AtTwo(b, k)
        /\ part5.value = a2 * b2
    BY <1>5, <1>8 DEF Right
  <2>5. AtOne(a, k) = a0 + a1 + a2 /\ AtMinusOne(a, k) = a0 - a1 + a2 /\ AtTwo(a, k) = a0 + 2 * a1 + 4 * a2
    BY DEF AtOne, AtMinusOne, AtTwo
  <2>6. AtOne(b, k) = b0 + b1 + b2 /\ AtMinusOne(b, k) = b0 - b1 + b2 /\ AtTwo(b, k) = b0 + 2 * b1 + 4 * b2
    BY DEF AtOne, AtMinusOne, AtTwo
  <2> HIDE DEF a0, a1, a2, b0, b1, b2, w
  <2>7. /\ c0 \in Nat /\ c1 \in Nat /\ c2 \in Nat /\ c3 \in Nat /\ c4 \in Nat
        /\ (a0 + a1 + a2) * (b0 + b1 + b2) = c0 + c1 + c2 + c3 + c4
        /\ (a0 - a1 + a2) * (b0 - b1 + b2) = c0 - c1 + c2 - c3 + c4
        /\ (a0 + 2 * a1 + 4 * a2) * (b0 + 2 * b1 + 4 * b2)
               = c0 + 2 * c1 + 4 * c2 + 8 * c3 + 16 * c4
        /\ (a0 + a1 * w + a2 * (w * w)) * (b0 + b1 * w + b2 * (w * w))
               = c0 + c1 * w + c2 * (w * w) + c3 * (w * w * w) + c4 * (w * w * w * w)
    BY <2>1, <2>2, <2>3, CoefficientsAre
  <2>8. (IF Opposite(a, b, k) THEN -part3.value ELSE part3.value)
            = (a0 - a1 + a2) * (b0 - b1 + b2)
    <3>1. a0 - a1 + a2 \in Int /\ b0 - b1 + b2 \in Int
      BY <2>1, <2>2
    <3>2. AtMinusOne(a, k) \in Int /\ AtMinusOne(b, k) \in Int
      BY <3>1, <2>5, <2>6
    <3>3. AtMinusOne(a, k) * AtMinusOne(b, k)
              = IF (AtMinusOne(a, k) < 0) # (AtMinusOne(b, k) < 0)
                THEN -(Abs(AtMinusOne(a, k)) * Abs(AtMinusOne(b, k)))
                ELSE Abs(AtMinusOne(a, k)) * Abs(AtMinusOne(b, k))
      BY <3>2, SignedProduct
    <3> QED
      BY <2>4, <2>5, <2>6, <3>3 DEF Opposite
  <2> HIDE DEF c0, c1, c2, c3, c4
  <2>9. r.value = ToomValue(c0, c0 + c1 + c2 + c3 + c4, c0 - c1 + c2 - c3 + c4,
                            c0 + 2 * c1 + 4 * c2 + 8 * c3 + 16 * c4, c4, k)
    <3>1. r.value = ToomValue(part1.value, part2.value,
                              IF Opposite(a, b, k) THEN -part3.value ELSE part3.value,
                              part4.value, part5.value, k)
      BY DEF ToomOf, Together
    <3>2. part1.value = c0 /\ part5.value = c4
      BY <2>4 DEF c0, c4
    <3>3. part2.value = c0 + c1 + c2 + c3 + c4
      BY <2>4, <2>5, <2>6, <2>7
    <3>4. part4.value = c0 + 2 * c1 + 4 * c2 + 8 * c3 + 16 * c4
      BY <2>4, <2>5, <2>6, <2>7
    <3>5. (IF Opposite(a, b, k) THEN -part3.value ELSE part3.value) = c0 - c1 + c2 - c3 + c4
      BY <2>7, <2>8
    <3> QED
      BY ONLY <3>1, <3>2, <3>3, <3>4, <3>5
  <2>10. r.value = c0 + c1 * Beta(k) + c2 * Beta(2 * k) + c3 * Beta(3 * k) + c4 * Beta(4 * k)
    <3> HIDE DEF r
    <3>1. k \in Nat
      OBVIOUS
    <3>2. c0 \in Nat /\ c1 \in Nat /\ c2 \in Nat /\ c3 \in Nat /\ c4 \in Nat
      BY <2>7
    <3>3. ToomValue(c0, c0 + c1 + c2 + c3 + c4, c0 - c1 + c2 - c3 + c4,
                      c0 + 2 * c1 + 4 * c2 + 8 * c3 + 16 * c4, c4, k)
                = c0 + c1 * Beta(k) + c2 * Beta(2 * k) + c3 * Beta(3 * k) + c4 * Beta(4 * k)
      BY ONLY <3>1, <3>2, ToomValueIs, SMTT(60)
    <3> QED
      BY ONLY <2>9, <3>3, Zenon
  <2>11. r.value = a * b
    <3> HIDE DEF r
    <3>1. a * b = c0 + c1 * w + c2 * (w * w) + c3 * (w * w * w) + c4 * (w * w * w * w)
      BY ONLY <2>1, <2>2, <2>7
    <3> QED
      BY ONLY <2>3, <2>10, <3>1 DEF w
  <2> HIDE DEF r
  <2> QED
    BY <1>2, <1>5, <1>6, <1>8, <2>11 DEF Right
<1> QED
  BY <1>7, <1>8

(* It depends on the smaller ones alone. *)
LEMMA ToomLocal ==
    ASSUME NEW a \in Nat, NEW b \in Nat, a # 0, b # 0,
           Larger(LimbCount(a), LimbCount(b)) >= 2,
           NEW f, NEW g, AgreeBelow(f, g, Larger(a, b))
    PROVE  Toom3(f, a, b) = Toom3(g, a, b)
<1> DEFINE m == Larger(a, b)
<1>1. PICK k \in Nat :
          /\ k > 0 /\ Beta(k) <= m /\ a < Beta(3 * k) /\ b < Beta(3 * k)
          /\ \A h : Toom3(h, a, b) =
                 ToomOf(h[ToomArguments(a, b, k)[1]], h[ToomArguments(a, b, k)[2]],
                        h[ToomArguments(a, b, k)[3]], h[ToomArguments(a, b, k)[4]],
                        h[ToomArguments(a, b, k)[5]], Opposite(a, b, k), k)
  BY ToomUses
<1> DEFINE arg == ToomArguments(a, b, k)
<1>2. \A i \in 1 .. 5 : f[arg[i]] = g[arg[i]]
  <2> SUFFICES ASSUME NEW i \in 1 .. 5 PROVE f[arg[i]] = g[arg[i]]
    OBVIOUS
  <2>1. arg[i] \in Nat \X Nat /\ arg[i][1] < m /\ arg[i][2] < m
    BY <1>1, ToomArgumentsAreSmall
  <2> HIDE DEF arg
  <2>2. arg[i] = <<arg[i][1], arg[i][2]>> /\ arg[i][1] \in Nat /\ arg[i][2] \in Nat
    BY <2>1
  <2> QED
    BY <2>1, <2>2 DEF AgreeBelow
<1> HIDE DEF arg
<1> QED
  BY <1>1, <1>2 DEF arg

-----------------------------------------------------------------------------
(* The whole multiplication. *)

(* One product, from smaller ones that are right. *)
LEMMA MultiplyMagnitudeIs ==
    ASSUME NEW a \in Nat, NEW b \in Nat, NEW max \in Nat,
           NEW times, MultipliesBelow(times, Larger(a, b), max)
    PROVE  Right(MultiplyMagnitude(times, a, b, max), a, b, max)
<1> DEFINE n == Larger(LimbCount(a), LimbCount(b))
           r == MultiplyMagnitude(times, a, b, max)
<1>1. n \in Nat
  BY LimbCountIs DEF Larger
<1>2. CASE a = 0 \/ b = 0
  <2>1. r = Multiplied(0)
    BY <1>2 DEF MultiplyMagnitude
  <2>2. a * b = 0
    BY <1>2
  <2> QED
    BY <2>1, <2>2 DEF Right, Multiplied
<1>3. CASE a # 0 /\ b # 0 /\ max > 0 /\ LimbCount(a) + LimbCount(b) > max
  <2>1. r = TooLong
    BY <1>3 DEF MultiplyMagnitude
  <2> QED
    BY <1>3, <2>1 DEF Right, TooLong
<1>4. CASE a # 0 /\ b # 0 /\ ~(max > 0 /\ LimbCount(a) + LimbCount(b) > max)
  <2>1. CASE n < KaratsubaThreshold
    <3>1. r = Multiplied(a * b)
      BY <1>4, <2>1 DEF MultiplyMagnitude
    <3> QED
      BY <3>1 DEF Right, Multiplied
  <2>2. CASE ~(n < KaratsubaThreshold)
    <3>1. n >= 2
      BY <1>1, <2>2, BigIntAssumption
    <3>2. r = Toom3(times, a, b) \/ r = Karatsuba(times, a, b)
      BY <1>4, <2>2 DEF MultiplyMagnitude
    <3>3. Right(Toom3(times, a, b), a, b, max) /\ Right(Karatsuba(times, a, b), a, b, max)
      BY <1>4, <3>1, ToomIs, KaratsubaIs
    <3> QED
      BY ONLY <3>2, <3>3
  <2> QED
    BY <2>1, <2>2
<1> QED
  BY <1>2, <1>3, <1>4

(* It depends on smaller ones alone. *)
LEMMA MultiplyMagnitudeLocal ==
    ASSUME NEW a \in Nat, NEW b \in Nat, NEW max,
           NEW f, NEW g, AgreeBelow(f, g, Larger(a, b))
    PROVE  MultiplyMagnitude(f, a, b, max) = MultiplyMagnitude(g, a, b, max)
<1> DEFINE n == Larger(LimbCount(a), LimbCount(b))
<1>1. n \in Nat
  BY LimbCountIs DEF Larger
<1>2. CASE a # 0 /\ b # 0 /\ ~(n < KaratsubaThreshold)
  <2>1. n >= 2
    BY <1>1, <1>2, BigIntAssumption
  <2>2. Toom3(f, a, b) = Toom3(g, a, b) /\ Karatsuba(f, a, b) = Karatsuba(g, a, b)
    BY <1>2, <2>1, ToomLocal, KaratsubaLocal
  <2> QED
    BY <2>2 DEF MultiplyMagnitude
<1>3. CASE ~(a # 0 /\ b # 0 /\ ~(n < KaratsubaThreshold))
  BY <1>3 DEF MultiplyMagnitude
<1> QED
  BY <1>2, <1>3

Square(m) == (0 .. m) \X (0 .. m)

Multiplying(f, max, m) ==
    f = [p \in Square(m) |-> MultiplyMagnitude(f, p[1], p[2], max)]

(* The recursion of Multiply has a solution on every square. *)
LEMMA MultiplyingExists ==
    ASSUME NEW max
    PROVE  \A m \in Nat : \E f : Multiplying(f, max, m)
<1> DEFINE P == {m \in Nat : \E f : Multiplying(f, max, m)}
<1>1. 0 \in P
  <2> DEFINE f == [p \in Square(0) |-> MultiplyMagnitude(0, p[1], p[2], max)]
  <2>1. \A p \in Square(0) : MultiplyMagnitude(0, p[1], p[2], max)
                                 = MultiplyMagnitude(f, p[1], p[2], max)
    <3> HIDE DEF f
    <3>1. \A p \in Square(0) : p[1] \in Nat /\ p[2] \in Nat /\ Larger(p[1], p[2]) = 0
      BY DEF Square, Larger
    <3>2. AgreeBelow(0, f, 0)
      BY DEF AgreeBelow
    <3> QED
      BY <3>1, <3>2, MultiplyMagnitudeLocal
  <2>2. Multiplying(f, max, 0)
    <3> DEFINE g == [p \in Square(0) |-> MultiplyMagnitude(f, p[1], p[2], max)]
    <3>1. f = g
      BY <2>1
    <3> HIDE DEF f
    <3> QED
      BY <3>1 DEF Multiplying
  <2> QED
    BY <2>2
<1>2. ASSUME NEW m \in Nat, m \in P PROVE m + 1 \in P
  <2>1. PICK f : Multiplying(f, max, m)
    BY <1>2
  <2> DEFINE g == [p \in Square(m + 1) |-> MultiplyMagnitude(f, p[1], p[2], max)]
             h == [p \in Square(m + 1) |-> MultiplyMagnitude(g, p[1], p[2], max)]
  <2>2. AgreeBelow(f, g, m + 1)
    <3> SUFFICES ASSUME NEW x \in Nat, NEW y \in Nat, x < m + 1, y < m + 1
                 PROVE  f[<<x, y>>] = g[<<x, y>>]
      BY DEF AgreeBelow
    <3>1. <<x, y>> \in Square(m) /\ <<x, y>> \in Square(m + 1)
      BY DEF Square
    <3>2. f[<<x, y>>] = MultiplyMagnitude(f, x, y, max)
      BY <2>1, <3>1 DEF Multiplying
    <3> QED
      BY <3>1, <3>2
  <2> HIDE DEF g
  <2>3. ASSUME NEW p \in Square(m + 1)
        PROVE  MultiplyMagnitude(f, p[1], p[2], max) = MultiplyMagnitude(g, p[1], p[2], max)
    <3>1. p[1] \in Nat /\ p[2] \in Nat /\ Larger(p[1], p[2]) \in Nat /\ Larger(p[1], p[2]) <= m + 1
      BY DEF Square, Larger
    <3>2. AgreeBelow(f, g, Larger(p[1], p[2]))
      BY <2>2, <3>1 DEF AgreeBelow
    <3> QED
      BY <3>1, <3>2, MultiplyMagnitudeLocal
  <2>4. g = h
    BY <2>3 DEF g
  <2>5. Multiplying(g, max, m + 1)
    BY <2>4 DEF Multiplying
  <2> QED
    BY <2>5
<1> HIDE DEF P
<1>3. Nat \subseteq P
  BY <1>1, <1>2, SetInduction
<1> QED
  BY <1>3 DEF P

(* Multiply is the value of a solution on the square of its operands. *)
LEMMA MultiplyUnfolds ==
    ASSUME NEW a \in Nat, NEW b \in Nat, NEW max
    PROVE  \E f : /\ Multiplying(f, max, Larger(a, b))
                  /\ Multiply(a, b, max) = f[<<a, b>>]
<1> DEFINE m == Larger(a, b)
           times[p \in (0 .. m) \X (0 .. m)] == MultiplyMagnitude(times, p[1], p[2], max)
<1>1. m \in Nat
  BY DEF Larger
<1>2. \E f : f = [p \in (0 .. m) \X (0 .. m) |-> MultiplyMagnitude(f, p[1], p[2], max)]
  BY <1>1, MultiplyingExists DEF Multiplying, Square
<1>3. Multiply(a, b, max) = times[<<a, b>>]
  BY DEF Multiply
<1>4. Multiplying(times, max, m)
  <2> HIDE DEF m
  <2>1. times = [p \in (0 .. m) \X (0 .. m) |-> MultiplyMagnitude(times, p[1], p[2], max)]
    BY <1>2
  <2> HIDE DEF times
  <2> QED
    BY <2>1 DEF Multiplying, Square
<1> HIDE DEF times
<1> QED
  BY <1>3, <1>4

(* Every product of the recursion is right. *)
LEMMA MultiplyingIs ==
    ASSUME NEW max \in Nat, NEW m \in Nat, NEW f, Multiplying(f, max, m)
    PROVE  MultipliesBelow(f, m + 1, max)
<1> DEFINE P == {k \in Nat : k <= m + 1 => MultipliesBelow(f, k, max)}
<1>1. 0 \in P
  BY DEF MultipliesBelow
<1>2. ASSUME NEW k \in Nat, k \in P PROVE k + 1 \in P
  <2> SUFFICES ASSUME k + 1 <= m + 1, NEW x \in Nat, NEW y \in Nat, x < k + 1, y < k + 1
               PROVE  Right(f[<<x, y>>], x, y, max)
    BY DEF MultipliesBelow
  <2>1. MultipliesBelow(f, k, max)
    BY <1>2
  <2>2. MultipliesBelow(f, Larger(x, y), max)
    <3>1. Larger(x, y) \in Nat /\ Larger(x, y) <= k
      BY DEF Larger
    <3> QED
      BY <2>1, <3>1 DEF MultipliesBelow
  <2>3. <<x, y>> \in Square(m)
    BY DEF Square
  <2>4. f[<<x, y>>] = MultiplyMagnitude(f, x, y, max)
    BY <2>3 DEF Multiplying
  <2> QED
    BY <2>2, <2>4, MultiplyMagnitudeIs
<1> HIDE DEF P
<1>3. Nat \subseteq P
  BY <1>1, <1>2, SetInduction
<1> QED
  BY <1>3 DEF P

(* multiply_magnitude returns the product of its operands, or reports that the limbs   *)
(* were exhausted, which happens under a limit only: by the schoolbook method, by      *)
(* Karatsuba's and by Toom's, however they call each other.                            *)
THEOREM ProductIsRight ==
    ASSUME NEW a \in Nat, NEW b \in Nat, NEW max \in Nat
    PROVE  Right(Multiply(a, b, max), a, b, max)
<1>1. PICK f : /\ Multiplying(f, max, Larger(a, b))
               /\ Multiply(a, b, max) = f[<<a, b>>]
  BY MultiplyUnfolds
<1>2. Larger(a, b) \in Nat /\ a < Larger(a, b) + 1 /\ b < Larger(a, b) + 1
  BY DEF Larger
<1>3. MultipliesBelow(f, Larger(a, b) + 1, max)
  BY <1>1, <1>2, MultiplyingIs
<1>4. Right(f[<<a, b>>], a, b, max)
  BY <1>2, <1>3 DEF MultipliesBelow
<1> QED
  BY <1>1, <1>4

-----------------------------------------------------------------------------
(* The client of the arithmetic. *)

Operands ==
    \/ operands = <<>>
    \/ \E d \in Divisors : operands = <<d>>
    \/ \E d \in Divisors, n \in Dividends : operands = <<d, n>>

(* The client holds no numbers but those it may take. *)
LEMMA OperandsInvariant == ASpec => []Operands
<1>1. AInit => Operands
  BY DEF AInit, Operands
<1>2. Operands /\ [ANext]_operands => Operands'
  <2> SUFFICES ASSUME Operands, [ANext]_operands PROVE Operands'
    OBVIOUS
  <2>1. CASE TakeDivisor
    BY <2>1 DEF TakeDivisor, Operands
  <2>2. CASE TakeDividend
    <3>1. PICK d \in Divisors : operands = <<d>>
      BY <2>2 DEF TakeDividend, Operands
    <3> QED
      BY <2>2, <3>1 DEF TakeDividend, Operands
  <2>3. CASE UNCHANGED operands
    BY <2>3 DEF Operands
  <2> QED
    BY <2>1, <2>2, <2>3 DEF ANext
<1> QED
  BY <1>1, <1>2, PTL DEF ASpec

(* BigInt's divide_with_remainder: its quotient and remainder are exact in every       *)
(* reachable state of the client, for all the numbers it may take.                     *)
THEOREM DivisionAlwaysExact == ASpec => []DivisionExact
<1>1. Operands => DivisionExact
  <2> SUFFICES ASSUME Operands, Len(operands) = 2, NEW s \in {1, -1}, NEW t \in {1, -1}
               PROVE  Divided(s * operands[2], t * operands[1],
                              DivideWithRemainder(s * operands[2], t * operands[1]))
    BY DEF DivisionExact
  <2>1. PICK d \in Divisors, n \in Dividends : operands = <<d, n>>
    BY DEF Operands
  <2>2. s * n \in Int /\ t * d \in Int \ {0}
    BY OperandsAssumption
  <2>3. Divided(s * n, t * d, DivideWithRemainder(s * n, t * d))
    BY <2>2, DivisionIsExact
  <2> QED
    BY <2>1, <2>3
<1> QED
  BY <1>1, OperandsInvariant, PTL

(* BigInt's products are right or their zero is reported, in every reachable state of  *)
(* the client, for all the numbers it may take and all the limits.                     *)
THEOREM ProductAlwaysRightOrFlagged == ASpec => []ProductRightOrFlagged
<1>1. Operands => ProductRightOrFlagged
  <2> SUFFICES ASSUME Operands, Len(operands) = 2, NEW a \in Factors, NEW max \in LimbLimits
               PROVE  \/ Multiply(a, operands[2] % 32768, max).value = a * (operands[2] % 32768)
                      \/ max > 0 /\ Multiply(a, operands[2] % 32768, max).exhausted
    BY DEF ProductRightOrFlagged
  <2>1. PICK d \in Divisors, n \in Dividends : operands = <<d, n>>
    BY DEF Operands
  <2>2. d \in Nat /\ n \in Nat /\ max \in Nat
    BY OperandsAssumption
  <2>3. a \in Nat /\ operands[2] % 32768 \in Nat
    BY <2>1, <2>2 DEF Factors
  <2>4. Right(Multiply(a, operands[2] % 32768, max), a, operands[2] % 32768, max)
    BY <2>2, <2>3, ProductIsRight
  <2> QED
    BY <2>4 DEF Right
<1> QED
  BY <1>1, OperandsInvariant, PTL

-----------------------------------------------------------------------------
(* Division and the greatest common divisor. *)

(* The division of two natural numbers. *)
LEMMA RemainderIs ==
    ASSUME NEW a \in Nat, NEW b \in Nat, b # 0
    PROVE  LET r == DivideWithRemainder(a, b)[2]
           IN  r \in Nat /\ r < b /\ \E q \in Nat : a = q * b + r
<1> DEFINE qr == DivideMagnitude(a, b)
<1>1. Exact(qr, a, b)
  BY DivideMagnitudeIs
<1>2. Abs(a) = a /\ Abs(b) = b
  BY DEF Abs
<1>3. a # 0 => DivideWithRemainder(a, b) = <<qr[1], qr[2]>>
  BY <1>2 DEF DivideWithRemainder
<1>4. a = 0 => DivideWithRemainder(a, b) = <<0, 0>>
  BY DEF DivideWithRemainder
<1> HIDE DEF qr
<1>5. CASE a # 0
  BY <1>1, <1>3, <1>5 DEF Exact
<1>6. CASE a = 0
  BY <1>4, <1>6
<1> QED
  BY <1>5, <1>6

Divides(d, x) == \E k \in Int : x = k * d

\* The divisors of g are the common divisors of a and b.
Greatest(g, a, b) ==
    /\ g \in Nat
    /\ \A d \in Nat : Divides(d, g) <=> Divides(d, a) /\ Divides(d, b)

(* There is one such number. *)
LEMMA GreatestIsUnique ==
    ASSUME NEW a, NEW b, NEW g, NEW h, Greatest(g, a, b), Greatest(h, a, b)
    PROVE  g = h
<1>1. g \in Nat /\ h \in Nat
  BY DEF Greatest
<1>2. Divides(g, g) /\ Divides(h, h)
  BY <1>1 DEF Divides
<1>3. Divides(g, h) /\ Divides(h, g)
  BY <1>1, <1>2 DEF Greatest
<1>4. PICK k \in Int, l \in Int : h = k * g /\ g = l * h
  BY <1>3 DEF Divides
<1>5. CASE g = 0 \/ h = 0
  BY <1>1, <1>4, <1>5
<1>6. CASE g > 0 /\ h > 0
  <2>1. k >= 1 /\ l >= 1
    BY <1>1, <1>4, <1>6
  <2>2. h >= g /\ g >= h
    BY <1>1, <1>4, <1>6, <2>1
  <2> QED
    BY <1>1, <2>2
<1> QED
  BY <1>1, <1>5, <1>6

(* A multiple of the other number may be taken away. *)
LEMMA DividesRemainder ==
    ASSUME NEW d \in Nat, NEW x \in Int, NEW y \in Int, NEW q \in Int
    PROVE  Divides(d, x) /\ Divides(d, y) <=> Divides(d, y) /\ Divides(d, x - q * y)
<1>1. ASSUME Divides(d, x), Divides(d, y) PROVE Divides(d, x - q * y)
  <2>1. PICK k \in Int, l \in Int : x = k * d /\ y = l * d
    BY <1>1 DEF Divides
  <2>2. x - q * y = (k - q * l) * d /\ k - q * l \in Int
    BY <2>1
  <2> QED
    BY <2>2 DEF Divides
<1>2. ASSUME Divides(d, y), Divides(d, x - q * y) PROVE Divides(d, x)
  <2>1. PICK k \in Int, l \in Int : x - q * y = k * d /\ y = l * d
    BY <1>2 DEF Divides
  <2>2. x = (k + q * l) * d /\ k + q * l \in Int
    BY <2>1
  <2> QED
    BY <2>2 DEF Divides
<1> QED
  BY <1>1, <1>2

(* So a remainder may take the place of the number it is left of. *)
LEMMA GreatestRemainder ==
    ASSUME NEW x \in Int, NEW y \in Int, NEW z \in Int, NEW q \in Int, z = x - q * y,
           NEW g, Greatest(g, y, z)
    PROVE  Greatest(g, x, y)
BY DividesRemainder DEF Greatest

(* The order of the two numbers does not matter. *)
LEMMA GreatestSwap ==
    ASSUME NEW x, NEW y, NEW g, Greatest(g, y, x)
    PROVE  Greatest(g, x, y)
BY DEF Greatest

(* Zero is a multiple of everything. *)
LEMMA GreatestZero ==
    ASSUME NEW x \in Nat
    PROVE  Greatest(x, x, 0)
<1>1. \A d \in Nat : Divides(d, 0)
  BY DEF Divides
<1> QED
  BY <1>1 DEF Greatest

(* A number that is odd divides twice another if it divides it. *)
LEMMA OddDivides ==
    ASSUME NEW x \in Nat, x % 2 # 0, NEW d \in Nat, Divides(d, x), NEW y \in Nat
    PROVE  Divides(d, 2 * y) <=> Divides(d, y)
<1>1. PICK k \in Int : x = k * d
  BY DEF Divides
<1>2. d % 2 = 1
  <2> SUFFICES ASSUME d % 2 # 1 PROVE FALSE
    OBVIOUS
  <2>1. PICK e \in Nat : d = 2 * e
    <3>1. d = 2 * (d \div 2) /\ d \div 2 \in Nat
      OBVIOUS
    <3> QED
      BY <3>1
  <2>2. x = 2 * (k * e) /\ k * e \in Int
    BY <1>1, <2>1
  <2> QED
    BY <2>2
<1>3. ASSUME Divides(d, 2 * y) PROVE Divides(d, y)
  <2>1. PICK l \in Int : 2 * y = l * d
    BY <1>3 DEF Divides
  <2>2. PICK e \in Nat : d = 2 * e + 1
    <3>1. d = 2 * (d \div 2) + 1 /\ d \div 2 \in Nat
      BY <1>2
    <3> QED
      BY <3>1
  <2>3. l = 2 * (y - l * e) /\ y - l * e \in Int
    BY <2>1, <2>2
  <2>4. y = (y - l * e) * d
    BY <2>1, <2>3
  <2> QED
    BY <2>3, <2>4 DEF Divides
<1>4. ASSUME Divides(d, y) PROVE Divides(d, 2 * y)
  <2>1. PICK l \in Int : y = l * d
    BY <1>4 DEF Divides
  <2>2. 2 * y = (2 * l) * d /\ 2 * l \in Int
    BY <2>1
  <2> QED
    BY <2>2 DEF Divides
<1> QED
  BY <1>3, <1>4

(* Beside an odd number, a factor of two of the other does not matter. *)
LEMMA GreatestOdd ==
    ASSUME NEW x \in Nat, x % 2 # 0, NEW y \in Nat, NEW g
    PROVE  Greatest(g, x, 2 * y) <=> Greatest(g, x, y)
BY OddDivides DEF Greatest

-----------------------------------------------------------------------------
(* The loops of the model satisfy their equations. *)

(* OddPart halves its number as long as it is even. *)
LEMMA OddPartUnfolds ==
    OddPart = [x \in Nat \ {0} |-> IF x % 2 = 0 THEN OddPart[x \div 2] ELSE x]
<1> DEFINE D     == Nat \ {0}
           Stops == {x \in D : x % 2 # 0}
           out   == [x \in D |-> x]
           next  == [x \in D |-> x \div 2]
<1>1. \A x \in D \ Stops : next[x] \in D
  OBVIOUS
<1>2. PICK f : Looping(f, D, Stops, out, next)
  <2> HIDE DEF D, Stops, out, next
  <2> QED
    BY <1>1, LoopExists
<1>3. f = [x \in Nat \ {0} |-> IF x % 2 = 0 THEN f[x \div 2] ELSE x]
  <2>1. \A x \in D : (IF x \in Stops THEN out[x] ELSE f[next[x]])
                         = IF x % 2 = 0 THEN f[x \div 2] ELSE x
    OBVIOUS
  <2> QED
    BY <1>2, <2>1 DEF Looping
<1> QED
  BY <1>3 DEF OddPart

(* A number is its odd part times a power of two. *)
LEMMA OddPartIs ==
    ASSUME NEW a \in Nat \ {0}
    PROVE  LET o == OddPart[a]
           IN  /\ o \in Nat \ {0} /\ o % 2 # 0 /\ o <= a
               /\ \E k \in Nat : a = o * TwoTo(k)
<1> DEFINE D == Nat \ {0}
           measure == [x \in D |-> x]
           Good(x, o) == /\ o \in Nat \ {0} /\ o % 2 # 0 /\ o <= x
                         /\ \E k \in Nat : x = o * TwoTo(k)
           S == {x \in D : Good(x, OddPart[x])}
<1>1. ASSUME NEW x \in D, \A y \in D : measure[y] < measure[x] => y \in S
      PROVE  x \in S
  <2>1. CASE x % 2 = 0
    <3> DEFINE y == x \div 2
    <3>1. y \in D /\ y < x /\ x = 2 * y
      BY <2>1
    <3>2. OddPart[x] = OddPart[y]
      BY <2>1, OddPartUnfolds
    <3> HIDE DEF y
    <3>3. Good(y, OddPart[y])
      BY <1>1, <3>1
    <3> DEFINE o == OddPart[y]
    <3> HIDE DEF o
    <3>4. PICK k \in Nat : y = o * TwoTo(k)
      BY <3>3 DEF o
    <3>5. o \in Nat \ {0} /\ o % 2 # 0 /\ o <= x
      BY <3>1, <3>3 DEF o
    <3>6. x = o * TwoTo(k + 1) /\ k + 1 \in Nat
      <4>1. TwoTo(k + 1) = 2 * TwoTo(k) /\ TwoTo(k) \in Nat
        BY TwoToIs
      <4> QED
        BY <3>1, <3>4, <3>5, <4>1
    <3> QED
      BY <3>2, <3>5, <3>6 DEF o
  <2>2. CASE x % 2 # 0
    <3>1. OddPart[x] = x
      BY <2>2, OddPartUnfolds
    <3>2. x = x * TwoTo(0)
      BY TwoToIs
    <3> QED
      BY <2>2, <3>1, <3>2
  <2> QED
    BY <2>1, <2>2
<1>2. \A x \in D : measure[x] \in Nat
  OBVIOUS
<1> HIDE DEF S, measure, D
<1>3. D \subseteq S
  BY <1>1, <1>2, MeasureInduction
<1>4. Good(a, OddPart[a])
  BY <1>3 DEF S, D
<1> QED
  BY <1>4

(* SteinLoop goes on with pairs of its domain, as odd parts are not zero. *)
LEMMA SteinLoopUnfolds ==
    SteinLoop = [p \in (Nat \ {0}) \X (Nat \ {0}) |->
        IF p[1] = p[2] THEN p[1]
        ELSE IF p[1] > p[2] THEN SteinLoop[<<p[2], OddPart[p[1] - p[2]]>>]
        ELSE SteinLoop[<<p[1], OddPart[p[2] - p[1]]>>]]
<1> DEFINE D     == (Nat \ {0}) \X (Nat \ {0})
           Stops == {p \in D : p[1] = p[2]}
           out   == [p \in D |-> p[1]]
           next  == [p \in D |-> IF p[1] > p[2] THEN <<p[2], OddPart[p[1] - p[2]]>>
                                 ELSE <<p[1], OddPart[p[2] - p[1]]>>]
<1>1. \A p \in D \ Stops : next[p] \in D
  <2> SUFFICES ASSUME NEW p \in D, p[1] # p[2] PROVE next[p] \in D
    OBVIOUS
  <2>1. CASE p[1] > p[2]
    BY <2>1, OddPartIs
  <2>2. CASE ~(p[1] > p[2])
    BY <2>2, OddPartIs
  <2> QED
    BY <2>1, <2>2
<1>2. PICK f : Looping(f, D, Stops, out, next)
  <2> HIDE DEF D, Stops, out, next
  <2> QED
    BY <1>1, LoopExists
<1>3. f = [p \in (Nat \ {0}) \X (Nat \ {0}) |->
               IF p[1] = p[2] THEN p[1]
               ELSE IF p[1] > p[2] THEN f[<<p[2], OddPart[p[1] - p[2]]>>]
               ELSE f[<<p[1], OddPart[p[2] - p[1]]>>]]
  <2>1. \A p \in D : (IF p \in Stops THEN out[p] ELSE f[next[p]])
                         = IF p[1] = p[2] THEN p[1]
                           ELSE IF p[1] > p[2] THEN f[<<p[2], OddPart[p[1] - p[2]]>>]
                           ELSE f[<<p[1], OddPart[p[2] - p[1]]>>]
    OBVIOUS
  <2> QED
    BY <1>2, <2>1 DEF Looping
<1> QED
  BY <1>3 DEF SteinLoop

(* Euclid goes on with natural numbers, as remainders are. *)
LEMMA EuclidUnfolds ==
    Euclid = [p \in Nat \X Nat |->
        IF p[2] = 0 THEN p[1] ELSE Euclid[<<p[2], DivideWithRemainder(p[1], p[2])[2]>>]]
<1> DEFINE D     == Nat \X Nat
           Stops == {p \in D : p[2] = 0}
           out   == [p \in D |-> p[1]]
           next  == [p \in D |-> <<p[2], DivideWithRemainder(p[1], p[2])[2]>>]
<1>1. \A p \in D \ Stops : next[p] \in D
  BY RemainderIs
<1>2. PICK f : Looping(f, D, Stops, out, next)
  <2> HIDE DEF D, Stops, out, next
  <2> QED
    BY <1>1, LoopExists
<1>3. f = [p \in Nat \X Nat |->
               IF p[2] = 0 THEN p[1] ELSE f[<<p[2], DivideWithRemainder(p[1], p[2])[2]>>]]
  <2>1. \A p \in D : (IF p \in Stops THEN out[p] ELSE f[next[p]])
                         = IF p[2] = 0 THEN p[1]
                           ELSE f[<<p[2], DivideWithRemainder(p[1], p[2])[2]>>]
    OBVIOUS
  <2> QED
    BY <1>2, <2>1 DEF Looping
<1> QED
  BY <1>3 DEF Euclid

(* So does the reference. *)
LEMMA CommonUnfolds ==
    Common = [p \in Nat \X Nat |-> IF p[2] = 0 THEN p[1] ELSE Common[<<p[2], p[1] % p[2]>>]]
<1> DEFINE D     == Nat \X Nat
           Stops == {p \in D : p[2] = 0}
           out   == [p \in D |-> p[1]]
           next  == [p \in D |-> <<p[2], p[1] % p[2]>>]
<1>1. \A p \in D \ Stops : next[p] \in D
  OBVIOUS
<1>2. PICK f : Looping(f, D, Stops, out, next)
  <2> HIDE DEF D, Stops, out, next
  <2> QED
    BY <1>1, LoopExists
<1>3. f = [p \in Nat \X Nat |-> IF p[2] = 0 THEN p[1] ELSE f[<<p[2], p[1] % p[2]>>]]
  <2>1. \A p \in D : (IF p \in Stops THEN out[p] ELSE f[next[p]])
                         = IF p[2] = 0 THEN p[1] ELSE f[<<p[2], p[1] % p[2]>>]
    OBVIOUS
  <2> QED
    BY <1>2, <2>1 DEF Looping
<1> QED
  BY <1>3 DEF Common

(* Simulated goes on with integers. *)
LEMMA SimulatedUnfolds ==
    Simulated = [s \in Simulation |->
        LET q == (s.a + s.A) \div (s.b + s.C)
        IN  IF ~QuotientKnown(s) THEN s
            ELSE IF ~StepFits(s, q) THEN s
            ELSE IF s.a - q * s.b = 0 THEN Stepped(s, q)
            ELSE Simulated[Stepped(s, q)]]
<1> DEFINE D     == Simulation
           quo(s) == (s.a + s.A) \div (s.b + s.C)
           Halts(s) == ~QuotientKnown(s) \/ ~StepFits(s, quo(s))
           Stops == {s \in D : Halts(s) \/ s.a - quo(s) * s.b = 0}
           out   == [s \in D |-> IF Halts(s) THEN s ELSE Stepped(s, quo(s))]
           next  == [s \in D |-> Stepped(s, quo(s))]
<1>1. \A s \in D \ Stops : next[s] \in D
  <2> SUFFICES ASSUME NEW s \in D, QuotientKnown(s) PROVE Stepped(s, quo(s)) \in D
    OBVIOUS
  <2>1. quo(s) \in Int
    BY DEF QuotientKnown, Simulation
  <2> HIDE DEF quo
  <2> QED
    BY <2>1 DEF Stepped, Simulation
<1>2. PICK f : Looping(f, D, Stops, out, next)
  <2> HIDE DEF D, Stops, out, next
  <2> QED
    BY <1>1, LoopExists
<1>3. f = [s \in Simulation |->
               IF ~QuotientKnown(s) THEN s
               ELSE IF ~StepFits(s, quo(s)) THEN s
               ELSE IF s.a - quo(s) * s.b = 0 THEN Stepped(s, quo(s))
               ELSE f[Stepped(s, quo(s))]]
  <2> HIDE DEF quo
  <2>1. \A s \in D : (IF s \in Stops THEN out[s] ELSE f[next[s]])
                         = IF ~QuotientKnown(s) THEN s
                           ELSE IF ~StepFits(s, quo(s)) THEN s
                           ELSE IF s.a - quo(s) * s.b = 0 THEN Stepped(s, quo(s))
                           ELSE f[Stepped(s, quo(s))]
    OBVIOUS
  <2> QED
    BY <1>2, <2>1 DEF Looping
<1> QED
  BY <1>3 DEF Simulated

-----------------------------------------------------------------------------
(* Euclid's algorithm. *)

(* Euclid's algorithm, on the division of BigInt. *)
LEMMA EuclidIs ==
    ASSUME NEW a \in Nat, NEW b \in Nat
    PROVE  Greatest(Euclid[<<a, b>>], a, b)
<1> DEFINE D == Nat \X Nat
           measure == [p \in D |-> p[2]]
           S == {p \in D : Greatest(Euclid[p], p[1], p[2])}
<1>1. ASSUME NEW p \in D, \A r \in D : measure[r] < measure[p] => r \in S
      PROVE  p \in S
  <2>1. CASE p[2] = 0
    <3>1. Euclid[p] = p[1]
      BY <2>1, EuclidUnfolds
    <3> QED
      BY <2>1, <3>1, GreatestZero
  <2>2. CASE p[2] # 0
    <3> DEFINE x == p[1]
               y == p[2]
               z == DivideWithRemainder(x, y)[2]
    <3>1. PICK q \in Nat : z \in Nat /\ z < y /\ x = q * y + z
      BY <2>2, RemainderIs
    <3>2. Euclid[p] = Euclid[<<y, z>>]
      BY <2>2, EuclidUnfolds
    <3> HIDE DEF z
    <3>3. <<y, z>> \in D /\ measure[<<y, z>>] < measure[p]
      BY <3>1
    <3>4. Greatest(Euclid[<<y, z>>], y, z)
      BY <1>1, <3>3
    <3>5. z = x - q * y
      BY <3>1
    <3>6. Greatest(Euclid[<<y, z>>], x, y)
      BY <3>1, <3>4, <3>5, GreatestRemainder
    <3> QED
      BY <3>2, <3>6
  <2> QED
    BY <2>1, <2>2
<1>2. \A p \in D : measure[p] \in Nat
  OBVIOUS
<1> HIDE DEF S, measure, D
<1>3. D \subseteq S
  BY <1>1, <1>2, MeasureInduction
<1>4. <<a, b>> \in S
  BY <1>3 DEF D
<1> QED
  BY <1>4 DEF S

(* The reference. *)
LEMMA CommonIs ==
    ASSUME NEW a \in Nat, NEW b \in Nat
    PROVE  Greatest(Common[<<a, b>>], a, b)
<1> DEFINE D == Nat \X Nat
           measure == [p \in D |-> p[2]]
           S == {p \in D : Greatest(Common[p], p[1], p[2])}
<1>1. ASSUME NEW p \in D, \A r \in D : measure[r] < measure[p] => r \in S
      PROVE  p \in S
  <2>1. CASE p[2] = 0
    <3>1. Common[p] = p[1]
      BY <2>1, CommonUnfolds
    <3> QED
      BY <2>1, <3>1, GreatestZero
  <2>2. CASE p[2] # 0
    <3> DEFINE x == p[1]
               y == p[2]
               z == x % y
               q == x \div y
    <3>1. q \in Nat /\ z \in Nat /\ z < y /\ x = q * y + z
      BY <2>2, QuotientIs
    <3>2. Common[p] = Common[<<y, z>>]
      BY <2>2, CommonUnfolds
    <3> HIDE DEF z, q
    <3>3. <<y, z>> \in D /\ measure[<<y, z>>] < measure[p]
      BY <3>1
    <3>4. Greatest(Common[<<y, z>>], y, z)
      BY <1>1, <3>3
    <3>5. z = x - q * y
      BY <3>1
    <3>6. Greatest(Common[<<y, z>>], x, y)
      BY <3>1, <3>4, <3>5, GreatestRemainder
    <3> QED
      BY <3>2, <3>6
  <2> QED
    BY <2>1, <2>2
<1>2. \A p \in D : measure[p] \in Nat
  OBVIOUS
<1> HIDE DEF S, measure, D
<1>3. D \subseteq S
  BY <1>1, <1>2, MeasureInduction
<1>4. <<a, b>> \in S
  BY <1>3 DEF D
<1> QED
  BY <1>4 DEF S

-----------------------------------------------------------------------------
(* Stein's algorithm. *)

(* Factors of two of one number change nothing while the other is odd. *)
LEMMA PowerOfOne ==
    ASSUME NEW x \in Nat, x % 2 # 0, NEW y \in Nat, NEW g, Greatest(g, x, y), NEW k \in Nat
    PROVE  Greatest(g, x, y * TwoTo(k))
<1> DEFINE P == {n \in Nat : Greatest(g, x, y * TwoTo(n))}
<1>1. 0 \in P
  <2>1. y * TwoTo(0) = y
    BY TwoToIs
  <2> QED
    BY <2>1
<1>2. ASSUME NEW n \in Nat, n \in P PROVE n + 1 \in P
  <2> DEFINE z == y * TwoTo(n)
  <2>1. z \in Nat /\ y * TwoTo(n + 1) = 2 * z
    <3>1. TwoTo(n) \in Nat /\ TwoTo(n + 1) = 2 * TwoTo(n)
      BY TwoToIs
    <3> QED
      BY <3>1
  <2>2. Greatest(g, x, z)
    BY <1>2
  <2> HIDE DEF z
  <2>3. Greatest(g, x, 2 * z)
    BY <2>1, <2>2, GreatestOdd
  <2> QED
    BY <2>1, <2>3
<1> HIDE DEF P
<1>3. Nat \subseteq P
  BY <1>1, <1>2, SetInduction
<1> QED
  BY <1>3 DEF P

(* Two even numbers and their halves have divisors that correspond. *)
LEMMA DividesDoubles ==
    ASSUME NEW e \in Nat, NEW z \in Nat
    PROVE  Divides(2 * e, 2 * z) <=> Divides(e, z)
<1>1. ASSUME Divides(2 * e, 2 * z) PROVE Divides(e, z)
  <2>1. PICK k \in Int : 2 * z = k * (2 * e)
    BY <1>1 DEF Divides
  <2>2. z = k * e
    BY <2>1
  <2> QED
    BY <2>2 DEF Divides
<1>2. ASSUME Divides(e, z) PROVE Divides(2 * e, 2 * z)
  <2>1. PICK k \in Int : z = k * e
    BY <1>2 DEF Divides
  <2>2. 2 * z = k * (2 * e)
    BY <2>1
  <2> QED
    BY <2>2 DEF Divides
<1> QED
  BY <1>1, <1>2

(* A common factor of two comes out of the greatest common divisor. *)
LEMMA GreatestDouble ==
    ASSUME NEW x \in Nat, NEW y \in Nat, NEW g, Greatest(g, x, y)
    PROVE  Greatest(2 * g, 2 * x, 2 * y)
<1>1. g \in Nat /\ 2 * g \in Nat
  BY DEF Greatest
<1>2. ASSUME NEW d \in Nat
      PROVE  Divides(d, 2 * g) <=> Divides(d, 2 * x) /\ Divides(d, 2 * y)
  <2>1. CASE d % 2 = 0
    <3>1. PICK e \in Nat : d = 2 * e
      <4>1. d = 2 * (d \div 2) /\ d \div 2 \in Nat
        BY <2>1
      <4> QED
        BY <4>1
    <3>2. Divides(e, g) <=> Divides(e, x) /\ Divides(e, y)
      BY DEF Greatest
    <3>3. /\ Divides(2 * e, 2 * g) <=> Divides(e, g)
          /\ Divides(2 * e, 2 * x) <=> Divides(e, x)
          /\ Divides(2 * e, 2 * y) <=> Divides(e, y)
      BY <1>1, DividesDoubles
    <3> QED
      BY <3>1, <3>2, <3>3
  <2>2. CASE d % 2 # 0
    <3>1. Divides(d, d)
      BY DEF Divides
    <3>2. /\ Divides(d, 2 * g) <=> Divides(d, g)
          /\ Divides(d, 2 * x) <=> Divides(d, x)
          /\ Divides(d, 2 * y) <=> Divides(d, y)
      BY <1>1, <2>2, <3>1, OddDivides
    <3>3. Divides(d, g) <=> Divides(d, x) /\ Divides(d, y)
      BY DEF Greatest
    <3> QED
      BY <3>2, <3>3
  <2> QED
    BY <2>1, <2>2
<1> QED
  BY <1>1, <1>2 DEF Greatest

(* A power of two that both numbers have is a factor of the greatest common divisor. *)
LEMMA PowerOfBoth ==
    ASSUME NEW x \in Nat, NEW y \in Nat, NEW g, Greatest(g, x, y), NEW k \in Nat
    PROVE  Greatest(g * TwoTo(k), x * TwoTo(k), y * TwoTo(k))
<1> DEFINE P == {n \in Nat : Greatest(g * TwoTo(n), x * TwoTo(n), y * TwoTo(n))}
<1>0. g \in Nat
  BY DEF Greatest
<1>1. 0 \in P
  <2>1. y * TwoTo(0) = y /\ x * TwoTo(0) = x /\ g * TwoTo(0) = g
    BY <1>0, TwoToIs
  <2> QED
    BY <2>1
<1>2. ASSUME NEW n \in Nat, n \in P PROVE n + 1 \in P
  <2> DEFINE u == x * TwoTo(n)
             v == y * TwoTo(n)
             h == g * TwoTo(n)
  <2>1. /\ u \in Nat /\ x * TwoTo(n + 1) = 2 * u
        /\ v \in Nat /\ y * TwoTo(n + 1) = 2 * v
        /\ h \in Nat /\ g * TwoTo(n + 1) = 2 * h
    <3>1. TwoTo(n) \in Nat /\ TwoTo(n + 1) = 2 * TwoTo(n)
      BY TwoToIs
    <3> QED
      BY <1>0, <3>1
  <2>2. Greatest(h, u, v)
    BY <1>2
  <2> HIDE DEF u, v, h
  <2>3. Greatest(2 * h, 2 * u, 2 * v)
    BY <2>1, <2>2, GreatestDouble
  <2> QED
    BY <2>1, <2>3
<1> HIDE DEF P
<1>3. Nat \subseteq P
  BY <1>1, <1>2, SetInduction
<1> QED
  BY <1>3 DEF P

(* One round: the difference may lose its factors of two. *)
LEMMA SteinRound ==
    ASSUME NEW u \in Nat, NEW v \in Nat, v % 2 # 0, v < u, NEW g,
           Greatest(g, v, OddPart[u - v])
    PROVE  Greatest(g, u, v)
<1> DEFINE o == OddPart[u - v]
<1>1. u - v \in Nat \ {0}
  OBVIOUS
<1>2. o \in Nat /\ \E k \in Nat : u - v = o * TwoTo(k)
  BY <1>1, OddPartIs
<1> HIDE DEF o
<1>3. PICK k \in Nat : u - v = o * TwoTo(k)
  BY <1>2
<1>4. Greatest(g, v, o * TwoTo(k))
  BY <1>2, PowerOfOne DEF o
<1> DEFINE q == 1
           z == u - v
<1>5. Greatest(g, v, z)
  BY <1>3, <1>4
<1>6. z \in Int /\ q \in Int /\ z = u - q * v
  OBVIOUS
<1>7. u \in Int /\ v \in Int
  OBVIOUS
<1> HIDE DEF q, z
<1> QED
  BY ONLY <1>5, <1>6, <1>7, GreatestRemainder, Zenon

(* A round of the loop, with the odd part of the difference. *)
LEMMA SteinLoopRound ==
    ASSUME NEW x \in Nat \ {0}, NEW y \in Nat \ {0}
    PROVE  /\ x = y => SteinLoop[<<x, y>>] = x
           /\ x > y => SteinLoop[<<x, y>>] = SteinLoop[<<y, OddPart[x - y]>>]
           /\ x < y => SteinLoop[<<x, y>>] = SteinLoop[<<x, OddPart[y - x]>>]
<1> DEFINE p == <<x, y>>
<1>1. p \in (Nat \ {0}) \X (Nat \ {0}) /\ p[1] = x /\ p[2] = y
  OBVIOUS
<1> HIDE DEF p
<1>2. SteinLoop[p] = IF x = y THEN x
                     ELSE IF x > y THEN SteinLoop[<<y, OddPart[x - y]>>]
                     ELSE SteinLoop[<<x, OddPart[y - x]>>]
  BY <1>1, SteinLoopUnfolds
<1> QED
  BY <1>2 DEF p

(* The loop on two odd numbers. *)
LEMMA SteinLoopIs ==
    ASSUME NEW a \in Nat \ {0}, a % 2 # 0, NEW b \in Nat \ {0}, b % 2 # 0
    PROVE  Greatest(SteinLoop[<<a, b>>], a, b)
<1> DEFINE D == {p \in (Nat \ {0}) \X (Nat \ {0}) : p[1] % 2 # 0 /\ p[2] % 2 # 0}
           measure == [p \in D |-> p[1] + p[2]]
           S == {p \in D : Greatest(SteinLoop[p], p[1], p[2])}
<1>1. ASSUME NEW p \in D, \A r \in D : measure[r] < measure[p] => r \in S
      PROVE  p \in S
  <2>0. PICK x \in Nat \ {0}, y \in Nat \ {0} : p = <<x, y>> /\ x % 2 # 0 /\ y % 2 # 0
    OBVIOUS
  <2>1. CASE x = y
    <3>1. SteinLoop[p] = x
      BY <2>0, <2>1, SteinLoopRound
    <3>2. Greatest(x, x, x)
      BY <2>0 DEF Greatest
    <3> QED
      BY <2>0, <2>1, <3>1, <3>2
  <2>2. CASE x > y
    <3> DEFINE o == OddPart[x - y]
    <3>1. x - y \in Nat \ {0}
      BY <2>0, <2>2
    <3>2. o \in Nat \ {0} /\ o % 2 # 0 /\ o <= x - y
      BY <3>1, OddPartIs
    <3>3. SteinLoop[p] = SteinLoop[<<y, o>>]
      BY <2>0, <2>2, SteinLoopRound
    <3> HIDE DEF o
    <3>4. <<y, o>> \in D /\ measure[<<y, o>>] < measure[p]
      BY <2>0, <2>2, <3>2
    <3>5. Greatest(SteinLoop[<<y, o>>], y, o)
      BY <1>1, <3>4
    <3>6. Greatest(SteinLoop[<<y, o>>], x, y)
      BY <2>0, <2>2, <3>5, SteinRound DEF o
    <3> QED
      BY <2>0, <3>3, <3>6
  <2>3. CASE x < y
    <3> DEFINE o == OddPart[y - x]
    <3>1. y - x \in Nat \ {0}
      BY <2>0, <2>3
    <3>2. o \in Nat \ {0} /\ o % 2 # 0 /\ o <= y - x
      BY <3>1, OddPartIs
    <3>3. SteinLoop[p] = SteinLoop[<<x, o>>]
      BY <2>0, <2>3, SteinLoopRound
    <3> HIDE DEF o
    <3>4. <<x, o>> \in D /\ measure[<<x, o>>] < measure[p]
      BY <2>0, <2>3, <3>2
    <3>5. Greatest(SteinLoop[<<x, o>>], x, o)
      BY <1>1, <3>4
    <3>6. Greatest(SteinLoop[<<x, o>>], y, x)
      BY <2>0, <2>3, <3>5, SteinRound DEF o
    <3> QED
      BY <2>0, <3>3, <3>6, GreatestSwap
  <2> QED
    BY <2>0, <2>1, <2>2, <2>3
<1>2. \A p \in D : measure[p] \in Nat
  OBVIOUS
<1>5. <<a, b>> \in D
  OBVIOUS
<1> HIDE DEF S, measure, D
<1>3. D \subseteq S
  BY <1>1, <1>2, MeasureInduction
<1>4. <<a, b>> \in S
  BY <1>3, <1>5
<1> QED
  BY <1>4 DEF S

(* The quotient of a product by a factor. *)
LEMMA ExactQuotient ==
    ASSUME NEW x \in Nat \ {0}, NEW t \in Nat
    PROVE  (x * t) \div x = t
<1>1. (t * x + 0) \div x = t
  BY QuotientUnique
<1>2. x * t = t * x + 0
  OBVIOUS
<1> QED
  BY <1>1, <1>2

(* Stein's algorithm, with the factors of two that both numbers have. *)
LEMMA BinaryGcdIs ==
    ASSUME NEW u \in Nat \ {0}, NEW v \in Nat \ {0}
    PROVE  Greatest(BinaryGcd(u, v), u, v)
<1> DEFINE x == OddPart[u]
           y == OddPart[v]
           g == SteinLoop[<<x, y>>]
<1>1. x \in Nat \ {0} /\ x % 2 # 0 /\ y \in Nat \ {0} /\ y % 2 # 0
  BY OddPartIs
<1>2. PICK i \in Nat, j \in Nat : u = x * TwoTo(i) /\ v = y * TwoTo(j)
  BY OddPartIs
<1>3. BinaryGcd(u, v) = g * (IF u \div x < v \div y THEN u \div x ELSE v \div y)
  BY DEF BinaryGcd
<1> HIDE DEF x, y
<1>4. Greatest(g, x, y)
  BY <1>1, SteinLoopIs
<1>5. u \div x = TwoTo(i) /\ v \div y = TwoTo(j)
  <2>1. TwoTo(i) \in Nat /\ TwoTo(j) \in Nat
    BY TwoToIs
  <2> QED
    BY <1>1, <1>2, <2>1, ExactQuotient
<1>6. TwoTo(i) \in Nat /\ TwoTo(j) \in Nat
  BY TwoToIs
<1> HIDE DEF g
<1>7. CASE i <= j
  <2>1. j - i \in Nat /\ i + (j - i) = j /\ (j - i) + i = j
    BY <1>7
  <2>2. Greatest(g, x, y * TwoTo(j - i))
    BY <1>1, <1>4, <2>1, PowerOfOne
  <2>3. TwoTo(j - i) \in Nat /\ y * TwoTo(j - i) \in Nat
    BY <1>1, <2>1, TwoToIs
  <2>4. Greatest(g * TwoTo(i), x * TwoTo(i), (y * TwoTo(j - i)) * TwoTo(i))
    BY <1>1, <2>2, <2>3, PowerOfBoth
  <2>5. (y * TwoTo(j - i)) * TwoTo(i) = y * TwoTo(j)
    <3>1. TwoTo(j) = TwoTo(j - i) * TwoTo(i)
      BY <2>1, TwoToAdds
    <3> QED
      BY <1>1, <1>6, <2>3, <3>1
  <2>6. TwoTo(i) <= TwoTo(j)
    BY <1>7, TwoToGrows
  <2>7. BinaryGcd(u, v) = g * TwoTo(i)
    BY <1>3, <1>5, <1>6, <2>6
  <2> QED
    BY <1>2, <2>4, <2>5, <2>7
<1>8. CASE j <= i
  <2>1. i - j \in Nat /\ j + (i - j) = i /\ (i - j) + j = i
    BY <1>8
  <2>2. Greatest(g, y, x * TwoTo(i - j))
    BY <1>1, <1>4, <2>1, PowerOfOne, GreatestSwap
  <2>3. TwoTo(i - j) \in Nat /\ x * TwoTo(i - j) \in Nat
    BY <1>1, <2>1, TwoToIs
  <2>4. Greatest(g * TwoTo(j), y * TwoTo(j), (x * TwoTo(i - j)) * TwoTo(j))
    BY <1>1, <2>2, <2>3, PowerOfBoth
  <2>5. (x * TwoTo(i - j)) * TwoTo(j) = x * TwoTo(i)
    <3>1. TwoTo(i) = TwoTo(i - j) * TwoTo(j)
      BY <2>1, TwoToAdds
    <3> QED
      BY <1>1, <1>6, <2>3, <3>1
  <2>6. TwoTo(j) <= TwoTo(i)
    BY <1>8, TwoToGrows
  <2>7. BinaryGcd(u, v) = g * TwoTo(j)
    BY <1>3, <1>5, <1>6, <2>6
  <2> QED
    BY <1>2, <2>4, <2>5, <2>7, GreatestSwap
<1> QED
  BY <1>7, <1>8

-----------------------------------------------------------------------------
(* Lehmer's simulation.  x and y are the numbers of which s holds the leading words, as    *)
(* the steps made so far leave them: the simulation knows them up to the entries of its    *)
(* matrix, and their quotient if both ends of what it knows have the same.                 *)

First(s, a, b)  == s.A * a + s.B * b
Second(s, a, b) == s.C * a + s.D * b

\* The signs of the matrix alternate, and the words with their entries are bounds of the
\* numbers, in units of e.
Bracketed(s, a, b, e) ==
    \/ /\ s.A >= 0 /\ s.B <= 0 /\ s.C <= 0 /\ s.D >= 0
       /\ e * (s.a + s.B) <= First(s, a, b) /\ First(s, a, b) <= e * (s.a + s.A)
       /\ e * (s.b + s.C) <= Second(s, a, b) /\ Second(s, a, b) <= e * (s.b + s.D)
    \/ /\ s.A <= 0 /\ s.B >= 0 /\ s.C >= 0 /\ s.D <= 0
       /\ e * (s.a + s.A) <= First(s, a, b) /\ First(s, a, b) <= e * (s.a + s.B)
       /\ e * (s.b + s.D) <= Second(s, a, b) /\ Second(s, a, b) <= e * (s.b + s.C)

\* What the simulation keeps: its steps are steps of Euclid's algorithm on a and b.
Simulates(s, a, b, e) ==
    /\ s \in Simulation /\ Bracketed(s, a, b, e)
    /\ First(s, a, b) \in Nat /\ Second(s, a, b) \in Nat /\ Second(s, a, b) <= b
    /\ \A g : Greatest(g, First(s, a, b), Second(s, a, b)) => Greatest(g, a, b)

\* A step has been made.
Advanced(s, a, b) == First(s, a, b) <= b /\ Second(s, a, b) < First(s, a, b)

(* A quotient that both ends of two intervals have is the quotient of any two numbers in    *)
(* them.                                                                                    *)
LEMMA QuotientBetween ==
    ASSUME NEW e \in Nat \ {0}, NEW x \in Int, NEW y \in Int,
           NEW xlo \in Nat, NEW xhi \in Nat, NEW ylo \in Nat \ {0}, NEW yhi \in Nat \ {0},
           e * xlo <= x, x <= e * xhi, e * ylo <= y, y <= e * yhi,
           NEW q \in Nat, q = xhi \div ylo, q = xlo \div yhi
    PROVE  x - q * y >= 0 /\ x - q * y < y
<1>1. q * yhi <= xlo
  BY QuotientIs
<1>2. xhi < (q + 1) * ylo
  <2>1. xhi = q * ylo + (xhi % ylo) /\ xhi % ylo < ylo /\ xhi % ylo \in Nat
    BY QuotientIs
  <2> QED
    BY <2>1
<1>3. q * y <= e * (q * yhi)
  <2>1. q * y <= q * (e * yhi)
    BY ONLY y \in Int, q \in Nat, e \in Nat, yhi \in Nat, y <= e * yhi
  <2> QED
    BY <2>1
<1>4. e * (q * yhi) <= e * xlo
  BY <1>1
<1>5. e * xhi < e * ((q + 1) * ylo)
  BY <1>2
<1>6. e * ((q + 1) * ylo) <= (q + 1) * y
  <2>1. (q + 1) * (e * ylo) <= (q + 1) * y
    BY ONLY y \in Int, q \in Nat, e \in Nat, ylo \in Nat, e * ylo <= y
  <2> QED
    BY <2>1
<1>7. q * y \in Int /\ (q + 1) * y = q * y + y
  OBVIOUS
<1>8. /\ e * (q * yhi) \in Int /\ e * xlo \in Int /\ e * xhi \in Int
      /\ e * ((q + 1) * ylo) \in Int
  OBVIOUS
<1> QED
  BY ONLY <1>3, <1>4, <1>5, <1>6, <1>7, <1>8, x \in Int, y \in Int, e * xlo <= x, x <= e * xhi

(* A simulated step is a step of Euclid's algorithm. *)
LEMMA SimulatesStep ==
    ASSUME NEW a \in Nat, NEW b \in Nat, NEW e \in Nat \ {0},
           NEW s, Simulates(s, a, b, e), QuotientKnown(s)
    PROVE  LET t == Stepped(s, (s.a + s.A) \div (s.b + s.C))
           IN  /\ Simulates(t, a, b, e) /\ Advanced(t, a, b)
               /\ Second(t, a, b) < Second(s, a, b)
<1> DEFINE q == (s.a + s.A) \div (s.b + s.C)
           t == Stepped(s, q)
           x == First(s, a, b)
           y == Second(s, a, b)
           z == Second(t, a, b)
<1>1. /\ s.a \in Int /\ s.b \in Int /\ s.A \in Int /\ s.B \in Int /\ s.C \in Int /\ s.D \in Int
  BY DEF Simulates, Simulation
<1>2. /\ s.b + s.C \in Nat \ {0} /\ s.b + s.D \in Nat \ {0}
      /\ s.a + s.A \in Nat /\ s.a + s.B \in Nat
      /\ q = (s.a + s.B) \div (s.b + s.D)
  BY <1>1 DEF QuotientKnown
<1>3. q \in Nat
  BY <1>2
<1>4. q = (s.a + s.A) \div (s.b + s.C)
  OBVIOUS
<1>5. /\ t.a = s.b /\ t.b = s.a - q * s.b /\ t.A = s.C /\ t.B = s.D
      /\ t.C = s.A - q * s.C /\ t.D = s.B - q * s.D
  BY DEF Stepped
<1>6. t \in Simulation
  <2> HIDE DEF q
  <2> QED
    BY <1>1, <1>3 DEF Stepped, Simulation
<1> HIDE DEF q, t
<1>7. x \in Nat /\ y \in Nat /\ y <= b
  BY DEF Simulates
<1>8. First(t, a, b) = y
  BY <1>5 DEF First, Second
<1>9. z = x - q * y
  BY <1>1, <1>3, <1>5 DEF First, Second
<1>10. z >= 0 /\ z < y
  <2>1. CASE /\ s.A >= 0 /\ s.B <= 0 /\ s.C <= 0 /\ s.D >= 0
             /\ e * (s.a + s.B) <= x /\ x <= e * (s.a + s.A)
             /\ e * (s.b + s.C) <= y /\ y <= e * (s.b + s.D)
    <3> HIDE DEF x, y, z
    <3>1. x - q * y >= 0 /\ x - q * y < y
      BY <1>2, <1>3, <1>4, <1>7, <2>1, QuotientBetween
    <3> QED
      BY <1>9, <3>1
  <2>2. CASE /\ s.A <= 0 /\ s.B >= 0 /\ s.C >= 0 /\ s.D <= 0
             /\ e * (s.a + s.A) <= x /\ x <= e * (s.a + s.B)
             /\ e * (s.b + s.D) <= y /\ y <= e * (s.b + s.C)
    <3> HIDE DEF x, y, z
    <3>1. x - q * y >= 0 /\ x - q * y < y
      BY <1>2, <1>3, <1>4, <1>7, <2>2, QuotientBetween
    <3> QED
      BY <1>9, <3>1
  <2> QED
    BY <2>1, <2>2 DEF Simulates, Bracketed
<1>11. Bracketed(t, a, b, e)
  <2> DEFINE lo(n, m) == e * (n + m)
  <2>1. ASSUME NEW n \in Int, NEW m \in Int
        PROVE  e * ((s.a - q * s.b) + (n - q * m)) = e * (s.a + n) - q * (e * (s.b + m))
    BY <1>1, <1>3
  <2>2. ASSUME NEW u \in Int, u <= y PROVE q * u <= q * y
    BY <1>3, <1>7, <2>2
  <2>3. ASSUME NEW u \in Int, y <= u PROVE q * y <= q * u
    BY <1>3, <1>7, <2>3
  <2>4. /\ e * (s.b + s.C) \in Int /\ e * (s.b + s.D) \in Int
        /\ e * (s.a + s.A) \in Int /\ e * (s.a + s.B) \in Int
        /\ q * (e * (s.b + s.C)) \in Int /\ q * (e * (s.b + s.D)) \in Int /\ q * y \in Int
    BY <1>1, <1>3, <1>7
  <2>5. /\ e * (t.b + t.C) = e * (s.a + s.A) - q * (e * (s.b + s.C))
        /\ e * (t.b + t.D) = e * (s.a + s.B) - q * (e * (s.b + s.D))
    <3>1. /\ e * ((s.a - q * s.b) + (s.A - q * s.C)) = e * (s.a + s.A) - q * (e * (s.b + s.C))
          /\ e * ((s.a - q * s.b) + (s.B - q * s.D)) = e * (s.a + s.B) - q * (e * (s.b + s.D))
      BY ONLY <1>1, <2>1, Zenon
    <3> QED
      BY <1>5, <3>1
  <2>6. CASE /\ s.A >= 0 /\ s.B <= 0 /\ s.C <= 0 /\ s.D >= 0
             /\ e * (s.a + s.B) <= x /\ x <= e * (s.a + s.A)
             /\ e * (s.b + s.C) <= y /\ y <= e * (s.b + s.D)
    <3>1. q * (e * (s.b + s.C)) <= q * y /\ q * y <= q * (e * (s.b + s.D))
      BY <2>2, <2>3, <2>4, <2>6
    <3> HIDE DEF x, y, z
    <3>2. e * (t.b + t.D) <= z /\ z <= e * (t.b + t.C)
      BY <1>7, <1>9, <2>4, <2>5, <2>6, <3>1
    <3>3. t.A <= 0 /\ t.B >= 0 /\ t.C >= 0 /\ t.D <= 0
      <4>1. q * s.C <= 0 /\ q * s.D >= 0 /\ q * s.C \in Int /\ q * s.D \in Int
        BY <1>1, <1>3, <2>6
      <4> QED
        BY <1>1, <1>5, <2>6, <4>1
    <3>4. e * (t.a + t.A) <= y /\ y <= e * (t.a + t.B)
      BY <1>5, <2>6
    <3> QED
      BY <1>8, <3>2, <3>3, <3>4 DEF Bracketed, z
  <2>7. CASE /\ s.A <= 0 /\ s.B >= 0 /\ s.C >= 0 /\ s.D <= 0
             /\ e * (s.a + s.A) <= x /\ x <= e * (s.a + s.B)
             /\ e * (s.b + s.D) <= y /\ y <= e * (s.b + s.C)
    <3>1. q * (e * (s.b + s.D)) <= q * y /\ q * y <= q * (e * (s.b + s.C))
      BY <2>2, <2>3, <2>4, <2>7
    <3> HIDE DEF x, y, z
    <3>2. e * (t.b + t.C) <= z /\ z <= e * (t.b + t.D)
      BY <1>7, <1>9, <2>4, <2>5, <2>7, <3>1
    <3>3. t.A >= 0 /\ t.B <= 0 /\ t.C <= 0 /\ t.D >= 0
      <4>1. q * s.D <= 0 /\ q * s.C >= 0 /\ q * s.C \in Int /\ q * s.D \in Int
        BY <1>1, <1>3, <2>7
      <4> QED
        BY <1>1, <1>5, <2>7, <4>1
    <3>4. e * (t.a + t.B) <= y /\ y <= e * (t.a + t.A)
      BY <1>5, <2>7
    <3> QED
      BY <1>8, <3>2, <3>3, <3>4 DEF Bracketed, z
  <2> QED
    BY <2>6, <2>7 DEF Simulates, Bracketed
<1>12. ASSUME NEW g, Greatest(g, First(t, a, b), z) PROVE Greatest(g, a, b)
  <2> HIDE DEF x, y, z
  <2>1. z \in Int /\ x \in Int /\ y \in Int /\ q \in Int /\ z = x - q * y
    BY <1>3, <1>7, <1>9
  <2>2. Greatest(g, y, z)
    BY <1>8, <1>12
  <2>3. Greatest(g, x, y)
    BY ONLY <2>1, <2>2, GreatestRemainder, Zenon
  <2> QED
    BY <2>3 DEF Simulates, x, y
<1>13. z \in Nat /\ z <= b
  <2> HIDE DEF x, y, z
  <2> QED
    BY <1>3, <1>7, <1>9, <1>10
<1>14. Simulates(t, a, b, e)
  <2>1. First(t, a, b) \in Nat
    BY <1>7, <1>8
  <2> HIDE DEF x, y
  <2> QED
    BY <1>6, <1>11, <1>12, <1>13, <2>1 DEF Simulates
<1>15. Advanced(t, a, b) /\ z < y
  <2> HIDE DEF x, y
  <2> QED
    BY <1>7, <1>8, <1>10 DEF Advanced
<1> QED
  BY <1>14, <1>15 DEF t, q

(* So are all the steps of a simulation, if it makes any. *)
LEMMA SimulatedIs ==
    ASSUME NEW a \in Nat, NEW b \in Nat, NEW e \in Nat \ {0},
           NEW first, Simulates(first, a, b, e)
    PROVE  LET s == Simulated[first]
           IN  Simulates(s, a, b, e) /\ (s = first \/ Advanced(s, a, b))
<1> DEFINE D == {s \in Simulation : Simulates(s, a, b, e)}
           measure == [s \in D |-> Second(s, a, b)]
           Good(s, end) == Simulates(end, a, b, e) /\ (end = s \/ Advanced(end, a, b))
           S == {s \in D : Good(s, Simulated[s])}
<1>1. ASSUME NEW s \in D, \A r \in D : measure[r] < measure[s] => r \in S
      PROVE  s \in S
  <2> DEFINE q == (s.a + s.A) \div (s.b + s.C)
             t == Stepped(s, q)
  <2>0. s \in Simulation /\ Simulates(s, a, b, e)
    OBVIOUS
  <2>1. Simulated[s] = IF ~QuotientKnown(s) THEN s
                       ELSE IF ~StepFits(s, q) THEN s
                       ELSE IF s.a - q * s.b = 0 THEN t ELSE Simulated[t]
    BY <2>0, SimulatedUnfolds
  <2>2. CASE QuotientKnown(s)
    <3>1. Simulates(t, a, b, e) /\ Advanced(t, a, b) /\ Second(t, a, b) < Second(s, a, b)
      BY <2>0, <2>2, SimulatesStep
    <3> HIDE DEF q, t
    <3>2. t \in D /\ measure[t] < measure[s]
      BY <3>1 DEF Simulates
    <3>3. Good(t, Simulated[t])
      BY <1>1, <3>2
    <3>4. Good(s, Simulated[t])
      BY <3>1, <3>3
    <3> QED
      BY <2>0, <2>1, <3>1, <3>4
  <2>3. CASE ~QuotientKnown(s)
    BY <2>0, <2>1, <2>3
  <2> QED
    BY <2>2, <2>3
<1>2. \A s \in D : measure[s] \in Nat
  BY DEF Simulates
<1>3. first \in D
  BY DEF Simulates
<1> HIDE DEF S, measure, D
<1>4. D \subseteq S
  BY <1>1, <1>2, MeasureInduction
<1>5. first \in S
  BY <1>3, <1>4
<1> QED
  BY <1>5 DEF S

-----------------------------------------------------------------------------
(* Lehmer's algorithm. *)

(* Word is not zero. *)
LEMMA WordIs == Word \in Nat \ {0}
<1>1. B \in Nat /\ B >= 4
  BY BetaIs
<1>2. B * B \in Nat /\ B * B # 0
  BY <1>1
<1> QED
  BY <1>2 DEF Word

(* The leading words of a number shorter than two limbs more than they hide. *)
LEMMA LeadIs ==
    ASSUME NEW x \in Nat, NEW shift \in Nat \ {0}, NEW half \in Nat \ {0}, x < shift * Word
    PROVE  LET w == ((x \div shift) % Word) \div half
               e == shift * half
           IN  w \in Nat /\ e * w <= x /\ x <= e * (w + 1)
<1>1. Word \in Nat \ {0}
  BY WordIs
<1> DEFINE v == x \div shift
           w == v \div half
<1>2. v \in Nat /\ v * shift <= x /\ x < (v + 1) * shift
  BY QuotientIs
<1>3. v < Word
  <2> HIDE DEF v
  <2>1. v * shift < Word * shift
    BY <1>1, <1>2
  <2> SUFFICES ASSUME Word <= v PROVE FALSE
    BY <1>1, <1>2
  <2>2. Word * shift <= v * shift
    BY <1>1, <1>2
  <2> QED
    BY <1>1, <1>2, <2>1, <2>2
<1>4. v % Word = v
  BY <1>1, <1>2, <1>3
<1> HIDE DEF v
<1>5. w \in Nat /\ w * half <= v /\ v < (w + 1) * half
  BY <1>2, QuotientIs
<1> HIDE DEF w
<1>6. (w * half) * shift <= v * shift
  BY <1>2, <1>5
<1>7. (v + 1) * shift <= ((w + 1) * half) * shift
  BY <1>2, <1>5
<1>8. (shift * half) * w = (w * half) * shift
  BY <1>5
<1>9. (shift * half) * (w + 1) = ((w + 1) * half) * shift
  BY <1>5
<1>10. (shift * half) * w <= x /\ x <= (shift * half) * (w + 1)
  BY <1>2, <1>5, <1>6, <1>7, <1>8, <1>9
<1> QED
  BY <1>4, <1>5, <1>10 DEF v, w

(* The length of a number in bits. *)
LEMMA BitLengthIs ==
    ASSUME NEW a \in Nat
    PROVE  BitLength(a) \in Nat /\ a < TwoTo(BitLength(a))
<1> DEFINE n == BitLength(a)
<1>1. TwoTo(0 + 1) = 2 * TwoTo(0)
  BY ONLY TwoToIs, 0 \in Nat
<1>2. Digits(a, TwoTo(1)) = n
  BY <1>1, TwoToIs DEF BitLength
<1>3. n \in Nat /\ a < TwoTo(n * 1)
  BY <1>2, DigitsAre
<1>4. n * 1 = n
  BY <1>3
<1> QED
  BY <1>3, <1>4

(* A number longer than two limbs, without the bits below its leading word. *)
LEMMA ShiftIs ==
    ASSUME NEW a \in Nat, BitLength(a) > 2 * LimbBits
    PROVE  LET shift == TwoTo(BitLength(a) - 2 * LimbBits)
           IN  shift \in Nat \ {0} /\ a < shift * Word
<1> DEFINE n == BitLength(a)
           k == n - 2 * LimbBits
<1>1. n \in Nat /\ a < TwoTo(n)
  BY BitLengthIs
<1> HIDE DEF n
<1>2. k \in Nat /\ n = k + (LimbBits + LimbBits) /\ LimbBits \in Nat
  BY <1>1, BigIntAssumption DEF n
<1> HIDE DEF k
<1>3. TwoTo(n) = TwoTo(k) * TwoTo(LimbBits + LimbBits)
  BY <1>2, TwoToAdds
<1>4. TwoTo(LimbBits + LimbBits) = Word
  BY <1>2, TwoToAdds, BetaIs DEF Word
<1>5. TwoTo(k) \in Nat \ {0}
  BY <1>2, TwoToIs
<1> QED
  BY <1>1, <1>3, <1>4, <1>5 DEF n, k

(* A round makes the pair smaller and keeps its order and its greatest common divisor. *)
LEMMA LehmerStepIs ==
    ASSUME NEW a \in Nat, NEW b \in Nat, b # 0, b <= a, BitLength(a) > 2 * LimbBits
    PROVE  LET r == LehmerStep(a, b)
           IN  /\ r \in Nat \X Nat /\ r[1] >= r[2] /\ r[1] + r[2] < a + b
               /\ \A g : Greatest(g, r[1], r[2]) => Greatest(g, a, b)
<1> DEFINE shift   == TwoTo(BitLength(a) - 2 * LimbBits)
           half    == IF a \div shift >= Word \div 2 THEN 2 ELSE 1
           lead(x) == ((x \div shift) % Word) \div half
           divided == <<b, DivideWithRemainder(a, b)[2]>>
           Sorted(x, y) == <<Larger(x, y), IF x < y THEN x ELSE y>>
           Applied(s)   == IF s.B = 0 THEN divided
                           ELSE Sorted(Abs(s.A * a + s.B * b), Abs(s.C * a + s.D * b))
           first == [a |-> lead(a), b |-> lead(b), A |-> 1, B |-> 0, C |-> 0, D |-> 1]
           e == shift * half
           Sound(r) == /\ r \in Nat \X Nat /\ r[1] >= r[2] /\ r[1] + r[2] < a + b
                       /\ \A g : Greatest(g, r[1], r[2]) => Greatest(g, a, b)
<1>1. LehmerStep(a, b) = IF lead(b) = 0 THEN divided ELSE Applied(Simulated[first])
  BY DEF LehmerStep
<1>2. shift \in Nat \ {0} /\ a < shift * Word
  BY ShiftIs
<1> HIDE DEF shift
<1>3. half \in Nat \ {0}
  OBVIOUS
<1> HIDE DEF half
<1>4. Word \in Nat
  BY WordIs
<1>5. b < shift * Word /\ shift * Word \in Nat
  BY <1>2, <1>4
<1>6. lead(a) \in Nat /\ e * lead(a) <= a /\ a <= e * (lead(a) + 1)
  BY <1>2, <1>3, LeadIs
<1>7. lead(b) \in Nat /\ e * lead(b) <= b /\ b <= e * (lead(b) + 1)
  BY <1>2, <1>3, <1>5, LeadIs
<1>8. e \in Nat \ {0}
  BY <1>2, <1>3
<1> HIDE DEF lead, e
<1>9. Sound(divided)
  <2> DEFINE z == DivideWithRemainder(a, b)[2]
  <2>1. PICK q \in Nat : z \in Nat /\ z < b /\ a = q * b + z
    BY RemainderIs
  <2> HIDE DEF z
  <2>2. z = a - q * b
    BY <2>1
  <2>3. ASSUME NEW g, Greatest(g, b, z) PROVE Greatest(g, a, b)
    <3>1. z \in Int /\ q \in Int /\ a \in Int /\ b \in Int
      BY <2>1
    <3> QED
      BY ONLY <2>2, <2>3, <3>1, GreatestRemainder, Zenon
  <2>4. divided = <<b, z>>
    BY DEF z
  <2> HIDE DEF divided
  <2> QED
    BY <2>1, <2>3, <2>4
<1>10. Simulates(first, a, b, e)
  <2>1. first \in Simulation
    BY <1>6, <1>7 DEF Simulation
  <2>2. First(first, a, b) = a /\ Second(first, a, b) = b
    BY DEF First, Second
  <2>3. /\ first.A = 1 /\ first.B = 0 /\ first.C = 0 /\ first.D = 1
        /\ first.a = lead(a) /\ first.b = lead(b)
    OBVIOUS
  <2> HIDE DEF first
  <2>4. /\ first.a + first.A = lead(a) + 1 /\ first.a + first.B = lead(a)
        /\ first.b + first.C = lead(b) /\ first.b + first.D = lead(b) + 1
    BY <1>6, <1>7, <2>3
  <2>5. Bracketed(first, a, b, e)
    BY <1>6, <1>7, <2>2, <2>3, <2>4 DEF Bracketed
  <2> QED
    BY <2>1, <2>2, <2>5 DEF Simulates
<1> DEFINE s == Simulated[first]
<1>11. Simulates(s, a, b, e) /\ (s = first \/ Advanced(s, a, b))
  <2> HIDE DEF first
  <2> QED
    BY <1>8, <1>10, SimulatedIs
<1>12. first.B = 0
  OBVIOUS
<1> HIDE DEF s, first
<1>13. ASSUME s.B # 0
       PROVE  Sound(Sorted(Abs(s.A * a + s.B * b), Abs(s.C * a + s.D * b)))
  <2> DEFINE x == First(s, a, b)
             y == Second(s, a, b)
  <2>1. x \in Nat /\ y \in Nat /\ x <= b /\ y < x
    BY <1>11, <1>12, <1>13 DEF Simulates, Advanced
  <2>2. \A g : Greatest(g, x, y) => Greatest(g, a, b)
    BY <1>11 DEF Simulates
  <2>3. s.A * a + s.B * b = x /\ s.C * a + s.D * b = y
    BY DEF First, Second
  <2> HIDE DEF x, y
  <2>4. Abs(x) = x /\ Abs(y) = y
    BY <2>1 DEF Abs
  <2>5. Sorted(x, y) = <<x, y>>
    BY <2>1 DEF Larger
  <2>6. Sound(<<x, y>>)
    BY <2>1, <2>2
  <2> QED
    BY <2>3, <2>4, <2>5, <2>6
<1>14. Sound(Applied(s))
  BY <1>9, <1>13
<1>15. Sound(LehmerStep(a, b))
  <2> HIDE DEF Sound, divided, Applied
  <2> QED
    BY <1>1, <1>9, <1>14 DEF s
<1> QED
  BY <1>15

\* A round is made as long as both numbers are long.
Long(p) == ~(LimbCount(p[2]) < 2 \/ BitLength(p[1]) <= 2 * LimbBits)

(* So a round is made of a pair that it can make smaller. *)
LEMMA LongIs ==
    ASSUME NEW p \in Ordered, Long(p)
    PROVE  /\ p[1] \in Nat /\ p[2] \in Nat /\ p[2] # 0 /\ p[2] <= p[1]
           /\ BitLength(p[1]) > 2 * LimbBits
<1>1. p[1] \in Nat /\ p[2] \in Nat /\ p[2] <= p[1]
  BY DEF Ordered
<1>2. p[2] # 0
  BY <1>1, LimbCountIs DEF Long
<1>3. BitLength(p[1]) \in Nat /\ 2 * LimbBits \in Nat
  <2>1. 2 * LimbBits \in Nat
    BY BigIntAssumption
  <2> QED
    BY <1>1, <2>1, BitLengthIs
<1> QED
  BY <1>1, <1>2, <1>3 DEF Long

(* LehmerGcd goes on with ordered pairs. *)
LEMMA LehmerGcdUnfolds ==
    LehmerGcd = [p \in Ordered |->
        IF Long(p) THEN LehmerGcd[LehmerStep(p[1], p[2])] ELSE Euclid[p]]
<1> DEFINE Stops == {p \in Ordered : ~Long(p)}
           out   == [p \in Ordered |-> Euclid[p]]
           next  == [p \in Ordered |-> LehmerStep(p[1], p[2])]
<1>1. \A p \in Ordered \ Stops : next[p] \in Ordered
  <2> SUFFICES ASSUME NEW p \in Ordered, Long(p) PROVE LehmerStep(p[1], p[2]) \in Ordered
    OBVIOUS
  <2>1. LET r == LehmerStep(p[1], p[2]) IN r \in Nat \X Nat /\ r[1] >= r[2]
    BY LongIs, LehmerStepIs
  <2> QED
    BY <2>1 DEF Ordered
<1>2. PICK f : Looping(f, Ordered, Stops, out, next)
  <2> HIDE DEF Stops, out, next
  <2> QED
    BY <1>1, LoopExists
<1>3. f = [p \in Ordered |-> IF Long(p) THEN f[LehmerStep(p[1], p[2])] ELSE Euclid[p]]
  <2>1. \A p \in Ordered : (IF p \in Stops THEN out[p] ELSE f[next[p]])
                         = IF Long(p) THEN f[LehmerStep(p[1], p[2])] ELSE Euclid[p]
    OBVIOUS
  <2> QED
    BY <1>2, <2>1 DEF Looping
<1>4. f = [p \in Ordered |->
              IF LimbCount(p[2]) < 2 \/ BitLength(p[1]) <= 2 * LimbBits THEN Euclid[p]
              ELSE f[LehmerStep(p[1], p[2])]]
  <2>1. \A p \in Ordered : (IF Long(p) THEN f[LehmerStep(p[1], p[2])] ELSE Euclid[p])
              = IF LimbCount(p[2]) < 2 \/ BitLength(p[1]) <= 2 * LimbBits THEN Euclid[p]
                ELSE f[LehmerStep(p[1], p[2])]
    BY DEF Long
  <2> QED
    BY <1>3, <2>1
<1> DEFINE g == LehmerGcd
<1>5. g = [p \in Ordered |->
              IF LimbCount(p[2]) < 2 \/ BitLength(p[1]) <= 2 * LimbBits THEN Euclid[p]
              ELSE g[LehmerStep(p[1], p[2])]]
  BY <1>4 DEF LehmerGcd
<1> HIDE DEF g
<1>6. \A p \in Ordered : (IF Long(p) THEN g[LehmerStep(p[1], p[2])] ELSE Euclid[p])
              = IF LimbCount(p[2]) < 2 \/ BitLength(p[1]) <= 2 * LimbBits THEN Euclid[p]
                ELSE g[LehmerStep(p[1], p[2])]
  BY DEF Long
<1> QED
  BY <1>5, <1>6 DEF g

(* Lehmer's algorithm finds the greatest common divisor. *)
LEMMA LehmerGcdIs ==
    ASSUME NEW a \in Nat, NEW b \in Nat, b <= a
    PROVE  Greatest(LehmerGcd[<<a, b>>], a, b)
<1> DEFINE measure == [p \in Ordered |-> p[1] + p[2]]
           S == {p \in Ordered : Greatest(LehmerGcd[p], p[1], p[2])}
<1>1. ASSUME NEW p \in Ordered, \A r \in Ordered : measure[r] < measure[p] => r \in S
      PROVE  p \in S
  <2>1. PICK x \in Nat, y \in Nat : p = <<x, y>>
    BY DEF Ordered
  <2>2. CASE ~Long(p)
    <3>1. LehmerGcd[p] = Euclid[p]
      BY <2>2, LehmerGcdUnfolds
    <3> QED
      BY <2>1, <3>1, EuclidIs
  <2>3. CASE Long(p)
    <3> DEFINE r == LehmerStep(x, y)
    <3>1. /\ r \in Nat \X Nat /\ r[1] >= r[2] /\ r[1] + r[2] < x + y
          /\ \A g : Greatest(g, r[1], r[2]) => Greatest(g, x, y)
      BY <2>1, <2>3, LongIs, LehmerStepIs
    <3>2. LehmerGcd[p] = LehmerGcd[r]
      BY <2>1, <2>3, LehmerGcdUnfolds
    <3> HIDE DEF r
    <3>3. r \in Ordered
      BY <3>1 DEF Ordered
    <3>4. Greatest(LehmerGcd[r], r[1], r[2])
      BY <1>1, <2>1, <3>1, <3>3
    <3> QED
      BY <2>1, <3>1, <3>2, <3>4
  <2> QED
    BY <2>2, <2>3
<1>2. \A p \in Ordered : measure[p] \in Nat
  BY DEF Ordered
<1> HIDE DEF S, measure
<1>3. Ordered \subseteq S
  BY <1>1, <1>2, MeasureInduction
<1>4. <<a, b>> \in S
  BY <1>3 DEF Ordered
<1> QED
  BY <1>4 DEF S

-----------------------------------------------------------------------------
(* The dispatcher and the client. *)

(* BigInt's gcd: whichever algorithm the lengths choose, the divisors of its result are *)
(* the common divisors of the two numbers, whatever their signs.                        *)
THEOREM GcdIsGreatest ==
    ASSUME NEW a \in Int, NEW b \in Int
    PROVE  Greatest(Gcd(a, b), Abs(a), Abs(b))
<1> DEFINE x == Abs(a)
           y == Abs(b)
           n == Larger(LimbCount(x), LimbCount(y))
           least == IF x < y THEN x ELSE y
<1>1. x \in Nat /\ y \in Nat
  BY DEF Abs
<1>2. Gcd(a, b) = IF x = 0 \/ y = 0 THEN x + y
                  ELSE IF n < 2 THEN Euclid[<<x, y>>]
                  ELSE IF n < LehmerThreshold THEN BinaryGcd(x, y)
                  ELSE LehmerGcd[<<Larger(x, y), least>>]
  BY DEF Gcd
<1> SUFFICES Greatest(Gcd(a, b), x, y)
  OBVIOUS
<1> HIDE DEF n, x, y
<1>3. CASE y = 0
  <2>1. Gcd(a, b) = x
    BY <1>1, <1>2, <1>3
  <2> QED
    BY <1>1, <1>3, <2>1, GreatestZero
<1>4. CASE x = 0
  <2>1. Gcd(a, b) = y
    BY <1>1, <1>2, <1>4
  <2> QED
    BY <1>1, <1>4, <2>1, GreatestZero, GreatestSwap
<1>5. Greatest(Euclid[<<x, y>>], x, y)
  BY <1>1, EuclidIs
<1>6. CASE x # 0 /\ y # 0
  <2>1. Greatest(BinaryGcd(x, y), x, y)
    BY <1>1, <1>6, BinaryGcdIs
  <2>2. Greatest(LehmerGcd[<<Larger(x, y), least>>], x, y)
    <3>1. CASE x < y
      <4>1. Larger(x, y) = y /\ least = x
        BY <1>1, <3>1 DEF Larger
      <4>2. Greatest(LehmerGcd[<<y, x>>], y, x)
        BY <1>1, <3>1, LehmerGcdIs
      <4> QED
        BY <4>1, <4>2, GreatestSwap
    <3>2. CASE ~(x < y)
      <4>1. Larger(x, y) = x /\ least = y
        BY <1>1, <3>2 DEF Larger
      <4>2. Greatest(LehmerGcd[<<x, y>>], x, y)
        BY <1>1, <3>2, LehmerGcdIs
      <4> QED
        BY <4>1, <4>2
    <3> QED
      BY <3>1, <3>2
  <2> QED
    BY <1>2, <1>5, <1>6, <2>1, <2>2
<1> QED
  BY <1>1, <1>3, <1>4, <1>6

(* BigInt's gcd agrees with Euclid's algorithm in every reachable state of the client, for *)
(* all the numbers it may take.                                                            *)
THEOREM GcdAlwaysRight == ASpec => []GcdRight
<1>1. Operands => GcdRight
  <2> SUFFICES ASSUME Operands, Len(operands) = 2,
                      NEW b \in {operands[1], operands[1] * (operands[2] % 61)}
               PROVE  Gcd(operands[2], b) = Common[<<operands[2], b>>]
    BY DEF GcdRight
  <2>1. PICK d \in Divisors, n \in Dividends : operands = <<d, n>>
    BY DEF Operands
  <2>2. d \in Nat /\ n \in Nat
    BY OperandsAssumption
  <2>3. b \in Nat /\ operands[2] = n
    <3>1. n % 61 \in Nat
      BY <2>2
    <3>2. d * (n % 61) \in Nat
      BY <2>2, <3>1
    <3> QED
      BY <2>1, <2>2, <3>2
  <2>4. Abs(n) = n /\ Abs(b) = b
    BY <2>2, <2>3 DEF Abs
  <2>5. Greatest(Gcd(n, b), n, b)
    BY <2>2, <2>3, <2>4, GcdIsGreatest
  <2>6. Greatest(Common[<<n, b>>], n, b)
    BY <2>2, <2>3, CommonIs
  <2> QED
    BY <2>3, <2>5, <2>6, GreatestIsUnique
<1> QED
  BY <1>1, OperandsInvariant, PTL

-----------------------------------------------------------------------------
(* The trees and their heights. *)

Kinds       == DOMAIN TermKindRank
TermOver(S) == [kind : Kinds, tag : Int, args : Seq(S)]
Growing(f, n) == f = [h \in 0 .. n |-> IF h = 0 THEN {} ELSE TermOver(f[h - 1])]

(* The equation of the levels has a solution. *)
LEMMA GrowingExists == ASSUME NEW n \in Nat PROVE \E f : Growing(f, n)
<1> DEFINE P == {m \in Nat : \E f : Growing(f, m)}
<1>1. 0 \in P
  <2>1. Growing([h \in 0 .. 0 |-> {}], 0)
    BY DEF Growing
  <2> QED
    BY <2>1
<1>2. ASSUME NEW m \in Nat, m \in P PROVE m + 1 \in P
  <2>1. PICK f : Growing(f, m)
    BY <1>2
  <2> DEFINE g == [h \in 0 .. m + 1 |-> IF h = m + 1 THEN TermOver(f[m]) ELSE f[h]]
             G == [h \in 0 .. m + 1 |-> IF h = 0 THEN {} ELSE TermOver(g[h - 1])]
  <2>2. \A h \in 0 .. m : f[h] = IF h = 0 THEN {} ELSE TermOver(f[h - 1])
    BY <2>1 DEF Growing
  <2>3. ASSUME NEW h \in 0 .. m + 1 PROVE g[h] = IF h = 0 THEN {} ELSE TermOver(g[h - 1])
    <3>1. h = m + 1 => h # 0 /\ g[h] = TermOver(f[m]) /\ g[h - 1] = f[m]
      OBVIOUS
    <3>2. h # m + 1 => h \in 0 .. m /\ g[h] = f[h]
      OBVIOUS
    <3>3. h # m + 1 /\ h # 0 => g[h - 1] = f[h - 1]
      OBVIOUS
    <3> HIDE DEF g, TermOver
    <3> QED
      BY <2>2, <3>1, <3>2, <3>3
  <2>4. g = [h \in 0 .. m + 1 |-> g[h]]
    OBVIOUS
  <2> HIDE DEF g
  <2>5. g = G
    BY <2>3, <2>4
  <2>6. Growing(g, m + 1)
    BY <2>5 DEF Growing
  <2> QED
    BY <2>6
<1> HIDE DEF P
<1>3. Nat \subseteq P
  BY <1>1, <1>2, SetInduction
<1> QED
  BY <1>3 DEF P

(* There is no tree without a level, and a level more is a node over the trees so far. *)
LEMMA TermsAre ==
    /\ TermsUpTo(0) = {}
    /\ \A n \in Nat : TermsUpTo(n + 1) = TermOver(TermsUpTo(n))
<1> DEFINE level(n) == CHOOSE f : Growing(f, n)
<1>1. ASSUME NEW n \in Nat PROVE Growing(level(n), n) /\ TermsUpTo(n) = level(n)[n]
  <2>1. Growing(level(n), n)
    BY GrowingExists
  <2>2. TermsUpTo(n) = level(n)[n]
    BY DEF TermsUpTo, Growing, TermOver, Kinds
  <2> QED
    BY <2>1, <2>2
<1> HIDE DEF level
<1>2. ASSUME NEW n \in Nat
      PROVE  /\ \A h \in 0 .. n : level(n)[h] = IF h = 0 THEN {} ELSE TermOver(level(n)[h - 1])
  <2> DEFINE f == level(n)
             F == [h \in 0 .. n |-> IF h = 0 THEN {} ELSE TermOver(f[h - 1])]
  <2>1. f = F
    BY <1>1 DEF Growing
  <2> HIDE DEF f
  <2>2. \A h \in 0 .. n : f[h] = IF h = 0 THEN {} ELSE TermOver(f[h - 1])
    BY <2>1
  <2> QED
    BY <2>2 DEF f
<1>3. ASSUME NEW n \in Nat PROVE level(n + 1)[n] = level(n)[n]
  <2> DEFINE S == {h \in 0 .. n : level(n + 1)[h] = level(n)[h]}
  <2>1. 0 \in S
    BY <1>2
  <2>2. ASSUME NEW h \in 1 .. n, h - 1 \in S PROVE h \in S
    <3>1. h \in 0 .. n /\ h \in 0 .. n + 1 /\ h # 0
      OBVIOUS
    <3>2. level(n)[h] = TermOver(level(n)[h - 1])
      BY <1>2, <3>1
    <3>3. level(n + 1)[h] = TermOver(level(n + 1)[h - 1])
      BY <1>2, <3>1
    <3> QED
      BY <2>2, <3>1, <3>2, <3>3
  <2> HIDE DEF S
  <2>3. 0 .. n \subseteq S
    BY <2>1, <2>2, RangeInduction
  <2>4. n \in S
    BY <2>3
  <2> QED
    BY <2>4 DEF S
<1>4. TermsUpTo(0) = {}
  BY <1>1, <1>2
<1>5. ASSUME NEW n \in Nat PROVE TermsUpTo(n + 1) = TermOver(TermsUpTo(n))
  <2>1. n + 1 \in Nat /\ n + 1 \in 0 .. n + 1 /\ n + 1 # 0 /\ (n + 1) - 1 = n
    OBVIOUS
  <2>2. level(n + 1)[n + 1] = TermOver(level(n + 1)[n])
    BY <1>2, <2>1
  <2> QED
    BY <1>1, <1>3, <2>1, <2>2
<1> QED
  BY <1>4, <1>5

(* A tree of some levels is one of more levels. *)
LEMMA TermsGrow ==
    ASSUME NEW n \in Nat, NEW m \in Nat, n <= m
    PROVE  TermsUpTo(n) \subseteq TermsUpTo(m)
<1> DEFINE P == {k \in Nat : TermsUpTo(k) \subseteq TermsUpTo(k + 1)}
           Q == {k \in Nat : TermsUpTo(n) \subseteq TermsUpTo(n + k)}
<1>1. 0 \in P
  BY TermsAre
<1>2. ASSUME NEW k \in Nat, k \in P PROVE k + 1 \in P
  <2>1. TermsUpTo(k + 1) = TermOver(TermsUpTo(k)) /\ TermsUpTo(k + 1 + 1) = TermOver(TermsUpTo(k + 1))
    BY TermsAre
  <2>2. TermsUpTo(k) \subseteq TermsUpTo(k + 1)
    BY <1>2
  <2>3. Seq(TermsUpTo(k)) \subseteq Seq(TermsUpTo(k + 1))
    BY <2>2
  <2>4. TermOver(TermsUpTo(k)) \subseteq TermOver(TermsUpTo(k + 1))
    BY <2>3 DEF TermOver
  <2> QED
    BY <2>1, <2>4
<1> HIDE DEF P
<1>3. Nat \subseteq P
  BY <1>1, <1>2, SetInduction
<1>4. 0 \in Q
  OBVIOUS
<1>5. ASSUME NEW k \in Nat, k \in Q PROVE k + 1 \in Q
  <2>1. n + k \in P /\ n + (k + 1) = (n + k) + 1
    BY <1>3
  <2>2. TermsUpTo(n + k) \subseteq TermsUpTo(n + (k + 1))
    BY <2>1 DEF P
  <2> QED
    BY <1>5, <2>2
<1> HIDE DEF Q
<1>6. Nat \subseteq Q
  BY <1>4, <1>5, SetInduction
<1>7. m - n \in Q /\ n + (m - n) = m
  BY <1>6
<1> QED
  BY <1>7 DEF Q

\* The number of levels of a tree.
HasHeight(t, h) == t \in TermsUpTo(h) /\ \A k \in Nat : t \in TermsUpTo(k) => h <= k
Height(t) == CHOOSE h \in Nat : HasHeight(t, h)

(* A tree is a node over lower trees. *)
LEMMA TermIs ==
    ASSUME NEW t \in Terms
    PROVE  /\ Height(t) \in Nat /\ Height(t) <= MaxHeight
           /\ \A k \in Nat : t \in TermsUpTo(k) <=> Height(t) <= k
           /\ t.kind \in Kinds /\ t.tag \in Int /\ t.args \in Seq(Terms)
           /\ t = [kind |-> t.kind, tag |-> t.tag, args |-> t.args]
           /\ Len(t.args) \in Nat /\ DOMAIN t.args = 1 .. Len(t.args)
           /\ \A i \in DOMAIN t.args : t.args[i] \in Terms /\ Height(t.args[i]) < Height(t)
<1> DEFINE S == {h \in Nat : t \in TermsUpTo(h)}
<1>1. MaxHeight \in S
  BY HeightAssumption DEF Terms
<1>2. PICK h \in S : \A k \in S : h <= k
  <2>1. S \in SUBSET Nat /\ S # {}
    BY <1>1
  <2> HIDE DEF S
  <2> QED
    BY <2>1, HasLeast
<1>3. h \in Nat /\ HasHeight(t, h)
  BY <1>2 DEF HasHeight
<1>4. Height(t) \in Nat /\ HasHeight(t, Height(t))
  BY <1>3 DEF Height
<1>5. Height(t) # 0
  BY <1>4, TermsAre DEF HasHeight
<1> DEFINE k == Height(t) - 1
<1>6. k \in Nat /\ k + 1 = Height(t) /\ Height(t) <= MaxHeight
  BY <1>1, <1>4, <1>5 DEF HasHeight
<1>7. t \in TermOver(TermsUpTo(k))
  BY <1>4, <1>6, TermsAre DEF HasHeight
<1>8. TermsUpTo(k) \subseteq Terms
  BY <1>6, TermsGrow, HeightAssumption DEF Terms
<1>9. \A j \in Nat : t \in TermsUpTo(j) <=> Height(t) <= j
  BY <1>4, TermsGrow DEF HasHeight
<1>10. /\ t.kind \in Kinds /\ t.tag \in Int /\ t.args \in Seq(TermsUpTo(k))
       /\ t = [kind |-> t.kind, tag |-> t.tag, args |-> t.args]
  BY <1>7 DEF TermOver
<1>11. ASSUME NEW i \in DOMAIN t.args PROVE t.args[i] \in Terms /\ Height(t.args[i]) < Height(t)
  <2> DEFINE c == t.args[i]
             T == {j \in Nat : c \in TermsUpTo(j)}
  <2>1. c \in TermsUpTo(k)
    BY <1>10, <1>11
  <2>2. PICK g \in T : \A j \in T : g <= j
    <3>1. T \in SUBSET Nat /\ k \in T
      BY <1>6, <2>1
    <3> HIDE DEF T
    <3> QED
      BY <3>1, HasLeast
  <2>3. g \in Nat /\ HasHeight(c, g)
    BY <2>2 DEF HasHeight
  <2>4. Height(c) \in Nat /\ HasHeight(c, Height(c))
    BY <2>3 DEF Height
  <2>5. Height(c) <= k
    BY <1>6, <2>1, <2>4 DEF HasHeight
  <2> QED
    BY <1>6, <1>8, <2>1, <2>4, <2>5
<1>12. t.args \in Seq(Terms)
  BY <1>8, <1>10
<1> QED
  BY <1>4, <1>6, <1>9, <1>10, <1>11, <1>12

-----------------------------------------------------------------------------
(* What the comparisons are made of. *)

Three == {-1, 0, 1}

(* The sign of two numbers. *)
LEMMA SignIs ==
    ASSUME NEW m \in Int, NEW n \in Int
    PROVE  /\ Sign(m, n) \in Three /\ Sign(n, m) = -Sign(m, n)
           /\ Sign(m, n) > 0 <=> m > n
           /\ Sign(m, n) = 0 <=> m = n
           /\ Sign(m, n) >= 0 <=> m >= n
  BY DEF Sign, Three

LiteralKinds == {"IntegerLit", "RationalLit", "DecimalLit", "Constant", "ComplexLit"}

(* Only literals of different kinds have one rank, and no two kinds have one place. *)
LEMMA RanksAre ==
    /\ \A k \in Kinds : TermKindRank[k] \in Int /\ KindOrdinal[k] \in Int
    /\ \A k, l \in Kinds : KindOrdinal[k] = KindOrdinal[l] => k = l
    /\ \A k, l \in Kinds : TermKindRank[k] = TermKindRank[l] =>
          k = l \/ (k \in LiteralKinds /\ l \in LiteralKinds)
<1>1. Kinds = LiteralKinds \cup {"Symbol", "Unary", "Binary", "Sum", "Product", "FuncCall"}
  BY DEF Kinds, TermKindRank, LiteralKinds
<1>2. /\ \A k \in LiteralKinds : TermKindRank[k] = 1
      /\ TermKindRank["Symbol"] = 2 /\ TermKindRank["Unary"] = 3 /\ TermKindRank["Binary"] = 4
      /\ TermKindRank["Sum"] = 5 /\ TermKindRank["Product"] = 6 /\ TermKindRank["FuncCall"] = 7
  BY DEF TermKindRank, LiteralKinds
<1>3. /\ KindOrdinal["IntegerLit"] = 1 /\ KindOrdinal["RationalLit"] = 2 /\ KindOrdinal["DecimalLit"] = 3
      /\ KindOrdinal["Symbol"] = 4 /\ KindOrdinal["Constant"] = 5 /\ KindOrdinal["Unary"] = 6
      /\ KindOrdinal["Binary"] = 7 /\ KindOrdinal["FuncCall"] = 8 /\ KindOrdinal["Sum"] = 9
      /\ KindOrdinal["Product"] = 10 /\ KindOrdinal["ComplexLit"] = 15
  BY DEF KindOrdinal
<1>4. \A k, l \in Kinds : KindOrdinal[k] = KindOrdinal[l] => k = l
  BY <1>1, <1>3 DEF LiteralKinds
<1>5. \A k \in Kinds : TermKindRank[k] \in Int /\ KindOrdinal[k] \in Int
  BY <1>1, <1>2, <1>3 DEF LiteralKinds
<1> HIDE DEF LiteralKinds
<1> QED
  BY <1>1, <1>2, <1>4, <1>5

(* The kinds, functions, tags and heads of two terms are compared by a sign. *)
LEMMA PartsAre ==
    ASSUME NEW a \in Terms, NEW b \in Terms
    PROVE  /\ CompareKinds(a, b) \in Three /\ CompareOrdinals(a, b) \in Three
           /\ CompareTags(a, b) \in Three /\ CompareHeads(a, b) \in Three
<1>1. a.kind \in Kinds /\ b.kind \in Kinds /\ a.tag \in Int /\ b.tag \in Int
  BY TermIs
<1>2. CompareKinds(a, b) \in Three /\ CompareOrdinals(a, b) \in Three
  BY <1>1, RanksAre, SignIs DEF CompareKinds, CompareOrdinals
<1>3. \A f, g \in Int : CompareFunctions(f, g) \in Three
  <2>1. \A f \in Int : BuiltinPrecedence(f) \in Int
    BY DEF BuiltinPrecedence
  <2> QED
    BY <2>1, SignIs DEF CompareFunctions, Then
<1>4. CompareTags(a, b) \in Three
  <2> HIDE DEF Three
  <2>1. 0 \in Three
    BY DEF Three
  <2>2. Sign(a.tag, b.tag) \in Three
    BY <1>1, SignIs
  <2> QED
    BY <1>1, <1>3, <2>1, <2>2 DEF CompareTags
<1>5. \A f \in Int : BinaryPrecedence(f) \in Int
  BY DEF BinaryPrecedence, Pow, Mul, Div, Add, Sub, Mod
<1>6. Then(Sign(BinaryPrecedence(a.tag), BinaryPrecedence(b.tag)), Sign(a.tag, b.tag)) \in Three
  BY <1>1, <1>5, SignIs DEF Then
<1>7. CompareHeads(a, b) \in Three
  <2> HIDE DEF Three
  <2>1. 0 \in Three
    BY DEF Three
  <2>2. Sign(a.tag, b.tag) \in Three
    BY <1>1, SignIs
  <2> QED
    BY <1>1, <1>2, <1>3, <1>6, <2>1, <2>2 DEF CompareHeads
<1> QED
  BY <1>2, <1>4, <1>7

(* The first place where the children differ. *)
LEMMA FirstDifference ==
    ASSUME NEW S, NEW a, NEW b, a.args \in Seq(S), b.args \in Seq(S)
    PROVE  /\ Shorter(a, b) \in Nat /\ Shorter(a, b) <= Len(a.args) /\ Shorter(a, b) <= Len(b.args)
           /\ Shorter(a, b) = Len(a.args) \/ Shorter(a, b) = Len(b.args)
           /\ \A D \in SUBSET (1 .. Shorter(a, b)) : D # {} =>
                 Least(D) \in D /\ \A i \in D : Least(D) <= i
           /\ \A D \in SUBSET (1 .. Shorter(a, b)), f \in 1 .. Shorter(a, b) :
                 f \in D /\ (\A i \in D : f <= i) => Least(D) = f
<1>1. /\ Shorter(a, b) \in Nat /\ Shorter(a, b) <= Len(a.args) /\ Shorter(a, b) <= Len(b.args)
      /\ Shorter(a, b) = Len(a.args) \/ Shorter(a, b) = Len(b.args)
  BY DEF Shorter
<1>2. ASSUME NEW D \in SUBSET (1 .. Shorter(a, b)), D # {}
      PROVE  Least(D) \in D /\ \A i \in D : Least(D) <= i
  <2>1. D \in SUBSET Nat
    BY <1>1
  <2>2. \E f \in D : \A i \in D : f <= i
    BY <1>2, <2>1, HasLeast
  <2> QED
    BY <2>2 DEF Least
<1>3. ASSUME NEW D \in SUBSET (1 .. Shorter(a, b)), NEW f \in 1 .. Shorter(a, b),
             f \in D, \A i \in D : f <= i
      PROVE  Least(D) = f
  <2>1. Least(D) \in D /\ Least(D) <= f
    BY <1>2, <1>3
  <2>2. \A i \in D : i \in Nat
    BY <1>1
  <2>3. f <= Least(D) /\ Least(D) \in Nat /\ f \in Nat
    BY <1>3, <2>1, <2>2
  <2> QED
    BY <2>1, <2>3
<1> QED
  BY <1>1, <1>2, <1>3

(* The comparison of the children depends on that of each pair of them alone. *)
LEMMA ChildrenCompared ==
    ASSUME NEW S, NEW a, NEW b, a.args \in Seq(S), b.args \in Seq(S), NEW f, NEW g,
           \A i \in DOMAIN a.args, j \in DOMAIN b.args :
               /\ f[<<a.args[i], b.args[j]>>] \in Three
               /\ f[<<a.args[i], b.args[j]>>] = g[<<a.args[i], b.args[j]>>]
    PROVE  /\ CompareChildren(f, a, b) \in Three
           /\ CompareChildren(f, a, b) = CompareChildren(g, a, b)
<1> DEFINE F == {i \in 1 .. Shorter(a, b) : f[<<a.args[i], b.args[i]>>] # 0}
           G == {i \in 1 .. Shorter(a, b) : g[<<a.args[i], b.args[i]>>] # 0}
<1>1. \A i \in 1 .. Shorter(a, b) : i \in DOMAIN a.args /\ i \in DOMAIN b.args
  <2>1. Shorter(a, b) \in Nat /\ Shorter(a, b) <= Len(a.args) /\ Shorter(a, b) <= Len(b.args)
    BY FirstDifference
  <2>2. /\ Len(a.args) \in Nat /\ DOMAIN a.args = 1 .. Len(a.args)
        /\ Len(b.args) \in Nat /\ DOMAIN b.args = 1 .. Len(b.args)
    OBVIOUS
  <2> QED
    BY <2>1, <2>2
<1>2. F = G
  BY <1>1
<1>3. F # {} => Least(F) \in 1 .. Shorter(a, b)
  <2>1. F \in SUBSET (1 .. Shorter(a, b))
    OBVIOUS
  <2> HIDE DEF F
  <2> QED
    BY <2>1, FirstDifference
<1>4. F # {} => f[<<a.args[Least(F)], b.args[Least(F)]>>] \in Three
               /\ f[<<a.args[Least(F)], b.args[Least(F)]>>] = g[<<a.args[Least(F)], b.args[Least(F)]>>]
  <2> HIDE DEF F
  <2> QED
    BY <1>1, <1>3
<1>5. Sign(Len(a.args), Len(b.args)) \in Three
  <2>1. Len(a.args) \in Int /\ Len(b.args) \in Int
    OBVIOUS
  <2> QED
    BY <2>1, SignIs
<1>6. CompareChildren(f, a, b) = IF F # {} THEN f[<<a.args[Least(F)], b.args[Least(F)]>>]
                                 ELSE Sign(Len(a.args), Len(b.args))
  BY DEF CompareChildren
<1>7. CompareChildren(g, a, b) = IF G # {} THEN g[<<a.args[Least(G)], b.args[Least(G)]>>]
                                 ELSE Sign(Len(a.args), Len(b.args))
  BY DEF CompareChildren
<1> HIDE DEF F, G, Three
<1> QED
  BY <1>2, <1>4, <1>5, <1>6, <1>7

-----------------------------------------------------------------------------
(* The recursions have solutions. *)

Summing(f, es, w) == f = [i \in 0 .. Len(es) |-> IF i = 0 THEN 0 ELSE f[i - 1] + w[es[i]]]

(* The weight of some terms. *)
LEMMA WeightOfAllIs ==
    ASSUME NEW S, NEW es \in Seq(S), NEW w, NEW v,
           \A i \in DOMAIN es : w[es[i]] \in Nat /\ w[es[i]] = v[es[i]]
    PROVE  WeightOfAll(es, w) \in Nat /\ WeightOfAll(es, w) = WeightOfAll(es, v)
<1> DEFINE n == Len(es)
           step == [q \in (1 .. n) \X Nat |-> q[2] + w[es[q[1]]]]
           sum == CHOOSE f : Summing(f, es, w)
<1>1. n \in Nat /\ DOMAIN es = 1 .. n
  OBVIOUS
<1>2. \A i \in 1 .. n, x \in Nat : step[<<i, x>>] = x + w[es[i]] /\ step[<<i, x>>] \in Nat
  BY <1>1
<1>3. PICK f : Repeating(f, n, 0, step) /\ \A i \in 0 .. n : f[i] \in Nat
  <2> HIDE DEF step, n
  <2>1. 0 \in Nat /\ \A i \in 1 .. n, x \in Nat : step[<<i, x>>] \in Nat
    BY <1>2
  <2> QED
    BY <1>1, <2>1, RepetitionExists
<1>4. Summing(f, es, w)
  <2> DEFINE F == [i \in 0 .. n |-> IF i = 0 THEN 0 ELSE step[<<i, f[i - 1]>>]]
             G == [i \in 0 .. n |-> IF i = 0 THEN 0 ELSE f[i - 1] + w[es[i]]]
  <2>1. f = F
    BY <1>3 DEF Repeating
  <2>2. ASSUME NEW i \in 0 .. n, i # 0 PROVE step[<<i, f[i - 1]>>] = f[i - 1] + w[es[i]]
    <3>1. i \in 1 .. n /\ i - 1 \in 0 .. n
      BY <1>1, <2>2
    <3>2. f[i - 1] \in Nat
      BY <1>3, <3>1
    <3> HIDE DEF step
    <3> QED
      BY <1>2, <3>1, <3>2
  <2>3. F = G
    <3> HIDE DEF step
    <3> QED
      BY <2>2
  <2> QED
    BY <2>1, <2>3 DEF Summing
<1>5. Summing(sum, es, w)
  BY <1>4
<1>6. sum[0] = 0 /\ \A i \in 1 .. n : sum[i] = sum[i - 1] + w[es[i]]
  <2> DEFINE G == [i \in 0 .. n |-> IF i = 0 THEN 0 ELSE sum[i - 1] + w[es[i]]]
  <2>1. sum = G
    BY <1>5 DEF Summing
  <2> HIDE DEF sum
  <2>2. \A i \in 0 .. n : sum[i] = IF i = 0 THEN 0 ELSE sum[i - 1] + w[es[i]]
    BY <2>1
  <2> QED
    BY <1>1, <2>2
<1>7. 0 .. n \subseteq {i \in 0 .. n : sum[i] \in Nat}
  <2> DEFINE P == {i \in 0 .. n : sum[i] \in Nat}
  <2> HIDE DEF sum, n
  <2>1. 0 \in P
    BY <1>1, <1>6
  <2>2. ASSUME NEW i \in 1 .. n, i - 1 \in P PROVE i \in P
    <3>1. sum[i] = sum[i - 1] + w[es[i]] /\ i \in 0 .. n /\ i \in DOMAIN es
      BY <1>1, <1>6
    <3>2. w[es[i]] \in Nat /\ sum[i - 1] \in Nat
      BY <2>2, <3>1
    <3> QED
      BY <3>1, <3>2
  <2> HIDE DEF P
  <2>3. 0 .. n \subseteq P
    BY <1>1, <2>1, <2>2, RangeInduction
  <2> QED
    BY <2>3 DEF P
<1>8. sum[n] \in Nat
  BY <1>1, <1>7
<1>9. WeightOfAll(es, w) = sum[n]
  BY DEF WeightOfAll, Summing
<1>10. WeightOfAll(es, w) = WeightOfAll(es, v)
  <2>1. \A i \in 0 .. n : i # 0 => w[es[i]] = v[es[i]]
    BY <1>1
  <2>2. \A f2 : [i \in 0 .. n |-> IF i = 0 THEN 0 ELSE f2[i - 1] + w[es[i]]]
                  = [i \in 0 .. n |-> IF i = 0 THEN 0 ELSE f2[i - 1] + v[es[i]]]
    BY <2>1
  <2>3. \A f2 : Summing(f2, es, w) <=> Summing(f2, es, v)
    BY <2>2 DEF Summing
  <2>4. sum = CHOOSE f2 : Summing(f2, es, v)
    <3> HIDE DEF Summing
    <3> QED
      BY <2>3
  <2>5. WeightOfAll(es, v) = (CHOOSE f2 : Summing(f2, es, v))[n]
    BY DEF WeightOfAll, Summing
  <2> QED
    BY <1>9, <2>4, <2>5
<1> QED
  BY <1>8, <1>9, <1>10

(* Terms of the same weights one by one weigh the same together. *)
LEMMA WeighsTheSame ==
    ASSUME NEW S, NEW es \in Seq(S), NEW ds \in Seq(S), Len(es) = Len(ds), NEW w,
           \A i \in DOMAIN es : w[es[i]] = w[ds[i]]
    PROVE  WeightOfAll(es, w) = WeightOfAll(ds, w)
<1> DEFINE n == Len(es)
<1>1. n \in Nat /\ DOMAIN es = 1 .. n /\ n = Len(ds)
  OBVIOUS
<1>2. \A i \in 0 .. n : i # 0 => w[es[i]] = w[ds[i]]
  BY <1>1
<1> HIDE DEF n
<1>3. \A f : [i \in 0 .. n |-> IF i = 0 THEN 0 ELSE f[i - 1] + w[es[i]]]
               = [i \in 0 .. n |-> IF i = 0 THEN 0 ELSE f[i - 1] + w[ds[i]]]
  BY <1>2
<1>4. \A f : Summing(f, es, w) <=> Summing(f, ds, w)
  <2> SUFFICES ASSUME NEW f PROVE Summing(f, es, w) <=> Summing(f, ds, w)
    OBVIOUS
  <2>1. Summing(f, es, w) <=> f = [i \in 0 .. n |-> IF i = 0 THEN 0 ELSE f[i - 1] + w[es[i]]]
    BY DEF Summing, n
  <2>2. Summing(f, ds, w) <=> f = [i \in 0 .. n |-> IF i = 0 THEN 0 ELSE f[i - 1] + w[ds[i]]]
    BY <1>1 DEF Summing
  <2> QED
    BY <1>3, <2>1, <2>2
<1>5. (CHOOSE f : Summing(f, es, w)) = (CHOOSE f : Summing(f, ds, w))
  BY <1>4
<1>6. /\ WeightOfAll(es, w) = (CHOOSE f : Summing(f, es, w))[n]
      /\ WeightOfAll(ds, w) = (CHOOSE f : Summing(f, ds, w))[n]
  BY <1>1 DEF WeightOfAll, Summing, n
<1> QED
  BY <1>5, <1>6

Weighing(f) == f = [t \in Terms |-> 1 + WeightOfAll(t.args, f)]

(* The weight of a term is a number, one more than its children weigh together. *)
LEMMA WeightUnfolds ==
    \A t \in Terms : /\ Weight(t) \in Nat
                      /\ Weight(t) = 1 + WeightOfAll(t.args, [u \in Terms |-> Weight(u)])
<1> DEFINE D == Terms
           rank == [t \in D |-> Height(t)]
           step == [q \in D \X [D -> Nat] |-> 1 + WeightOfAll(q[1].args, q[2])]
           weight == CHOOSE f : Weighing(f)
<1>1. ASSUME NEW t \in D
      PROVE  /\ rank[t] \in Nat /\ rank[t] < MaxHeight + 1 /\ t.args \in Seq(D)
             /\ \A i \in DOMAIN t.args : t.args[i] \in D /\ rank[t.args[i]] < rank[t]
  BY TermIs, HeightAssumption
<1>2. ASSUME NEW t \in D, NEW f \in [D -> Nat]
      PROVE  step[<<t, f>>] = 1 + WeightOfAll(t.args, f) /\ step[<<t, f>>] \in Nat
  <2>1. \A i \in DOMAIN t.args : f[t.args[i]] \in Nat
    BY <1>1
  <2>2. WeightOfAll(t.args, f) \in Nat
    BY <1>1, <2>1, WeightOfAllIs
  <2> QED
    BY <2>2
<1>3. ASSUME NEW t \in D, NEW f \in [D -> Nat], NEW g \in [D -> Nat],
             \A q \in D : rank[q] < rank[t] => f[q] = g[q]
      PROVE  step[<<t, f>>] = step[<<t, g>>]
  <2>1. \A i \in DOMAIN t.args : f[t.args[i]] \in Nat /\ f[t.args[i]] = g[t.args[i]]
    BY <1>1, <1>3
  <2>2. WeightOfAll(t.args, f) = WeightOfAll(t.args, g)
    BY <1>1, <2>1, WeightOfAllIs
  <2> HIDE DEF step
  <2> QED
    BY <1>2, <2>2
<1>4. PICK f : Recursing(f, D, Nat, step)
  <2> HIDE DEF D, rank, step
  <2>1. Nat # {} /\ MaxHeight + 1 \in Nat
    BY HeightAssumption
  <2>2. \A t \in D : rank[t] \in Nat /\ rank[t] < MaxHeight + 1
    BY <1>1
  <2>3. \A t \in D, f \in [D -> Nat] : step[<<t, f>>] \in Nat
    BY <1>2
  <2>4. \A t \in D, f \in [D -> Nat], g \in [D -> Nat] :
            (\A q \in D : rank[q] < rank[t] => f[q] = g[q]) => step[<<t, f>>] = step[<<t, g>>]
    BY <1>3
  <2>5. Founded(D, Nat, MaxHeight + 1, rank, step)
    BY <2>2, <2>3, <2>4 DEF Founded
  <2> QED
    BY <2>1, <2>5, RecursionExists
<1>5. Weighing(f)
  <2>1. f \in [D -> Nat] /\ \A t \in D : f[t] = step[<<t, f>>]
    BY <1>4 DEF Recursing
  <2>2. \A t \in D : f[t] = 1 + WeightOfAll(t.args, f)
    <3> HIDE DEF step, D
    <3> QED
      BY <1>2, <2>1
  <2>3. f = [t \in D |-> f[t]]
    BY <2>1
  <2> DEFINE G == [t \in D |-> 1 + WeightOfAll(t.args, f)]
  <2>4. f = G
    BY <2>2, <2>3
  <2> QED
    BY <2>4 DEF Weighing
<1>6. Weighing(weight)
  BY <1>5
<1>7. \A t \in D : weight[t] = 1 + WeightOfAll(t.args, weight)
  <2> DEFINE G == [t \in D |-> 1 + WeightOfAll(t.args, weight)]
  <2>1. weight = G
    BY <1>6 DEF Weighing
  <2> HIDE DEF weight
  <2> QED
    BY <2>1
<1>8. D \subseteq {t \in D : weight[t] \in Nat}
  <2> DEFINE S == {t \in D : weight[t] \in Nat}
  <2> HIDE DEF weight, D, rank
  <2>1. ASSUME NEW t \in D, \A r \in D : rank[r] < rank[t] => r \in S PROVE t \in S
    <3>1. \A i \in DOMAIN t.args : weight[t.args[i]] \in Nat
      BY <1>1, <2>1
    <3>2. WeightOfAll(t.args, weight) \in Nat
      BY <1>1, <3>1, WeightOfAllIs
    <3> QED
      BY <1>7, <3>2
  <2> HIDE DEF S
  <2>2. \A t \in D : rank[t] \in Nat
    BY <1>1
  <2>3. D \subseteq S
    BY <2>1, <2>2, MeasureInduction
  <2> QED
    BY <2>3 DEF S
<1>9. \A t \in Terms : Weight(t) = weight[t]
  BY DEF Weight, Weighing
<1>10. ASSUME NEW t \in D PROVE weight[t] = 1 + WeightOfAll(t.args, [u \in Terms |-> Weight(u)])
  <2> DEFINE v == [u \in Terms |-> Weight(u)]
  <2> HIDE DEF weight, rank
  <2>1. \A u \in Terms : weight[u] \in Nat /\ weight[u] = v[u]
    BY <1>8, <1>9
  <2> HIDE DEF v
  <2>2. \A i \in DOMAIN t.args : weight[t.args[i]] \in Nat /\ weight[t.args[i]] = v[t.args[i]]
    BY <1>1, <2>1
  <2>3. WeightOfAll(t.args, weight) = WeightOfAll(t.args, v)
    BY <1>1, <2>2, WeightOfAllIs
  <2> QED
    BY <1>7, <2>3 DEF v
<1> HIDE DEF weight
<1> QED
  BY <1>8, <1>9, <1>10

LEMMA WeightIs == \A t \in Terms : Weight(t) \in Nat
  BY WeightUnfolds

-----------------------------------------------------------------------------
(* Comparisons that are orders. *)

\* A comparison of the members of S by a sign: turned round it changes the sign, and what is
\* not below is transitive.  It is an order if it tells all of them apart.
WeakOrder(c, S) ==
    /\ \A a, b \in S : c[<<a, b>>] \in Three /\ c[<<b, a>>] = -c[<<a, b>>]
    /\ \A a, b, d \in S : c[<<a, b>>] >= 0 /\ c[<<b, d>>] >= 0 => c[<<a, d>>] >= 0
Decides(c, S) == \A a, b \in S : c[<<a, b>>] = 0 => a = b

\* A comparison of those that c does not tell apart.
WeakWithin(c, d, S) ==
    /\ \A a, b \in S : c[<<a, b>>] = 0 => d[<<a, b>>] \in Three /\ d[<<b, a>>] = -d[<<a, b>>]
    /\ \A a, b, e \in S : /\ c[<<a, b>>] = 0 /\ c[<<b, e>>] = 0
                          /\ d[<<a, b>>] >= 0 /\ d[<<b, e>>] >= 0
                          => d[<<a, e>>] >= 0

(* What an order says of three members. *)
LEMMA WeakOrderIs ==
    ASSUME NEW c, NEW S, WeakOrder(c, S)
    PROVE  \A a, b, d \in S :
              /\ c[<<a, a>>] = 0
              /\ c[<<a, b>>] = 0 /\ c[<<b, d>>] = 0 => c[<<a, d>>] = 0
              /\ c[<<a, b>>] > 0 /\ c[<<b, d>>] >= 0 => c[<<a, d>>] > 0
              /\ c[<<a, b>>] >= 0 /\ c[<<b, d>>] > 0 => c[<<a, d>>] > 0
<1> SUFFICES ASSUME NEW a \in S, NEW b \in S, NEW d \in S
             PROVE  /\ c[<<a, a>>] = 0
                    /\ c[<<a, b>>] = 0 /\ c[<<b, d>>] = 0 => c[<<a, d>>] = 0
                    /\ c[<<a, b>>] > 0 /\ c[<<b, d>>] >= 0 => c[<<a, d>>] > 0
                    /\ c[<<a, b>>] >= 0 /\ c[<<b, d>>] > 0 => c[<<a, d>>] > 0
  OBVIOUS
<1> DEFINE C(x, y) == c[<<x, y>>]
<1>1. \A x, y \in S : C(x, y) \in Three /\ C(y, x) = -C(x, y)
  BY DEF WeakOrder
<1>2. \A x, y, z \in S : C(x, y) >= 0 /\ C(y, z) >= 0 => C(x, z) >= 0
  BY DEF WeakOrder
<1> HIDE DEF C
<1>3. C(a, a) = 0
  BY <1>1 DEF Three
<1>4. C(a, b) = 0 /\ C(b, d) = 0 => C(a, d) = 0
  <2>1. C(a, b) = 0 /\ C(b, d) = 0 => C(d, b) >= 0 /\ C(b, a) >= 0 /\ C(a, d) >= 0
    BY <1>1, <1>2
  <2>2. C(a, b) = 0 /\ C(b, d) = 0 => C(d, a) >= 0
    BY <1>2, <2>1
  <2> QED
    BY <1>1, <2>1, <2>2 DEF Three
<1>5. C(a, b) > 0 /\ C(b, d) >= 0 => C(a, d) > 0
  <2> SUFFICES ASSUME C(a, b) > 0, C(b, d) >= 0, ~(C(a, d) > 0) PROVE FALSE
    OBVIOUS
  <2>1. C(d, a) >= 0
    BY <1>1 DEF Three
  <2>2. C(b, a) >= 0
    BY <1>2, <2>1
  <2> QED
    BY <1>1, <2>2 DEF Three
<1>6. C(a, b) >= 0 /\ C(b, d) > 0 => C(a, d) > 0
  <2> SUFFICES ASSUME C(a, b) >= 0, C(b, d) > 0, ~(C(a, d) > 0) PROVE FALSE
    OBVIOUS
  <2>1. C(d, a) >= 0
    BY <1>1 DEF Three
  <2>2. C(d, b) >= 0
    BY <1>2, <2>1
  <2> QED
    BY <1>1, <2>2 DEF Three
<1> QED
  BY <1>3, <1>4, <1>5, <1>6 DEF C

(* Numbers that are given to the members order them. *)
LEMMA KeysOrder ==
    ASSUME NEW S, NEW key, \A a \in S : key[a] \in Int, NEW c,
           \A a, b \in S : c[<<a, b>>] = Sign(key[a], key[b])
    PROVE  WeakOrder(c, S)
<1>1. ASSUME NEW a \in S, NEW b \in S
      PROVE  /\ c[<<a, b>>] \in Three /\ c[<<b, a>>] = -c[<<a, b>>]
             /\ c[<<a, b>>] >= 0 <=> key[a] >= key[b]
  BY SignIs
<1>2. ASSUME NEW a \in S, NEW b \in S, NEW d \in S, c[<<a, b>>] >= 0, c[<<b, d>>] >= 0
      PROVE  c[<<a, d>>] >= 0
  <2>1. key[a] >= key[b] /\ key[b] >= key[d]
    BY <1>1, <1>2
  <2>2. key[a] >= key[d]
    BY <2>1
  <2> QED
    BY <1>1, <2>2
<1> QED
  BY <1>1, <1>2 DEF WeakOrder

(* An order, and where it does not decide another. *)
LEMMA ThenOrders ==
    ASSUME NEW S, NEW c, WeakOrder(c, S), NEW d, WeakWithin(c, d, S), NEW r,
           \A a, b \in S : r[<<a, b>>] = Then(c[<<a, b>>], d[<<a, b>>])
    PROVE  WeakOrder(r, S)
<1> DEFINE C(a, b) == c[<<a, b>>]
           D(a, b) == d[<<a, b>>]
           R(a, b) == r[<<a, b>>]
<1>1. \A a, b \in S : C(a, b) \in Three /\ C(b, a) = -C(a, b)
  BY DEF WeakOrder
<1>2. \A a, b \in S : C(a, b) = 0 => D(a, b) \in Three /\ D(b, a) = -D(a, b)
  BY DEF WeakWithin
<1>3. \A a, b, e \in S : C(a, b) = 0 /\ C(b, e) = 0 /\ D(a, b) >= 0 /\ D(b, e) >= 0 => D(a, e) >= 0
  BY DEF WeakWithin
<1>4. \A a, b, e \in S : /\ C(a, b) = 0 /\ C(b, e) = 0 => C(a, e) = 0
                         /\ C(a, b) > 0 /\ C(b, e) >= 0 => C(a, e) > 0
                         /\ C(a, b) >= 0 /\ C(b, e) > 0 => C(a, e) > 0
  <2>1. \A a, b, e \in S : /\ c[<<a, a>>] = 0
                           /\ c[<<a, b>>] = 0 /\ c[<<b, e>>] = 0 => c[<<a, e>>] = 0
                           /\ c[<<a, b>>] > 0 /\ c[<<b, e>>] >= 0 => c[<<a, e>>] > 0
                           /\ c[<<a, b>>] >= 0 /\ c[<<b, e>>] > 0 => c[<<a, e>>] > 0
    BY WeakOrderIs
  <2> QED
    BY <2>1
<1>5. \A a, b \in S : R(a, b) = IF C(a, b) # 0 THEN C(a, b) ELSE D(a, b)
  BY DEF Then
<1> HIDE DEF C, D, R
<1>6. ASSUME NEW a \in S, NEW b \in S PROVE R(a, b) \in Three /\ R(b, a) = -R(a, b)
  <2>1. C(a, b) \in Three /\ C(b, a) = -C(a, b)
    BY <1>1
  <2>2. C(a, b) = 0 => D(a, b) \in Three /\ D(b, a) = -D(a, b)
    BY <1>2
  <2>3. C(a, b) # 0 <=> C(b, a) # 0
    BY <2>1 DEF Three
  <2> QED
    BY <1>5, <2>1, <2>2, <2>3
<1>7. ASSUME NEW a \in S, NEW b \in S, R(a, b) >= 0
      PROVE  C(a, b) > 0 \/ (C(a, b) = 0 /\ D(a, b) >= 0)
  <2>1. C(a, b) \in Three
    BY <1>1
  <2>2. R(a, b) = IF C(a, b) # 0 THEN C(a, b) ELSE D(a, b)
    BY <1>5
  <2> QED
    BY <1>7, <2>1, <2>2 DEF Three
<1>8. ASSUME NEW a \in S, NEW b \in S, NEW e \in S, R(a, b) >= 0, R(b, e) >= 0
      PROVE  R(a, e) >= 0
  <2>1. C(a, b) > 0 \/ (C(a, b) = 0 /\ D(a, b) >= 0)
    BY <1>7, <1>8
  <2>2. C(b, e) > 0 \/ (C(b, e) = 0 /\ D(b, e) >= 0)
    BY <1>7, <1>8
  <2>3. C(a, b) \in Int /\ C(b, e) \in Int /\ C(a, e) \in Int
    BY <1>1 DEF Three
  <2>4. CASE C(a, b) > 0 \/ C(b, e) > 0
    <3>1. C(a, e) > 0
      BY <1>4, <2>1, <2>2, <2>3, <2>4
    <3> QED
      BY <1>5, <2>3, <3>1
  <2>5. CASE C(a, b) = 0 /\ C(b, e) = 0
    <3>1. C(a, e) = 0
      BY <1>4, <2>5
    <3>2. D(a, b) >= 0 /\ D(b, e) >= 0
      BY <2>1, <2>2, <2>5
    <3>3. D(a, e) >= 0
      BY <1>3, <2>5, <3>2
    <3> QED
      BY <1>5, <3>1, <3>3
  <2> QED
    BY <2>1, <2>2, <2>4, <2>5
<1> QED
  BY <1>6, <1>8 DEF WeakOrder, R

(* The functions are ordered by their precedence and then by their names. *)
LEMMA FunctionsOrdered ==
    LET c == [q \in Int \X Int |-> CompareFunctions(q[1], q[2])]
    IN  WeakOrder(c, Int) /\ Decides(c, Int)
<1> DEFINE key == [f \in Int |-> BuiltinPrecedence(f)]
           name == [f \in Int |-> f]
           p == [q \in Int \X Int |-> Sign(key[q[1]], key[q[2]])]
           d == [q \in Int \X Int |-> Sign(name[q[1]], name[q[2]])]
           c == [q \in Int \X Int |-> CompareFunctions(q[1], q[2])]
<1>1. \A f \in Int : key[f] \in Int /\ name[f] = f
  BY DEF BuiltinPrecedence
<1>2. \A f, g \in Int : p[<<f, g>>] = Sign(key[f], key[g]) /\ d[<<f, g>>] = Sign(name[f], name[g])
  OBVIOUS
<1>3. \A f, g \in Int : c[<<f, g>>] = Then(p[<<f, g>>], d[<<f, g>>])
  BY DEF CompareFunctions
<1> HIDE DEF key, name, p, d, c
<1>4. WeakOrder(p, Int) /\ WeakOrder(d, Int)
  BY <1>1, <1>2, KeysOrder
<1>5. WeakWithin(p, d, Int)
  BY <1>4 DEF WeakOrder, WeakWithin
<1>6. WeakOrder(c, Int)
  BY <1>3, <1>4, <1>5, ThenOrders
<1>7. \A f, g \in Int : c[<<f, g>>] = 0 => f = g
  BY <1>1, <1>2, <1>3, SignIs DEF Then
<1> QED
  BY <1>6, <1>7 DEF c, Decides

(* So are the operators of two operands. *)
LEMMA OperatorsOrdered ==
    WeakOrder([q \in Int \X Int |-> Then(Sign(BinaryPrecedence(q[1]), BinaryPrecedence(q[2])),
                                         Sign(q[1], q[2]))], Int)
<1> DEFINE key == [f \in Int |-> BinaryPrecedence(f)]
           name == [f \in Int |-> f]
           p == [q \in Int \X Int |-> Sign(key[q[1]], key[q[2]])]
           d == [q \in Int \X Int |-> Sign(name[q[1]], name[q[2]])]
           c == [q \in Int \X Int |-> Then(Sign(BinaryPrecedence(q[1]), BinaryPrecedence(q[2])),
                                           Sign(q[1], q[2]))]
<1>1. \A f \in Int : key[f] \in Int /\ name[f] \in Int
  BY DEF BinaryPrecedence
<1>2. \A f, g \in Int : p[<<f, g>>] = Sign(key[f], key[g]) /\ d[<<f, g>>] = Sign(name[f], name[g])
  OBVIOUS
<1>3. \A f, g \in Int : c[<<f, g>>] = Then(p[<<f, g>>], d[<<f, g>>])
  OBVIOUS
<1> HIDE DEF key, name, p, d, c
<1>4. WeakOrder(p, Int) /\ WeakOrder(d, Int)
  BY <1>1, <1>2, KeysOrder
<1>5. WeakWithin(p, d, Int)
  BY <1>4 DEF WeakOrder, WeakWithin
<1>6. WeakOrder(c, Int)
  BY <1>3, <1>4, <1>5, ThenOrders
<1> QED
  BY <1>6 DEF c

(* The names of the symbols and the values of the integers are ordered. *)
LEMMA TagsOrdered == WeakOrder([q \in Int \X Int |-> Sign(q[1], q[2])], Int)
<1> DEFINE key == [f \in Int |-> f]
           c == [q \in Int \X Int |-> Sign(q[1], q[2])]
<1>1. \A f \in Int : key[f] \in Int
  OBVIOUS
<1>2. \A f, g \in Int : c[<<f, g>>] = Sign(key[f], key[g])
  OBVIOUS
<1> HIDE DEF key, c
<1>3. WeakOrder(c, Int)
  BY <1>1, <1>2, KeysOrder
<1> QED
  BY <1>3 DEF c

-----------------------------------------------------------------------------
(* Pairs of terms. *)

Pairs    == Terms \X Terms
PairRank == [p \in Pairs |-> Height(p[1]) + Height(p[2])]
Above    == 2 * MaxHeight + 1

(* The pairs of children are lower than a pair, and so is a term with a child of the other. *)
LEMMA PairIs ==
    ASSUME NEW a \in Terms, NEW b \in Terms
    PROVE  /\ <<a, b>> \in Pairs /\ PairRank[<<a, b>>] \in Nat /\ PairRank[<<a, b>>] < Above
           /\ \A i \in DOMAIN a.args, j \in DOMAIN b.args :
                 /\ <<a.args[i], b.args[j]>> \in Pairs
                 /\ PairRank[<<a.args[i], b.args[j]>>] < PairRank[<<a, b>>]
           /\ \A i \in DOMAIN a.args :
                 <<a.args[i], b>> \in Pairs /\ PairRank[<<a.args[i], b>>] < PairRank[<<a, b>>]
           /\ \A j \in DOMAIN b.args :
                 <<a, b.args[j]>> \in Pairs /\ PairRank[<<a, b.args[j]>>] < PairRank[<<a, b>>]
<1>1. \A s, t \in Terms : <<s, t>> \in Pairs /\ PairRank[<<s, t>>] = Height(s) + Height(t)
  BY DEF Pairs, PairRank
<1>2. \A t \in Terms : Height(t) \in Nat /\ Height(t) <= MaxHeight
  BY TermIs
<1>3. /\ \A i \in DOMAIN a.args : a.args[i] \in Terms /\ Height(a.args[i]) < Height(a)
      /\ \A j \in DOMAIN b.args : b.args[j] \in Terms /\ Height(b.args[j]) < Height(b)
  BY TermIs
<1>4. PairRank[<<a, b>>] \in Nat /\ PairRank[<<a, b>>] < Above
  BY <1>1, <1>2, HeightAssumption DEF Above
<1>5. ASSUME NEW i \in DOMAIN a.args, NEW j \in DOMAIN b.args
      PROVE  /\ <<a.args[i], b.args[j]>> \in Pairs
             /\ PairRank[<<a.args[i], b.args[j]>>] < PairRank[<<a, b>>]
  <2> DEFINE s == a.args[i]
             t == b.args[j]
  <2>1. s \in Terms /\ t \in Terms /\ Height(s) < Height(a) /\ Height(t) < Height(b)
    BY <1>3
  <2>2. Height(s) \in Nat /\ Height(t) \in Nat /\ Height(a) \in Nat /\ Height(b) \in Nat
    BY <1>2, <2>1
  <2> HIDE DEF s, t
  <2>3. <<s, t>> \in Pairs /\ PairRank[<<s, t>>] < PairRank[<<a, b>>]
    BY <1>1, <2>1, <2>2
  <2> QED
    BY <2>3 DEF s, t
<1>6. ASSUME NEW i \in DOMAIN a.args
      PROVE  <<a.args[i], b>> \in Pairs /\ PairRank[<<a.args[i], b>>] < PairRank[<<a, b>>]
  <2> DEFINE s == a.args[i]
  <2>1. s \in Terms /\ Height(s) < Height(a)
    BY <1>3
  <2>2. Height(s) \in Nat /\ Height(a) \in Nat /\ Height(b) \in Nat
    BY <1>2, <2>1
  <2> HIDE DEF s
  <2>3. <<s, b>> \in Pairs /\ PairRank[<<s, b>>] < PairRank[<<a, b>>]
    BY <1>1, <2>1, <2>2
  <2> QED
    BY <2>3 DEF s
<1>7. ASSUME NEW j \in DOMAIN b.args
      PROVE  <<a, b.args[j]>> \in Pairs /\ PairRank[<<a, b.args[j]>>] < PairRank[<<a, b>>]
  <2> DEFINE t == b.args[j]
  <2>1. t \in Terms /\ Height(t) < Height(b)
    BY <1>3
  <2>2. Height(t) \in Nat /\ Height(a) \in Nat /\ Height(b) \in Nat
    BY <1>2, <2>1
  <2> HIDE DEF t
  <2>3. <<a, t>> \in Pairs /\ PairRank[<<a, t>>] < PairRank[<<a, b>>]
    BY <1>1, <2>1, <2>2
  <2> QED
    BY <2>3 DEF t
<1>8. <<a, b>> \in Pairs
  BY <1>1
<1> QED
  BY <1>4, <1>5, <1>6, <1>7, <1>8

-----------------------------------------------------------------------------
(* A comparison, then the children, then another comparison. *)

Ahead(f, before, after, p) ==
    IF p[1] = p[2] THEN 0
    ELSE Then(before[p], Then(CompareChildren(f, p[1], p[2]), after[p]))
Lexicographic(f, before, after) == f = [p \in Pairs |-> Ahead(f, before, after, p)]

(* Its equation has a solution. *)
LEMMA LexicographicExists ==
    ASSUME NEW before, NEW after, \A p \in Pairs : before[p] \in Three /\ after[p] \in Three
    PROVE  \E f : Lexicographic(f, before, after)
<1> DEFINE step == [q \in Pairs \X [Pairs -> Three] |-> Ahead(q[2], before, after, q[1])]
<1>1. \A p \in Pairs, f \in [Pairs -> Three] : step[<<p, f>>] = Ahead(f, before, after, p)
  OBVIOUS
<1>2. ASSUME NEW p \in Pairs, NEW f \in [Pairs -> Three], NEW g \in [Pairs -> Three],
             \A q \in Pairs : PairRank[q] < PairRank[p] => f[q] = g[q]
      PROVE  Ahead(f, before, after, p) \in Three /\ Ahead(f, before, after, p) = Ahead(g, before, after, p)
  <2> DEFINE a == p[1]
             b == p[2]
  <2>1. a \in Terms /\ b \in Terms /\ p = <<a, b>>
    BY DEF Pairs
  <2>2. a.args \in Seq(Terms) /\ b.args \in Seq(Terms)
    BY <2>1, TermIs
  <2>3. \A i \in DOMAIN a.args, j \in DOMAIN b.args :
            /\ <<a.args[i], b.args[j]>> \in Pairs
            /\ PairRank[<<a.args[i], b.args[j]>>] < PairRank[p]
    <3> HIDE DEF a, b
    <3> QED
      BY <2>1, PairIs
  <2> HIDE DEF a, b, Three
  <2>4. \A i \in DOMAIN a.args, j \in DOMAIN b.args :
            /\ f[<<a.args[i], b.args[j]>>] \in Three
            /\ f[<<a.args[i], b.args[j]>>] = g[<<a.args[i], b.args[j]>>]
    BY <1>2, <2>3
  <2>5. /\ CompareChildren(f, a, b) \in Three
        /\ CompareChildren(f, a, b) = CompareChildren(g, a, b)
    BY <2>2, <2>4, ChildrenCompared
  <2>6. 0 \in Three /\ before[p] \in Three /\ after[p] \in Three
    BY DEF Three
  <2> QED
    BY <2>5, <2>6 DEF Ahead, Then, a, b
<1>3. Founded(Pairs, Three, Above, PairRank, step)
  <2> HIDE DEF step, Three
  <2>1. \A p \in Pairs : PairRank[p] \in Nat /\ PairRank[p] < Above
    <3> SUFFICES ASSUME NEW p \in Pairs PROVE PairRank[p] \in Nat /\ PairRank[p] < Above
      OBVIOUS
    <3>1. p[1] \in Terms /\ p[2] \in Terms /\ p = <<p[1], p[2]>>
      BY DEF Pairs
    <3> QED
      BY <3>1, PairIs
  <2>2. \A p \in Pairs, f \in [Pairs -> Three] : step[<<p, f>>] \in Three
    BY <1>1, <1>2
  <2>3. \A p \in Pairs, f \in [Pairs -> Three], g \in [Pairs -> Three] :
            (\A q \in Pairs : PairRank[q] < PairRank[p] => f[q] = g[q]) => step[<<p, f>>] = step[<<p, g>>]
    BY <1>1, <1>2
  <2> QED
    BY <2>1, <2>2, <2>3 DEF Founded
<1>4. PICK f : Recursing(f, Pairs, Three, step)
  <2>1. Above \in Nat /\ Three # {}
    BY HeightAssumption DEF Above, Three
  <2> HIDE DEF step, Three
  <2> QED
    BY <1>3, <2>1, RecursionExists
<1>5. f \in [Pairs -> Three] /\ \A p \in Pairs : f[p] = Ahead(f, before, after, p)
  <2>1. f \in [Pairs -> Three] /\ \A p \in Pairs : f[p] = step[<<p, f>>]
    BY <1>4 DEF Recursing
  <2> HIDE DEF step
  <2> QED
    BY <1>1, <2>1
<1> DEFINE F == [p \in Pairs |-> Ahead(f, before, after, p)]
<1>6. f = F
  <2>1. f = [p \in Pairs |-> f[p]]
    BY <1>5
  <2> QED
    BY <1>5, <2>1
<1> QED
  BY <1>6 DEF Lexicographic

-----------------------------------------------------------------------------
(* The children one by one, in an order. *)

\* Two terms part first at a child, or tie as far as both have children.
PartAt(c, a, b, i) ==
    /\ i \in DOMAIN a.args \cap DOMAIN b.args
    /\ \A j \in 1 .. i - 1 : c[<<a.args[j], b.args[j]>>] = 0
    /\ c[<<a.args[i], b.args[i]>>] # 0
Tie(c, a, b) == \A j \in DOMAIN a.args \cap DOMAIN b.args : c[<<a.args[j], b.args[j]>>] = 0

FirstDecides(c, a, b) ==
    /\ (\E i : PartAt(c, a, b, i)) \/ Tie(c, a, b)
    /\ \A i : PartAt(c, a, b, i) => CompareChildren(c, a, b) = c[<<a.args[i], b.args[i]>>]
    /\ Tie(c, a, b) => CompareChildren(c, a, b) = Sign(Len(a.args), Len(b.args))

(* Where the children part first, they decide. *)
LEMMA ChildrenAt ==
    ASSUME NEW c, NEW S, NEW a, NEW b, a.args \in Seq(S), b.args \in Seq(S)
    PROVE  FirstDecides(c, a, b)
<1> DEFINE n == Shorter(a, b)
           C(i) == c[<<a.args[i], b.args[i]>>]
           E == {i \in 1 .. n : C(i) # 0}
<1>1. /\ n \in Nat /\ n <= Len(a.args) /\ n <= Len(b.args)
      /\ n = Len(a.args) \/ n = Len(b.args)
      /\ \A F \in SUBSET (1 .. n) : F # {} => Least(F) \in F /\ \A i \in F : Least(F) <= i
      /\ \A F \in SUBSET (1 .. n), f \in 1 .. n : f \in F /\ (\A i \in F : f <= i) => Least(F) = f
  BY FirstDifference
<1>2. /\ Len(a.args) \in Nat /\ DOMAIN a.args = 1 .. Len(a.args)
      /\ Len(b.args) \in Nat /\ DOMAIN b.args = 1 .. Len(b.args)
  OBVIOUS
<1>3. CompareChildren(c, a, b) = IF E # {} THEN C(Least(E)) ELSE Sign(Len(a.args), Len(b.args))
  BY DEF CompareChildren
<1> HIDE DEF n, C
<1>4. DOMAIN a.args \cap DOMAIN b.args = 1 .. n
  BY <1>1, <1>2
<1>5. E \in SUBSET (1 .. n)
  OBVIOUS
<1>6. ASSUME NEW i \in 1 .. n, \A j \in 1 .. i - 1 : C(j) = 0, C(i) # 0
      PROVE  E # {} /\ Least(E) = i
  <2>1. i \in E
    BY <1>6
  <2>2. \A j \in E : i <= j
    BY <1>1, <1>6
  <2> HIDE DEF E
  <2> QED
    BY <1>1, <1>5, <2>1, <2>2
<1>7. ASSUME E # {}
      PROVE  LET i == Least(E) IN i \in 1 .. n /\ (\A j \in 1 .. i - 1 : C(j) = 0) /\ C(i) # 0
  <2>1. Least(E) \in E /\ \A i \in E : Least(E) <= i
    <3> HIDE DEF E
    <3> QED
      BY <1>1, <1>5, <1>7
  <2>2. \A j \in 1 .. Least(E) - 1 : j \in 1 .. n /\ j \notin E
    BY <1>1, <2>1
  <2> QED
    BY <2>1, <2>2
<1>8. (\A j \in 1 .. n : C(j) = 0) <=> E = {}
  OBVIOUS
<1>9. \A i : PartAt(c, a, b, i) <=> i \in 1 .. n /\ (\A j \in 1 .. i - 1 : C(j) = 0) /\ C(i) # 0
  BY <1>4 DEF PartAt, C
<1>10. Tie(c, a, b) <=> \A j \in 1 .. n : C(j) = 0
  BY <1>4 DEF Tie, C
<1> HIDE DEF E
<1>11. (\E i : PartAt(c, a, b, i)) \/ Tie(c, a, b)
  BY <1>7, <1>8, <1>9, <1>10
<1>12. ASSUME NEW i, PartAt(c, a, b, i) PROVE CompareChildren(c, a, b) = c[<<a.args[i], b.args[i]>>]
  BY <1>3, <1>6, <1>9, <1>12 DEF C
<1>13. Tie(c, a, b) => CompareChildren(c, a, b) = Sign(Len(a.args), Len(b.args))
  BY <1>3, <1>8, <1>10
<1> QED
  BY <1>11, <1>12, <1>13 DEF FirstDecides

ChildrenTie(c, a, b) ==
    Len(a.args) = Len(b.args) /\ \A i \in DOMAIN a.args : c[<<a.args[i], b.args[i]>>] = 0

(* Children that are ordered order those who have them. *)
LEMMA ChildrenOrder ==
    ASSUME NEW c, NEW U, WeakOrder(c, U), NEW S, \A a \in S : a.args \in Seq(U),
           NEW r, \A a, b \in S : r[<<a, b>>] = CompareChildren(c, a, b)
    PROVE  WeakOrder(r, S) /\ \A a, b \in S : r[<<a, b>>] = 0 <=> ChildrenTie(c, a, b)
<1> DEFINE C(s, t) == c[<<s, t>>]
           R(a, b) == r[<<a, b>>]
           P(a, b, i) == PartAt(c, a, b, i)
           T(a, b) == Tie(c, a, b)
<1>1. ASSUME NEW a \in S, NEW b \in S
      PROVE  /\ (\E i : P(a, b, i)) \/ T(a, b)
             /\ \A i : P(a, b, i) => R(a, b) = C(a.args[i], b.args[i])
             /\ T(a, b) => R(a, b) = Sign(Len(a.args), Len(b.args))
  <2>1. a.args \in Seq(U) /\ b.args \in Seq(U) /\ r[<<a, b>>] = CompareChildren(c, a, b)
    OBVIOUS
  <2> HIDE DEF C, R, P, T
  <2>2. FirstDecides(c, a, b)
    BY <2>1, ChildrenAt
  <2> QED
    BY <2>1, <2>2 DEF FirstDecides, C, R, P, T
<1>2. /\ \A s, t \in U : C(s, t) \in Three /\ C(t, s) = -C(s, t)
      /\ \A s, t, u \in U : C(s, t) >= 0 /\ C(t, u) >= 0 => C(s, u) >= 0
  BY DEF WeakOrder
<1>3. \A s, t, u \in U : /\ C(s, t) = 0 /\ C(t, u) = 0 => C(s, u) = 0
                         /\ C(s, t) > 0 /\ C(t, u) >= 0 => C(s, u) > 0
                         /\ C(s, t) >= 0 /\ C(t, u) > 0 => C(s, u) > 0
  <2>1. \A s, t, u \in U : /\ c[<<s, s>>] = 0
                           /\ c[<<s, t>>] = 0 /\ c[<<t, u>>] = 0 => c[<<s, u>>] = 0
                           /\ c[<<s, t>>] > 0 /\ c[<<t, u>>] >= 0 => c[<<s, u>>] > 0
                           /\ c[<<s, t>>] >= 0 /\ c[<<t, u>>] > 0 => c[<<s, u>>] > 0
    BY WeakOrderIs
  <2> QED
    BY <2>1
<1>4. ASSUME NEW a \in S
      PROVE  /\ Len(a.args) \in Nat /\ DOMAIN a.args = 1 .. Len(a.args)
             /\ \A i \in DOMAIN a.args : a.args[i] \in U
  <2>1. a.args \in Seq(U)
    OBVIOUS
  <2> QED
    BY <2>1
<1>5. ASSUME NEW a \in S, NEW b \in S, NEW i
      PROVE  P(a, b, i) <=> /\ i \in DOMAIN a.args /\ i \in DOMAIN b.args
                            /\ \A j \in 1 .. i - 1 : C(a.args[j], b.args[j]) = 0
                            /\ C(a.args[i], b.args[i]) # 0
  BY DEF PartAt
<1>6. ASSUME NEW a \in S, NEW b \in S
      PROVE  T(a, b) <=> \A j \in DOMAIN a.args \cap DOMAIN b.args : C(a.args[j], b.args[j]) = 0
  BY DEF Tie
<1> HIDE DEF C, R, P, T
<1>7. \A s, t \in U : C(s, t) = 0 <=> C(t, s) = 0
  BY <1>2 DEF Three
<1>8. ASSUME NEW a \in S, NEW b \in S, NEW i, P(a, b, i)
      PROVE  /\ i \in DOMAIN a.args /\ i \in DOMAIN b.args /\ i \in Nat /\ a.args[i] \in U /\ b.args[i] \in U
             /\ \A j \in 1 .. i - 1 : /\ j \in DOMAIN a.args /\ j \in DOMAIN b.args
                                      /\ C(a.args[j], b.args[j]) = 0
             /\ C(a.args[i], b.args[i]) # 0 /\ R(a, b) = C(a.args[i], b.args[i])
  <2>1. /\ i \in DOMAIN a.args /\ i \in DOMAIN b.args
        /\ \A j \in 1 .. i - 1 : C(a.args[j], b.args[j]) = 0
        /\ C(a.args[i], b.args[i]) # 0 /\ R(a, b) = C(a.args[i], b.args[i])
    BY <1>1, <1>5, <1>8
  <2>2. i \in Nat /\ \A j \in 1 .. i - 1 : j \in DOMAIN a.args /\ j \in DOMAIN b.args
    BY <1>4, <2>1
  <2> QED
    BY <1>4, <2>1, <2>2
<1>9. ASSUME NEW a \in S, NEW b \in S
      PROVE  R(a, b) \in Three /\ R(b, a) = -R(a, b)
  <2>1. ASSUME NEW i, P(a, b, i) PROVE R(a, b) \in Three /\ R(b, a) = -R(a, b)
    <3>1. P(b, a, i)
      <4>1. \A j \in 1 .. i - 1 : C(b.args[j], a.args[j]) = 0
        BY <1>4, <1>7, <1>8, <2>1
      <4>2. C(b.args[i], a.args[i]) # 0
        BY <1>7, <1>8, <2>1
      <4> QED
        BY <1>5, <1>8, <2>1, <4>1, <4>2
    <3>2. R(a, b) = C(a.args[i], b.args[i]) /\ R(b, a) = C(b.args[i], a.args[i])
      BY <1>1, <2>1, <3>1
    <3>3. a.args[i] \in U /\ b.args[i] \in U
      BY <1>8, <2>1
    <3> QED
      BY <1>2, <3>2, <3>3
  <2>2. ASSUME T(a, b) PROVE R(a, b) \in Three /\ R(b, a) = -R(a, b)
    <3>1. T(b, a)
      <4>1. \A j \in DOMAIN a.args \cap DOMAIN b.args : C(b.args[j], a.args[j]) = 0
        BY <1>4, <1>6, <1>7, <2>2
      <4> QED
        BY <1>6, <4>1
    <3>2. R(a, b) = Sign(Len(a.args), Len(b.args)) /\ R(b, a) = Sign(Len(b.args), Len(a.args))
      BY <1>1, <2>2, <3>1
    <3> QED
      BY <1>4, <3>2, SignIs
  <2> QED
    BY <1>1, <2>1, <2>2
<1>10. ASSUME NEW a \in S, NEW b \in S, T(a, b), R(a, b) >= 0 PROVE Len(a.args) >= Len(b.args)
  BY <1>1, <1>4, <1>10, SignIs
\* Three terms tie at a child that two pairs of them tie at.
<1>11. ASSUME NEW a \in S, NEW b \in S, NEW d \in S, NEW k,
              k \in DOMAIN a.args, k \in DOMAIN b.args, k \in DOMAIN d.args,
              C(a.args[k], b.args[k]) = 0, C(b.args[k], d.args[k]) = 0
       PROVE  C(a.args[k], d.args[k]) = 0
  <2>1. a.args[k] \in U /\ b.args[k] \in U /\ d.args[k] \in U
    BY <1>4, <1>11
  <2> QED
    BY <1>3, <1>11, <2>1
<1>12. ASSUME NEW a \in S, NEW b \in S, NEW d \in S, R(a, b) >= 0, R(b, d) >= 0
       PROVE  R(a, d) >= 0
  \* The first place where a and b, or b and d, part, and the third has a child there.
  <2>1. ASSUME NEW i, i \in DOMAIN a.args, i \in DOMAIN b.args, i \in DOMAIN d.args,
               \A k \in 1 .. i - 1 : /\ k \in DOMAIN a.args /\ k \in DOMAIN b.args /\ k \in DOMAIN d.args
                                     /\ C(a.args[k], b.args[k]) = 0 /\ C(b.args[k], d.args[k]) = 0,
               C(a.args[i], b.args[i]) >= 0, C(b.args[i], d.args[i]) >= 0,
               C(a.args[i], b.args[i]) # 0 \/ C(b.args[i], d.args[i]) # 0
        PROVE  R(a, d) >= 0
    <3>1. a.args[i] \in U /\ b.args[i] \in U /\ d.args[i] \in U
      BY <1>4, <2>1
    <3>2. C(a.args[i], d.args[i]) > 0
      <4>1. C(a.args[i], b.args[i]) \in Three /\ C(b.args[i], d.args[i]) \in Three
        BY <1>2, <3>1
      <4>2. C(a.args[i], b.args[i]) > 0 \/ C(b.args[i], d.args[i]) > 0
        BY <2>1, <4>1 DEF Three
      <4> QED
        BY <1>3, <2>1, <3>1, <4>2
    <3>3. \A k \in 1 .. i - 1 : C(a.args[k], d.args[k]) = 0
      BY <1>11, <2>1
    <3>4. C(a.args[i], d.args[i]) \in Three
      BY <1>2, <3>1
    <3>5. C(a.args[i], d.args[i]) # 0 /\ C(a.args[i], d.args[i]) >= 0
      BY <3>2, <3>4 DEF Three
    <3>6. P(a, d, i)
      BY <1>5, <2>1, <3>3, <3>5
    <3> QED
      BY <1>1, <3>5, <3>6
  <2>2. ASSUME NEW i, P(a, b, i), NEW j, P(b, d, j) PROVE R(a, d) >= 0
    <3>1. /\ R(a, b) = C(a.args[i], b.args[i]) /\ R(b, d) = C(b.args[j], d.args[j])
          /\ i \in DOMAIN a.args /\ i \in DOMAIN b.args /\ j \in DOMAIN b.args /\ j \in DOMAIN d.args
          /\ i \in Nat /\ j \in Nat
          /\ C(a.args[i], b.args[i]) # 0 /\ C(b.args[j], d.args[j]) # 0
      BY <1>8, <2>2
    <3>2. /\ \A k \in 1 .. i - 1 : /\ k \in DOMAIN a.args /\ k \in DOMAIN b.args
                                   /\ C(a.args[k], b.args[k]) = 0
          /\ \A k \in 1 .. j - 1 : /\ k \in DOMAIN b.args /\ k \in DOMAIN d.args
                                   /\ C(b.args[k], d.args[k]) = 0
      BY <1>8, <2>2
    <3>3. CASE i < j
      <4>1. i \in 1 .. j - 1
        BY <1>4, <3>1, <3>3
      <4>2. i \in DOMAIN d.args /\ C(b.args[i], d.args[i]) = 0
        BY <3>2, <4>1
      <4>3. \A k \in 1 .. i - 1 : k \in 1 .. j - 1
        BY <3>1, <3>3
      <4>4. C(a.args[i], b.args[i]) >= 0 /\ C(b.args[i], d.args[i]) >= 0
        BY <1>12, <3>1, <4>2
      <4> QED
        BY <2>1, <3>1, <3>2, <4>2, <4>3, <4>4
    <3>4. CASE j < i
      <4>1. j \in 1 .. i - 1
        BY <1>4, <3>1, <3>4
      <4>2. j \in DOMAIN a.args /\ C(a.args[j], b.args[j]) = 0
        BY <3>2, <4>1
      <4>3. \A k \in 1 .. j - 1 : k \in 1 .. i - 1
        BY <3>1, <3>4
      <4>4. C(a.args[j], b.args[j]) >= 0 /\ C(b.args[j], d.args[j]) >= 0
        BY <1>12, <3>1, <4>2
      <4> QED
        BY <2>1, <3>1, <3>2, <4>2, <4>3, <4>4
    <3>5. CASE i = j
      <4>1. C(a.args[i], b.args[i]) >= 0 /\ C(b.args[i], d.args[i]) >= 0
        BY <1>12, <3>1, <3>5
      <4> QED
        BY <2>1, <3>1, <3>2, <3>5, <4>1
    <3> QED
      BY <3>1, <3>3, <3>4, <3>5
  <2>3. ASSUME NEW i, P(a, b, i), T(b, d) PROVE R(a, d) >= 0
    <3>1. /\ R(a, b) = C(a.args[i], b.args[i]) /\ i \in DOMAIN a.args /\ i \in DOMAIN b.args /\ i \in Nat
          /\ C(a.args[i], b.args[i]) # 0
          /\ \A k \in 1 .. i - 1 : /\ k \in DOMAIN a.args /\ k \in DOMAIN b.args
                                   /\ C(a.args[k], b.args[k]) = 0
      BY <1>8, <2>3
    <3>2. /\ Len(b.args) >= Len(d.args)
          /\ \A k \in DOMAIN b.args \cap DOMAIN d.args : C(b.args[k], d.args[k]) = 0
      BY <1>6, <1>10, <1>12, <2>3
    <3>3. CASE i \in DOMAIN d.args
      <4>1. \A k \in 1 .. i - 1 : k \in DOMAIN d.args /\ C(b.args[k], d.args[k]) = 0
        BY <1>4, <3>1, <3>2, <3>3
      <4>2. C(a.args[i], b.args[i]) >= 0 /\ C(b.args[i], d.args[i]) >= 0
        BY <1>12, <3>1, <3>2, <3>3
      <4> QED
        BY <2>1, <3>1, <3>3, <4>1, <4>2
    <3>4. CASE i \notin DOMAIN d.args
      <4>1. Len(d.args) < i /\ i <= Len(a.args)
        BY <1>4, <3>1, <3>4
      <4>2. ASSUME NEW k \in DOMAIN a.args \cap DOMAIN d.args PROVE C(a.args[k], d.args[k]) = 0
        <5>1. k \in 1 .. i - 1 /\ k \in DOMAIN b.args /\ k \in DOMAIN d.args
          BY <1>4, <3>1, <4>1
        <5> QED
          BY <1>11, <3>1, <3>2, <5>1
      <4>3. R(a, d) = Sign(Len(a.args), Len(d.args))
        BY <1>1, <1>6, <4>2
      <4> QED
        BY <1>4, <3>1, <4>1, <4>3, SignIs
    <3> QED
      BY <3>3, <3>4
  <2>4. ASSUME T(a, b), NEW j, P(b, d, j) PROVE R(a, d) >= 0
    <3>1. /\ R(b, d) = C(b.args[j], d.args[j]) /\ j \in DOMAIN b.args /\ j \in DOMAIN d.args /\ j \in Nat
          /\ C(b.args[j], d.args[j]) # 0
          /\ \A k \in 1 .. j - 1 : /\ k \in DOMAIN b.args /\ k \in DOMAIN d.args
                                   /\ C(b.args[k], d.args[k]) = 0
      BY <1>8, <2>4
    <3>2. /\ Len(a.args) >= Len(b.args)
          /\ \A k \in DOMAIN a.args \cap DOMAIN b.args : C(a.args[k], b.args[k]) = 0
      BY <1>6, <1>10, <1>12, <2>4
    <3>3. j \in DOMAIN a.args /\ \A k \in 1 .. j - 1 : k \in DOMAIN a.args
      BY <1>4, <3>1, <3>2
    <3>4. C(a.args[j], b.args[j]) >= 0 /\ C(b.args[j], d.args[j]) >= 0
      BY <1>12, <3>1, <3>2, <3>3
    <3>5. \A k \in 1 .. j - 1 : C(a.args[k], b.args[k]) = 0
      BY <3>1, <3>2, <3>3
    <3> QED
      BY <2>1, <3>1, <3>3, <3>4, <3>5
  <2>5. ASSUME T(a, b), T(b, d) PROVE R(a, d) >= 0
    <3>1. Len(a.args) >= Len(b.args) /\ Len(b.args) >= Len(d.args)
      BY <1>10, <1>12, <2>5
    <3>2. ASSUME NEW k \in DOMAIN a.args \cap DOMAIN d.args PROVE C(a.args[k], d.args[k]) = 0
      <4>1. k \in DOMAIN b.args
        BY <1>4, <3>1
      <4>2. C(a.args[k], b.args[k]) = 0 /\ C(b.args[k], d.args[k]) = 0
        BY <1>6, <2>5, <4>1
      <4> QED
        BY <1>11, <4>1, <4>2
    <3>3. R(a, d) = Sign(Len(a.args), Len(d.args))
      BY <1>1, <1>6, <3>2
    <3> QED
      BY <1>4, <3>1, <3>3, SignIs
  <2>6. (\E i : P(a, b, i)) \/ T(a, b)
    BY <1>1
  <2>7. (\E j : P(b, d, j)) \/ T(b, d)
    BY <1>1
  <2> QED
    BY <2>2, <2>3, <2>4, <2>5, <2>6, <2>7
<1>13. ASSUME NEW a \in S, NEW b \in S
       PROVE  R(a, b) = 0 <=>
                 Len(a.args) = Len(b.args) /\ \A i \in DOMAIN a.args : C(a.args[i], b.args[i]) = 0
  <2>1. ASSUME R(a, b) = 0
        PROVE  Len(a.args) = Len(b.args) /\ \A i \in DOMAIN a.args : C(a.args[i], b.args[i]) = 0
    <3>1. T(a, b)
      BY <1>1, <1>8, <2>1
    <3>2. Len(a.args) = Len(b.args)
      BY <1>1, <1>4, <2>1, <3>1, SignIs
    <3> QED
      BY <1>4, <1>6, <3>1, <3>2
  <2>2. ASSUME Len(a.args) = Len(b.args), \A i \in DOMAIN a.args : C(a.args[i], b.args[i]) = 0
        PROVE  R(a, b) = 0
    <3>1. T(a, b)
      BY <1>6, <2>2
    <3> QED
      BY <1>1, <1>4, <2>2, <3>1, SignIs
  <2> QED
    BY <2>1, <2>2
<1> QED
  BY <1>9, <1>12, <1>13 DEF WeakOrder, R, C, ChildrenTie

(* An order is one of fewer. *)
LEMMA WeakOrderOfFewer ==
    ASSUME NEW c, NEW S, NEW T \in SUBSET S, WeakOrder(c, S)
    PROVE  WeakOrder(c, T)
  BY DEF WeakOrder

(* An order is one of those that another comparison does not tell apart. *)
LEMMA WeakOrderWithin ==
    ASSUME NEW c, NEW d, NEW S, WeakOrder(d, S)
    PROVE  WeakWithin(c, d, S)
  BY DEF WeakOrder, WeakWithin

IndistinctStep(f, a, b) ==
    /\ a.kind = b.kind /\ Len(a.args) = Len(b.args)
    /\ a.kind \in Valueless \/ a.tag = b.tag
    /\ \A i \in DOMAIN a.args : f[<<a.args[i], b.args[i]>>]
IndistinctSolves(f) == f = [p \in Terms \X Terms |-> IndistinctStep(f, p[1], p[2])]

(* What two terms that no comparison tells apart have in common. *)
LEMMA IndistinctIs ==
    ASSUME NEW a \in Terms, NEW b \in Terms
    PROVE  Indistinct(a, b) <=> /\ a.kind = b.kind /\ Len(a.args) = Len(b.args)
                                /\ a.kind \in Valueless \/ a.tag = b.tag
                                /\ \A i \in DOMAIN a.args : Indistinct(a.args[i], b.args[i])
<1> DEFINE step == [q \in Pairs \X [Pairs -> BOOLEAN] |-> IndistinctStep(q[2], q[1][1], q[1][2])]
           same == CHOOSE f : IndistinctSolves(f)
<1>1. \A p \in Pairs, f \in [Pairs -> BOOLEAN] : step[<<p, f>>] = IndistinctStep(f, p[1], p[2])
  OBVIOUS
<1>2. ASSUME NEW p \in Pairs, NEW f \in [Pairs -> BOOLEAN], NEW g \in [Pairs -> BOOLEAN],
             \A q \in Pairs : PairRank[q] < PairRank[p] => f[q] = g[q]
      PROVE  IndistinctStep(f, p[1], p[2]) = IndistinctStep(g, p[1], p[2])
  <2> DEFINE s == p[1]
             t == p[2]
  <2>1. s \in Terms /\ t \in Terms /\ p = <<s, t>>
    BY DEF Pairs
  <2> HIDE DEF s, t
  <2>2. Len(s.args) = Len(t.args) =>
            \A i \in DOMAIN s.args : f[<<s.args[i], t.args[i]>>] = g[<<s.args[i], t.args[i]>>]
    <3>1. Len(s.args) = Len(t.args) => DOMAIN s.args = DOMAIN t.args
      BY <2>1, TermIs
    <3> QED
      BY <1>2, <2>1, <3>1, PairIs
  <2>3. IndistinctStep(f, s, t) <=> IndistinctStep(g, s, t)
    BY <2>2 DEF IndistinctStep
  <2>4. IndistinctStep(f, s, t) \in BOOLEAN /\ IndistinctStep(g, s, t) \in BOOLEAN
    BY DEF IndistinctStep
  <2> QED
    BY <2>3, <2>4 DEF s, t
<1>3. Founded(Pairs, BOOLEAN, Above, PairRank, step)
  <2> HIDE DEF step
  <2>1. \A p \in Pairs : PairRank[p] \in Nat /\ PairRank[p] < Above
    <3> SUFFICES ASSUME NEW p \in Pairs PROVE PairRank[p] \in Nat /\ PairRank[p] < Above
      OBVIOUS
    <3>1. p[1] \in Terms /\ p[2] \in Terms /\ p = <<p[1], p[2]>>
      BY DEF Pairs
    <3> QED
      BY <3>1, PairIs
  <2>2. \A p \in Pairs, f \in [Pairs -> BOOLEAN] : step[<<p, f>>] \in BOOLEAN
    BY <1>1 DEF IndistinctStep
  <2>3. \A p \in Pairs, f \in [Pairs -> BOOLEAN], g \in [Pairs -> BOOLEAN] :
            (\A q \in Pairs : PairRank[q] < PairRank[p] => f[q] = g[q]) => step[<<p, f>>] = step[<<p, g>>]
    BY <1>1, <1>2
  <2> QED
    BY <2>1, <2>2, <2>3 DEF Founded
<1>4. PICK f : Recursing(f, Pairs, BOOLEAN, step)
  <2>1. Above \in Nat
    BY HeightAssumption DEF Above
  <2>2. TRUE \in BOOLEAN
    OBVIOUS
  <2> HIDE DEF step
  <2> QED
    BY <1>3, <2>1, <2>2, RecursionExists
<1>5. f \in [Pairs -> BOOLEAN] /\ \A p \in Pairs : f[p] = IndistinctStep(f, p[1], p[2])
  <2>1. f \in [Pairs -> BOOLEAN] /\ \A p \in Pairs : f[p] = step[<<p, f>>]
    BY <1>4 DEF Recursing
  <2> HIDE DEF step
  <2> QED
    BY <1>1, <2>1
<1>6. IndistinctSolves(f)
  <2> DEFINE F == [p \in Pairs |-> IndistinctStep(f, p[1], p[2])]
  <2>1. f = [p \in Pairs |-> f[p]]
    BY <1>5
  <2>2. f = F
    BY <1>5, <2>1
  <2> QED
    BY <2>2 DEF IndistinctSolves, Pairs
<1>7. IndistinctSolves(same)
  BY <1>6
<1>8. \A s, t : Indistinct(s, t) = same[<<s, t>>]
  BY DEF Indistinct, IndistinctSolves, IndistinctStep
<1> HIDE DEF same
<1>9. same[<<a, b>>] = IndistinctStep(same, a, b)
  <2> DEFINE F == [p \in Terms \X Terms |-> IndistinctStep(same, p[1], p[2])]
  <2>1. same = F
    BY <1>7 DEF IndistinctSolves
  <2>2. F[<<a, b>>] = IndistinctStep(same, a, b)
    OBVIOUS
  <2> HIDE DEF F
  <2> QED
    BY <2>1, <2>2
<1>10. Indistinct(a, b) = IndistinctStep(same, a, b)
  BY <1>8, <1>9
<1>11. (\A i \in DOMAIN a.args : same[<<a.args[i], b.args[i]>>])
          <=> \A i \in DOMAIN a.args : Indistinct(a.args[i], b.args[i])
  BY <1>8
<1> QED
  BY <1>10, <1>11 DEF IndistinctStep

\* A comparison tells all terms apart but those that no comparison does.
Distinguishes(c, S) == \A a, b \in S : c[<<a, b>>] = 0 <=> Indistinct(a, b)

\* Together with the children, two comparisons tell all terms apart but those.
Judging(before, after) ==
    \A a, b \in Terms : Indistinct(a, b) <=>
        /\ before[<<a, b>>] = 0 /\ after[<<a, b>>] = 0 /\ Len(a.args) = Len(b.args)
        /\ \A i \in DOMAIN a.args : Indistinct(a.args[i], b.args[i])

(* An order, then that of the children, then another order make an order of the terms. *)
LEMMA LexicographicIsOrder ==
    ASSUME NEW f, NEW before, NEW after, Lexicographic(f, before, after),
           WeakOrder(before, Terms), WeakOrder(after, Terms), Judging(before, after)
    PROVE  WeakOrder(f, Terms) /\ Distinguishes(f, Terms)
<1> DEFINE InOrder == {h \in 0 .. MaxHeight : WeakOrder(f, TermsUpTo(h)) /\ Distinguishes(f, TermsUpTo(h))}
<1>1. 0 \in InOrder
  <2>1. TermsUpTo(0) = {} /\ 0 \in 0 .. MaxHeight
    BY TermsAre, HeightAssumption
  <2>2. WeakOrder(f, {}) /\ Distinguishes(f, {})
    BY DEF WeakOrder, Distinguishes
  <2> QED
    BY <2>1, <2>2
<1>2. ASSUME NEW h \in 1 .. MaxHeight, h - 1 \in InOrder PROVE h \in InOrder
  <2> DEFINE U == TermsUpTo(h - 1)
             S == TermsUpTo(h)
             r == [p \in S \X S |-> CompareChildren(f, p[1], p[2])]
             w == [p \in S \X S |-> Then(r[p], after[p])]
  <2>1. h - 1 \in Nat /\ h \in Nat /\ (h - 1) + 1 = h /\ h \in 0 .. MaxHeight /\ h <= MaxHeight
    BY HeightAssumption
  <2>2. S = TermOver(U) /\ S \subseteq Terms
    BY <2>1, TermsAre, TermsGrow, HeightAssumption DEF Terms
  <2>3. WeakOrder(f, U) /\ Distinguishes(f, U)
    BY <1>2
  <2>4. \A a \in S : a.args \in Seq(U)
    BY <2>2 DEF TermOver
  <2> HIDE DEF U, S
  <2>5. \A a, b \in S : /\ r[<<a, b>>] = CompareChildren(f, a, b)
                        /\ w[<<a, b>>] = Then(r[<<a, b>>], after[<<a, b>>])
    OBVIOUS
  <2> HIDE DEF r, w
  <2>6. WeakOrder(r, S) /\ \A a, b \in S : r[<<a, b>>] = 0 <=> ChildrenTie(f, a, b)
    BY <2>3, <2>4, <2>5, ChildrenOrder
  <2>7. WeakOrder(before, S) /\ WeakOrder(after, S)
    BY <2>2, WeakOrderOfFewer
  <2>8. WeakWithin(r, after, S)
    BY <2>7, WeakOrderWithin
  <2>9. WeakOrder(w, S)
    BY <2>5, <2>6, <2>8, ThenOrders
  <2>10. WeakWithin(before, w, S)
    BY <2>9, WeakOrderWithin
  <2>11. ASSUME NEW a \in S PROVE before[<<a, a>>] = 0 /\ r[<<a, a>>] = 0 /\ after[<<a, a>>] = 0
    BY <2>6, <2>7, <2>11, WeakOrderIs
  <2>12. ASSUME NEW a \in S, NEW b \in S
         PROVE  f[<<a, b>>] = Then(before[<<a, b>>], w[<<a, b>>])
    <3>1. <<a, b>> \in Pairs
      BY <2>2 DEF Pairs
    <3>2. f[<<a, b>>] = Ahead(f, before, after, <<a, b>>)
      BY <3>1 DEF Lexicographic
    <3>3. CASE a # b
      BY <2>5, <3>2, <3>3 DEF Ahead
    <3>4. CASE a = b
      <4>1. f[<<a, b>>] = 0
        BY <3>2, <3>4 DEF Ahead
      <4>2. w[<<a, b>>] = 0
        BY <2>5, <2>11, <3>4 DEF Then
      <4> QED
        BY <2>11, <3>4, <4>1, <4>2 DEF Then
    <3> QED
      BY <3>3, <3>4
  <2>13. WeakOrder(f, S)
    BY <2>7, <2>10, <2>12, ThenOrders
  <2>14. ASSUME NEW a \in S, NEW b \in S PROVE f[<<a, b>>] = 0 <=> Indistinct(a, b)
    <3>1. f[<<a, b>>] = 0 <=> before[<<a, b>>] = 0 /\ r[<<a, b>>] = 0 /\ after[<<a, b>>] = 0
      BY <2>5, <2>12 DEF Then
    <3>2. Len(a.args) = Len(b.args) =>
              \A i \in DOMAIN a.args : f[<<a.args[i], b.args[i]>>] = 0 <=> Indistinct(a.args[i], b.args[i])
      <4>1. a.args \in Seq(U) /\ b.args \in Seq(U)
        BY <2>4
      <4>2. Len(a.args) = Len(b.args) => \A i \in DOMAIN a.args : a.args[i] \in U /\ b.args[i] \in U
        BY <4>1
      <4> QED
        BY <2>3, <4>2 DEF Distinguishes
    <3>3. r[<<a, b>>] = 0 <=>
              Len(a.args) = Len(b.args) /\ \A i \in DOMAIN a.args : Indistinct(a.args[i], b.args[i])
      BY <2>6, <3>2 DEF ChildrenTie
    <3>4. a \in Terms /\ b \in Terms
      BY <2>2
    <3> QED
      BY <3>1, <3>3, <3>4 DEF Judging
  <2> QED
    BY <2>1, <2>13, <2>14 DEF Distinguishes, S
<1> HIDE DEF InOrder
<1>3. 0 .. MaxHeight \subseteq InOrder
  BY <1>1, <1>2, RangeInduction, HeightAssumption
<1>4. MaxHeight \in InOrder
  BY <1>3, HeightAssumption
<1> QED
  BY <1>4 DEF InOrder, Terms

(* Terms that no comparison tells apart weigh the same. *)
LEMMA IndistinctWeighs == \A a, b \in Terms : Indistinct(a, b) => Weight(a) = Weight(b)
<1> DEFINE w == [t \in Terms |-> Weight(t)]
           rank == [t \in Terms |-> Height(t)]
           S == {a \in Terms : \A b \in Terms : Indistinct(a, b) => w[a] = w[b]}
<1>1. ASSUME NEW t \in Terms
      PROVE  /\ w[t] = Weight(t) /\ w[t] = 1 + WeightOfAll(t.args, w)
             /\ rank[t] \in Nat /\ t.args \in Seq(Terms)
             /\ \A i \in DOMAIN t.args : t.args[i] \in Terms /\ rank[t.args[i]] < rank[t]
  BY TermIs, WeightUnfolds
<1> HIDE DEF w, rank
<1>2. ASSUME NEW a \in Terms, \A r \in Terms : rank[r] < rank[a] => r \in S PROVE a \in S
  <2> SUFFICES ASSUME NEW b \in Terms, Indistinct(a, b) PROVE w[a] = w[b]
    OBVIOUS
  <2>1. Len(a.args) = Len(b.args) /\ \A i \in DOMAIN a.args : Indistinct(a.args[i], b.args[i])
    BY IndistinctIs
  <2>2. a.args \in Seq(Terms) /\ b.args \in Seq(Terms)
    BY <1>1
  <2>3. \A i \in DOMAIN a.args : a.args[i] \in Terms /\ b.args[i] \in Terms
    BY <2>1, <2>2
  <2>4. \A i \in DOMAIN a.args : w[a.args[i]] = w[b.args[i]]
    BY <1>1, <1>2, <2>1, <2>3
  <2>5. WeightOfAll(a.args, w) = WeightOfAll(b.args, w)
    BY <2>1, <2>2, <2>4, WeighsTheSame
  <2> QED
    BY <1>1, <2>5
<1> HIDE DEF S
<1>3. \A t \in Terms : rank[t] \in Nat
  BY <1>1
<1>4. Terms \subseteq S
  BY <1>2, <1>3, MeasureInduction
<1> QED
  BY <1>1, <1>4 DEF S

-----------------------------------------------------------------------------
(* The kinds, the tags and the heads. *)

KindOrder  == [p \in Pairs |-> CompareKinds(p[1], p[2])]
PlaceOrder == [p \in Pairs |-> CompareOrdinals(p[1], p[2])]
TagOrder   == [p \in Pairs |-> CompareTags(p[1], p[2])]
HeadOrder  == [p \in Pairs |-> CompareHeads(p[1], p[2])]

(* The kinds are ordered, by their rank and by their place. *)
LEMMA KindsOrdered ==
    /\ WeakOrder(KindOrder, Terms)
    /\ \A a, b \in Terms : KindOrder[<<a, b>>] = 0 =>
          a.kind = b.kind \/ (a.kind \in LiteralKinds /\ b.kind \in LiteralKinds)
    /\ WeakOrder(PlaceOrder, Terms)
    /\ \A a, b \in Terms : PlaceOrder[<<a, b>>] = 0 => a.kind = b.kind
    /\ \A a, b \in Terms : a.kind = b.kind => KindOrder[<<a, b>>] = 0 /\ PlaceOrder[<<a, b>>] = 0
<1> DEFINE key == [t \in Terms |-> TermKindRank[t.kind]]
           place == [t \in Terms |-> KindOrdinal[t.kind]]
<1>1. \A t \in Terms : t.kind \in Kinds
  BY TermIs
<1>2. \A t \in Terms : /\ key[t] \in Int /\ key[t] = TermKindRank[t.kind]
                       /\ place[t] \in Int /\ place[t] = KindOrdinal[t.kind]
  BY <1>1, RanksAre
<1>3. \A a, b \in Terms : /\ KindOrder[<<a, b>>] = Sign(key[a], key[b])
                          /\ PlaceOrder[<<a, b>>] = Sign(place[a], place[b])
  BY DEF KindOrder, CompareKinds, PlaceOrder, CompareOrdinals, Pairs
<1> HIDE DEF key, place
<1>4. WeakOrder(KindOrder, Terms) /\ WeakOrder(PlaceOrder, Terms)
  BY <1>2, <1>3, KeysOrder
<1>5. ASSUME NEW a \in Terms, NEW b \in Terms
      PROVE  /\ KindOrder[<<a, b>>] = 0 <=> key[a] = key[b]
             /\ PlaceOrder[<<a, b>>] = 0 <=> place[a] = place[b]
  <2>1. /\ key[a] \in Int /\ key[b] \in Int /\ KindOrder[<<a, b>>] = Sign(key[a], key[b])
        /\ place[a] \in Int /\ place[b] \in Int /\ PlaceOrder[<<a, b>>] = Sign(place[a], place[b])
    BY <1>2, <1>3
  <2> QED
    BY <2>1 DEF Sign
<1> QED
  BY <1>1, <1>2, <1>4, <1>5, RanksAre

(* So are the numbers, the functions and the operators. *)
LEMMA NumbersOrdered ==
    /\ \A f, g \in Int : /\ Sign(f, g) \in Three /\ Sign(g, f) = -Sign(f, g)
                         /\ Sign(f, g) = 0 => f = g
                         /\ CompareFunctions(f, g) \in Three
                         /\ CompareFunctions(g, f) = -CompareFunctions(f, g)
                         /\ CompareFunctions(f, g) = 0 => f = g
    /\ \A f, g, h \in Int : /\ Sign(f, g) >= 0 /\ Sign(g, h) >= 0 => Sign(f, h) >= 0
                            /\ CompareFunctions(f, g) >= 0 /\ CompareFunctions(g, h) >= 0
                                 => CompareFunctions(f, h) >= 0
<1> DEFINE s == [q \in Int \X Int |-> Sign(q[1], q[2])]
           c == [q \in Int \X Int |-> CompareFunctions(q[1], q[2])]
<1>1. \A f, g \in Int : s[<<f, g>>] = Sign(f, g) /\ c[<<f, g>>] = CompareFunctions(f, g)
  OBVIOUS
<1>2. WeakOrder(s, Int)
  BY TagsOrdered
<1>3. WeakOrder(c, Int) /\ Decides(c, Int)
  BY FunctionsOrdered
<1> HIDE DEF s, c
<1>4. \A f, g \in Int : Sign(f, g) = 0 => f = g
  BY SignIs
<1>5. \A f, g \in Int : Sign(f, g) \in Three /\ Sign(g, f) = -Sign(f, g)
  BY SignIs
<1>6. \A f, g, h \in Int : Sign(f, g) >= 0 /\ Sign(g, h) >= 0 => Sign(f, h) >= 0
  <2> SUFFICES ASSUME NEW f \in Int, NEW g \in Int, NEW h \in Int, Sign(f, g) >= 0, Sign(g, h) >= 0
               PROVE  Sign(f, h) >= 0
    OBVIOUS
  <2>1. s[<<f, g>>] >= 0 /\ s[<<g, h>>] >= 0
    BY <1>1
  <2> QED
    BY <1>1, <1>2, <2>1 DEF WeakOrder
<1>7. \A f, g \in Int : /\ CompareFunctions(f, g) \in Three
                        /\ CompareFunctions(g, f) = -CompareFunctions(f, g)
                        /\ CompareFunctions(f, g) = 0 => f = g
  <2> SUFFICES ASSUME NEW f \in Int, NEW g \in Int
               PROVE  /\ CompareFunctions(f, g) \in Three
                      /\ CompareFunctions(g, f) = -CompareFunctions(f, g)
                      /\ CompareFunctions(f, g) = 0 => f = g
    OBVIOUS
  <2>1. c[<<f, g>>] = CompareFunctions(f, g) /\ c[<<g, f>>] = CompareFunctions(g, f)
    BY <1>1
  <2>2. c[<<f, g>>] \in Three /\ c[<<g, f>>] = -c[<<f, g>>] /\ (c[<<f, g>>] = 0 => f = g)
    BY <1>3 DEF WeakOrder, Decides
  <2> QED
    BY <2>1, <2>2
<1>8. \A f, g, h \in Int : CompareFunctions(f, g) >= 0 /\ CompareFunctions(g, h) >= 0
                             => CompareFunctions(f, h) >= 0
  <2> SUFFICES ASSUME NEW f \in Int, NEW g \in Int, NEW h \in Int,
                      CompareFunctions(f, g) >= 0, CompareFunctions(g, h) >= 0
               PROVE  CompareFunctions(f, h) >= 0
    OBVIOUS
  <2>1. c[<<f, g>>] >= 0 /\ c[<<g, h>>] >= 0
    BY <1>1
  <2>2. c[<<f, h>>] >= 0
    BY <1>3, <2>1 DEF WeakOrder
  <2> QED
    BY <1>1, <2>2
<1> QED
  BY <1>4, <1>5, <1>6, <1>7, <1>8

(* Terms of one kind are ordered by their tags. *)
LEMMA TagsWithinKinds ==
    /\ WeakWithin(PlaceOrder, TagOrder, Terms)
    /\ \A a, b \in Terms : a.kind = b.kind =>
          (TagOrder[<<a, b>>] = 0 <=> a.kind \in Valueless \/ a.tag = b.tag)
<1>1. \A a \in Terms : a.tag \in Int
  BY TermIs
<1>2. ASSUME NEW a \in Terms, NEW b \in Terms
      PROVE  /\ a.kind = "FuncCall" => TagOrder[<<a, b>>] = CompareFunctions(a.tag, b.tag)
             /\ a.kind \in Valueless => TagOrder[<<a, b>>] = 0
             /\ a.kind # "FuncCall" /\ a.kind \notin Valueless => TagOrder[<<a, b>>] = Sign(a.tag, b.tag)
  <2>1. TagOrder[<<a, b>>] = CompareTags(a, b)
    BY DEF TagOrder, Pairs
  <2>2. a.kind \in Valueless => a.kind # "FuncCall"
    BY DEF Valueless
  <2> QED
    BY <2>1, <2>2 DEF CompareTags
<1>3. \A a, b \in Terms : PlaceOrder[<<a, b>>] = 0 => a.kind = b.kind
  BY KindsOrdered
<1>4. "FuncCall" \notin Valueless
  BY DEF Valueless
<1>5. \A f \in Int : Sign(f, f) = 0 /\ CompareFunctions(f, f) = 0
  <2>1. \A f \in Int : BuiltinPrecedence(f) \in Int
    BY DEF BuiltinPrecedence
  <2>2. \A n \in Int : Sign(n, n) = 0
    BY DEF Sign
  <2> QED
    BY <2>1, <2>2 DEF CompareFunctions, Then
<1>6. ASSUME NEW a \in Terms, NEW b \in Terms, a.kind = b.kind
      PROVE  /\ TagOrder[<<a, b>>] \in Three /\ TagOrder[<<b, a>>] = -TagOrder[<<a, b>>]
             /\ TagOrder[<<a, b>>] = 0 <=> a.kind \in Valueless \/ a.tag = b.tag
  <2>1. CASE a.kind = "FuncCall"
    <3>1. /\ TagOrder[<<a, b>>] = CompareFunctions(a.tag, b.tag)
          /\ TagOrder[<<b, a>>] = CompareFunctions(b.tag, a.tag)
      BY <1>2, <1>6, <2>1
    <3>2. a.kind \notin Valueless
      BY <1>4, <2>1
    <3>3. /\ CompareFunctions(a.tag, b.tag) \in Three
          /\ CompareFunctions(b.tag, a.tag) = -CompareFunctions(a.tag, b.tag)
          /\ CompareFunctions(a.tag, b.tag) = 0 <=> a.tag = b.tag
      BY <1>1, <1>5, NumbersOrdered
    <3> QED
      BY <3>1, <3>2, <3>3
  <2>2. CASE a.kind \in Valueless
    <3>1. TagOrder[<<a, b>>] = 0 /\ TagOrder[<<b, a>>] = 0
      BY <1>2, <1>6, <2>2
    <3>2. 0 \in Three
      BY DEF Three
    <3>3. \A m, n \in Three : m + n = 0 => n = -m
      BY DEF Three
    <3>4. TagOrder[<<a, b>>] + TagOrder[<<b, a>>] = 0
      BY <3>1
    <3>5. TagOrder[<<a, b>>] = 0 <=> a.kind \in Valueless \/ a.tag = b.tag
      BY <2>2, <3>1
    <3> QED
      BY <3>1, <3>2, <3>3, <3>4, <3>5
  <2>3. CASE a.kind # "FuncCall" /\ a.kind \notin Valueless
    <3>1. TagOrder[<<a, b>>] = Sign(a.tag, b.tag) /\ TagOrder[<<b, a>>] = Sign(b.tag, a.tag)
      BY <1>2, <1>6, <2>3
    <3> QED
      BY <1>1, <1>5, <2>3, <3>1, NumbersOrdered
  <2> QED
    BY <2>1, <2>2, <2>3
<1>7. ASSUME NEW a \in Terms, NEW b \in Terms, NEW e \in Terms, a.kind = b.kind, b.kind = e.kind,
             TagOrder[<<a, b>>] >= 0, TagOrder[<<b, e>>] >= 0
      PROVE  TagOrder[<<a, e>>] >= 0
  <2>1. CASE a.kind = "FuncCall"
    <3>1. /\ TagOrder[<<a, b>>] = CompareFunctions(a.tag, b.tag)
          /\ TagOrder[<<b, e>>] = CompareFunctions(b.tag, e.tag)
          /\ TagOrder[<<a, e>>] = CompareFunctions(a.tag, e.tag)
      BY <1>2, <1>7, <2>1
    <3> QED
      BY <1>1, <1>7, <3>1, NumbersOrdered
  <2>2. CASE a.kind \in Valueless
    <3>1. TagOrder[<<a, e>>] = 0
      BY <1>2, <2>2
    <3> QED
      BY <3>1
  <2>3. CASE a.kind # "FuncCall" /\ a.kind \notin Valueless
    <3>1. /\ TagOrder[<<a, b>>] = Sign(a.tag, b.tag) /\ TagOrder[<<b, e>>] = Sign(b.tag, e.tag)
          /\ TagOrder[<<a, e>>] = Sign(a.tag, e.tag)
      BY <1>2, <1>7, <2>3
    <3> QED
      BY <1>1, <1>7, <3>1, NumbersOrdered
  <2> QED
    BY <2>1, <2>2, <2>3
<1>8. \A a, b \in Terms : PlaceOrder[<<a, b>>] = 0 =>
          TagOrder[<<a, b>>] \in Three /\ TagOrder[<<b, a>>] = -TagOrder[<<a, b>>]
  BY <1>3, <1>6
<1>9. \A a, b, e \in Terms : /\ PlaceOrder[<<a, b>>] = 0 /\ PlaceOrder[<<b, e>>] = 0
                             /\ TagOrder[<<a, b>>] >= 0 /\ TagOrder[<<b, e>>] >= 0
                             => TagOrder[<<a, e>>] >= 0
  BY <1>3, <1>7
<1>10. WeakWithin(PlaceOrder, TagOrder, Terms)
  BY <1>8, <1>9 DEF WeakWithin
<1> QED
  BY <1>6, <1>10

(* The heads are ordered. *)
LEMMA HeadsOrdered == WeakOrder(HeadOrder, Terms)
<1> DEFINE o == [q \in Int \X Int |-> Then(Sign(BinaryPrecedence(q[1]), BinaryPrecedence(q[2])),
                                           Sign(q[1], q[2]))]
           w == [p \in Pairs |->
                    CASE p[1].kind = "Binary" -> o[<<p[1].tag, p[2].tag>>]
                      [] p[1].kind = "FuncCall" -> CompareFunctions(p[1].tag, p[2].tag)
                      [] p[1].kind \in {"Unary", "Symbol"} -> Sign(p[1].tag, p[2].tag)
                      [] OTHER -> 0]
<1>1. \A a \in Terms : a.tag \in Int
  BY TermIs
<1>2. \A f, g \in Int : o[<<f, g>>] = Then(Sign(BinaryPrecedence(f), BinaryPrecedence(g)), Sign(f, g))
  OBVIOUS
<1>3. /\ \A f, g \in Int : o[<<f, g>>] \in Three /\ o[<<g, f>>] = -o[<<f, g>>]
      /\ \A f, g, h \in Int : o[<<f, g>>] >= 0 /\ o[<<g, h>>] >= 0 => o[<<f, h>>] >= 0
      /\ \A f \in Int : o[<<f, f>>] = 0
  <2>1. WeakOrder(o, Int)
    BY OperatorsOrdered
  <2> HIDE DEF o
  <2>2. \A f \in Int : o[<<f, f>>] = 0
    BY <2>1, WeakOrderIs
  <2> QED
    BY <2>1, <2>2 DEF WeakOrder
<1>4. \A f \in Int : Sign(f, f) = 0 /\ CompareFunctions(f, f) = 0
  <2>1. \A f \in Int : BuiltinPrecedence(f) \in Int
    BY DEF BuiltinPrecedence
  <2>2. \A n \in Int : Sign(n, n) = 0
    BY DEF Sign
  <2> QED
    BY <2>1, <2>2 DEF CompareFunctions, Then
<1>5. ASSUME NEW a \in Terms, NEW b \in Terms
      PROVE  w[<<a, b>>] = CASE a.kind = "Binary" -> o[<<a.tag, b.tag>>]
                             [] a.kind = "FuncCall" -> CompareFunctions(a.tag, b.tag)
                             [] a.kind \in {"Unary", "Symbol"} -> Sign(a.tag, b.tag)
                             [] OTHER -> 0
  <2> HIDE DEF o
  <2> QED
    BY DEF Pairs
<1>6. ASSUME NEW a \in Terms, NEW b \in Terms
      PROVE  HeadOrder[<<a, b>>] = Then(KindOrder[<<a, b>>], w[<<a, b>>])
  <2>1. <<a, b>> \in Pairs
    BY DEF Pairs
  <2>2. HeadOrder[<<a, b>>] = CompareHeads(a, b) /\ KindOrder[<<a, b>>] = CompareKinds(a, b)
    BY <2>1 DEF HeadOrder, KindOrder
  <2>3. a = b => KindOrder[<<a, b>>] = 0
    BY KindsOrdered
  <2> HIDE DEF w, o
  <2>4. CASE KindOrder[<<a, b>>] # 0
    BY <2>2, <2>4 DEF CompareHeads, Then
  <2>5. CASE KindOrder[<<a, b>>] = 0 /\ a # b
    <3>1. HeadOrder[<<a, b>>] = w[<<a, b>>]
      BY <1>1, <1>2, <1>5, <2>2, <2>5 DEF CompareHeads
    <3> QED
      BY <2>5, <3>1 DEF Then
  <2>6. CASE a = b
    <3>1. HeadOrder[<<a, b>>] = 0
      BY <2>2, <2>3, <2>6 DEF CompareHeads
    <3>2. w[<<a, b>>] = 0
      BY <1>1, <1>3, <1>4, <1>5, <2>6
    <3> QED
      BY <2>3, <2>6, <3>1, <3>2 DEF Then
  <2> QED
    BY <2>4, <2>5, <2>6
<1> HIDE DEF w, o
<1>7. ASSUME NEW a \in Terms, NEW b \in Terms, KindOrder[<<a, b>>] = 0
      PROVE  a.kind = b.kind \/ (w[<<a, b>>] = 0 /\ w[<<b, a>>] = 0)
  <2>1. ASSUME NEW s \in Terms, NEW t \in Terms, s.kind \in LiteralKinds PROVE w[<<s, t>>] = 0
    BY <1>5, <2>1 DEF LiteralKinds
  <2> QED
    BY <1>7, <2>1, KindsOrdered
<1>8. ASSUME NEW a \in Terms, NEW b \in Terms, KindOrder[<<a, b>>] = 0
      PROVE  w[<<a, b>>] \in Three /\ w[<<b, a>>] = -w[<<a, b>>]
  <2> SUFFICES ASSUME a.kind = b.kind PROVE w[<<a, b>>] \in Three /\ w[<<b, a>>] = -w[<<a, b>>]
    BY <1>7, <1>8 DEF Three
  <2>1. a.kind = b.kind /\ a.tag \in Int /\ b.tag \in Int
    BY <1>1
  <2>2. 0 \in Three
    BY DEF Three
  <2> HIDE DEF Three
  <2>3. /\ Sign(a.tag, b.tag) \in Three /\ Sign(b.tag, a.tag) = -Sign(a.tag, b.tag)
        /\ CompareFunctions(a.tag, b.tag) \in Three
        /\ CompareFunctions(b.tag, a.tag) = -CompareFunctions(a.tag, b.tag)
        /\ o[<<a.tag, b.tag>>] \in Three /\ o[<<b.tag, a.tag>>] = -o[<<a.tag, b.tag>>]
    BY <1>3, <2>1, NumbersOrdered
  <2>4. w[<<a, b>>] \in Three /\ (w[<<b, a>>] = -w[<<a, b>>] \/ (w[<<a, b>>] = 0 /\ w[<<b, a>>] = 0))
    BY <1>5, <2>1, <2>2, <2>3
  <2>5. \A x, y \in Three : x + y = 0 => y = -x
    BY DEF Three
  <2>6. w[<<a, b>>] = 0 /\ w[<<b, a>>] = 0 => w[<<a, b>>] + w[<<b, a>>] = 0
    OBVIOUS
  <2> QED
    BY <2>2, <2>4, <2>5, <2>6
<1>9. ASSUME NEW a \in Terms, NEW b \in Terms, NEW e \in Terms,
             KindOrder[<<a, b>>] = 0, KindOrder[<<b, e>>] = 0, w[<<a, b>>] >= 0, w[<<b, e>>] >= 0
      PROVE  w[<<a, e>>] >= 0
  <2> SUFFICES ASSUME a.kind = b.kind, b.kind = e.kind PROVE w[<<a, e>>] >= 0
    <3>1. CASE a.kind \in LiteralKinds
      <4>1. w[<<a, e>>] = 0
        BY <1>5, <3>1 DEF LiteralKinds
      <4> QED
        BY <4>1
    <3>2. CASE a.kind \notin LiteralKinds
      BY <1>9, <3>2, KindsOrdered
    <3> QED
      BY <3>1, <3>2
  <2>1. a.kind = b.kind /\ b.kind = e.kind /\ a.tag \in Int /\ b.tag \in Int /\ e.tag \in Int
    BY <1>1
  <2>2. /\ Sign(a.tag, b.tag) >= 0 /\ Sign(b.tag, e.tag) >= 0 => Sign(a.tag, e.tag) >= 0
        /\ CompareFunctions(a.tag, b.tag) >= 0 /\ CompareFunctions(b.tag, e.tag) >= 0
              => CompareFunctions(a.tag, e.tag) >= 0
        /\ o[<<a.tag, b.tag>>] >= 0 /\ o[<<b.tag, e.tag>>] >= 0 => o[<<a.tag, e.tag>>] >= 0
    BY <1>3, <2>1, NumbersOrdered
  <2> QED
    BY <1>5, <1>9, <2>1, <2>2
<1>10. WeakWithin(KindOrder, w, Terms)
  BY <1>8, <1>9 DEF WeakWithin
<1> QED
  BY <1>6, <1>10, KindsOrdered, ThenOrders

(* Terms that no comparison tells apart have one head. *)
LEMMA IndistinctHeads == \A a, b \in Terms : Indistinct(a, b) => HeadOrder[<<a, b>>] = 0
<1> SUFFICES ASSUME NEW a \in Terms, NEW b \in Terms, Indistinct(a, b) PROVE CompareHeads(a, b) = 0
  BY DEF HeadOrder, Pairs
<1>1. a.kind = b.kind /\ (a.kind \in Valueless \/ a.tag = b.tag) /\ a.tag \in Int /\ b.tag \in Int
  BY IndistinctIs, TermIs
<1>2. CompareKinds(a, b) = 0
  <2>1. KindOrder[<<a, b>>] = CompareKinds(a, b)
    BY DEF KindOrder, Pairs
  <2> QED
    BY <1>1, <2>1, KindsOrdered
<1>3. CASE a.kind \in Valueless
  <2>1. ~(a.kind = "Binary" \/ a.kind = "FuncCall" \/ a.kind \in {"Unary", "Symbol"})
    BY <1>3 DEF Valueless
  <2> QED
    BY <1>2, <2>1 DEF CompareHeads
<1>4. CASE a.tag = b.tag
  <2>1. \A n \in Int : Sign(n, n) = 0
    BY DEF Sign
  <2>2. \A f \in Int : BuiltinPrecedence(f) \in Int /\ BinaryPrecedence(f) \in Int
    BY DEF BuiltinPrecedence, BinaryPrecedence
  <2>3. \A f \in Int : /\ CompareFunctions(f, f) = 0
                        /\ Then(Sign(BinaryPrecedence(f), BinaryPrecedence(f)), Sign(f, f)) = 0
    BY <2>1, <2>2 DEF CompareFunctions, Then
  <2> QED
    BY <1>1, <1>2, <1>4, <2>1, <2>3 DEF CompareHeads
<1> QED
  BY <1>1, <1>3, <1>4

-----------------------------------------------------------------------------
(* The canonical order and the weight order. *)

CanonicalOrder == [p \in Pairs |-> CanonicalCompare(p[1], p[2])]
WeightOrder    == [p \in Pairs |-> CompareWeights(p[1], p[2])]

CanonicalSolves(f) ==
    f = [p \in Terms \X Terms |->
            IF p[1] = p[2] THEN 0
            ELSE Then(CompareKinds(p[1], p[2]), Then(CompareOrdinals(p[1], p[2]),
                 Then(CompareTags(p[1], p[2]), CompareChildren(f, p[1], p[2]))))]

(* The canonical order tells any two terms apart but those that no comparison does. *)
LEMMA CanonicalIsOrder == WeakOrder(CanonicalOrder, Terms) /\ Distinguishes(CanonicalOrder, Terms)
<1> DEFINE within == [p \in Pairs |-> Then(PlaceOrder[p], TagOrder[p])]
           before == [p \in Pairs |-> Then(KindOrder[p], within[p])]
           after == [p \in Pairs |-> 0]
           c == CHOOSE f : CanonicalSolves(f)
<1>1. ASSUME NEW a \in Terms, NEW b \in Terms
      PROVE  /\ before[<<a, b>>] = Then(KindOrder[<<a, b>>], within[<<a, b>>])
             /\ within[<<a, b>>] = Then(PlaceOrder[<<a, b>>], TagOrder[<<a, b>>])
             /\ after[<<a, b>>] = 0
  BY DEF Pairs
<1>2. ASSUME NEW f PROVE CanonicalSolves(f) <=> Lexicographic(f, before, after)
  <2> DEFINE X(p) == IF p[1] = p[2] THEN 0
                     ELSE Then(CompareKinds(p[1], p[2]), Then(CompareOrdinals(p[1], p[2]),
                          Then(CompareTags(p[1], p[2]), CompareChildren(f, p[1], p[2]))))
  <2>1. ASSUME NEW p \in Pairs PROVE X(p) = Ahead(f, before, after, p)
    <3>1. /\ before[p] = Then(CompareKinds(p[1], p[2]),
                              Then(CompareOrdinals(p[1], p[2]), CompareTags(p[1], p[2])))
          /\ after[p] = 0
      BY DEF KindOrder, PlaceOrder, TagOrder
    <3> HIDE DEF before, after, within
    <3> QED
      BY <3>1 DEF Ahead, Then
  <2> HIDE DEF X, before, after, within
  <2>2. [p \in Pairs |-> X(p)] = [p \in Pairs |-> Ahead(f, before, after, p)]
    BY <2>1
  <2> QED
    BY <2>2 DEF CanonicalSolves, Lexicographic, X, Pairs
<1> HIDE DEF before, after, within
<1>3. WeakOrder(before, Terms)
  <2>1. WeakOrder(within, Terms)
    BY <1>1, KindsOrdered, TagsWithinKinds, ThenOrders
  <2>2. WeakWithin(KindOrder, within, Terms)
    BY <2>1, WeakOrderWithin
  <2> QED
    BY <1>1, <2>2, KindsOrdered, ThenOrders
<1>4. WeakOrder(after, Terms)
  BY <1>1 DEF WeakOrder, Three
<1>5. \A p \in Pairs : before[p] \in Three /\ after[p] \in Three
  <2> SUFFICES ASSUME NEW p \in Pairs PROVE before[p] \in Three /\ after[p] \in Three
    OBVIOUS
  <2>1. p[1] \in Terms /\ p[2] \in Terms /\ p = <<p[1], p[2]>>
    BY DEF Pairs
  <2> QED
    BY <1>3, <1>4, <2>1 DEF WeakOrder
<1>6. \E f : CanonicalSolves(f)
  BY <1>2, <1>5, LexicographicExists
<1>7. Lexicographic(c, before, after)
  BY <1>2, <1>6
<1>8. ASSUME NEW a \in Terms, NEW b \in Terms
      PROVE  before[<<a, b>>] = 0 <=> a.kind = b.kind /\ (a.kind \in Valueless \/ a.tag = b.tag)
  <2>1. before[<<a, b>>] = 0 <=> /\ KindOrder[<<a, b>>] = 0 /\ PlaceOrder[<<a, b>>] = 0
                                 /\ TagOrder[<<a, b>>] = 0
    BY <1>1 DEF Then
  <2> QED
    BY <2>1, KindsOrdered, TagsWithinKinds
<1> HIDE DEF c
<1>9. WeakOrder(c, Terms) /\ Distinguishes(c, Terms)
  <2>1. ASSUME NEW a \in Terms, NEW b \in Terms
        PROVE  Indistinct(a, b) <=>
                  /\ before[<<a, b>>] = 0 /\ after[<<a, b>>] = 0 /\ Len(a.args) = Len(b.args)
                  /\ \A i \in DOMAIN a.args : Indistinct(a.args[i], b.args[i])
    <3>1. after[<<a, b>>] = 0
      BY <1>1
    <3> QED
      BY <1>8, <3>1, IndistinctIs
  <2>2. Judging(before, after)
    BY <2>1 DEF Judging
  <2> QED
    BY <1>3, <1>4, <1>7, <2>2, LexicographicIsOrder
<1>10. \A a, b \in Terms : CanonicalOrder[<<a, b>>] = c[<<a, b>>]
  BY DEF CanonicalOrder, CanonicalCompare, CanonicalSolves, Pairs, c
<1> QED
  BY <1>9, <1>10 DEF WeakOrder, Distinguishes

WeightsSolve(f) ==
    f = [p \in Terms \X Terms |->
            IF p[1] = p[2] THEN 0
            ELSE Then(Sign(Weight(p[1]), Weight(p[2])),
                 Then(CompareHeads(p[1], p[2]),
                 Then(CompareChildren(f, p[1], p[2]),
                      CanonicalCompare(p[1], p[2]))))]

(* So does the weight order. *)
LEMMA WeightIsOrder == WeakOrder(WeightOrder, Terms) /\ Distinguishes(WeightOrder, Terms)
<1> DEFINE key == [t \in Terms |-> Weight(t)]
           sizes == [p \in Pairs |-> Sign(key[p[1]], key[p[2]])]
           before == [p \in Pairs |-> Then(sizes[p], HeadOrder[p])]
           c == CHOOSE f : WeightsSolve(f)
<1>1. ASSUME NEW a \in Terms, NEW b \in Terms
      PROVE  /\ before[<<a, b>>] = Then(sizes[<<a, b>>], HeadOrder[<<a, b>>])
             /\ sizes[<<a, b>>] = Sign(key[a], key[b])
  BY DEF Pairs
<1>2. ASSUME NEW f PROVE WeightsSolve(f) <=> Lexicographic(f, before, CanonicalOrder)
  <2> DEFINE X(p) == IF p[1] = p[2] THEN 0
                     ELSE Then(Sign(Weight(p[1]), Weight(p[2])),
                          Then(CompareHeads(p[1], p[2]),
                          Then(CompareChildren(f, p[1], p[2]),
                               CanonicalCompare(p[1], p[2]))))
  <2>1. ASSUME NEW p \in Pairs PROVE X(p) = Ahead(f, before, CanonicalOrder, p)
    <3>1. /\ before[p] = Then(Sign(Weight(p[1]), Weight(p[2])), CompareHeads(p[1], p[2]))
          /\ CanonicalOrder[p] = CanonicalCompare(p[1], p[2])
      BY DEF HeadOrder, CanonicalOrder, Pairs
    <3> HIDE DEF before
    <3> QED
      BY <3>1 DEF Ahead, Then
  <2> HIDE DEF X, before
  <2>2. [p \in Pairs |-> X(p)] = [p \in Pairs |-> Ahead(f, before, CanonicalOrder, p)]
    BY <2>1
  <2> QED
    BY <2>2 DEF WeightsSolve, Lexicographic, X, Pairs
<1>3. \A t \in Terms : key[t] \in Int /\ key[t] = Weight(t)
  BY WeightIs
<1> HIDE DEF key, sizes, before
<1>4. WeakOrder(sizes, Terms)
  BY <1>1, <1>3, KeysOrder
<1>5. WeakWithin(sizes, HeadOrder, Terms)
  BY HeadsOrdered, WeakOrderWithin
<1>6. WeakOrder(before, Terms)
  BY <1>1, <1>4, <1>5, ThenOrders
<1>7. \A p \in Pairs : before[p] \in Three /\ CanonicalOrder[p] \in Three
  <2> SUFFICES ASSUME NEW p \in Pairs PROVE before[p] \in Three /\ CanonicalOrder[p] \in Three
    OBVIOUS
  <2>1. p[1] \in Terms /\ p[2] \in Terms /\ p = <<p[1], p[2]>>
    BY DEF Pairs
  <2> QED
    BY <1>6, <2>1, CanonicalIsOrder DEF WeakOrder
<1>8. \E f : WeightsSolve(f)
  BY <1>2, <1>7, LexicographicExists
<1>9. Lexicographic(c, before, CanonicalOrder)
  BY <1>2, <1>8
<1>10. ASSUME NEW a \in Terms, NEW b \in Terms, Indistinct(a, b)
       PROVE  before[<<a, b>>] = 0 /\ CanonicalOrder[<<a, b>>] = 0
  <2>1. sizes[<<a, b>>] = 0
    BY <1>1, <1>3, <1>10, IndistinctWeighs, SignIs
  <2> QED
    BY <1>1, <1>10, <2>1, CanonicalIsOrder, IndistinctHeads DEF Distinguishes, Then
<1> HIDE DEF c
<1>11. WeakOrder(c, Terms) /\ Distinguishes(c, Terms)
  <2>1. \A a, b \in Terms : CanonicalOrder[<<a, b>>] = 0 => Indistinct(a, b)
    BY CanonicalIsOrder DEF Distinguishes
  <2>2. ASSUME NEW a \in Terms, NEW b \in Terms
        PROVE  Indistinct(a, b) <=>
                  /\ before[<<a, b>>] = 0 /\ CanonicalOrder[<<a, b>>] = 0 /\ Len(a.args) = Len(b.args)
                  /\ \A i \in DOMAIN a.args : Indistinct(a.args[i], b.args[i])
    BY <1>10, <2>1, IndistinctIs
  <2>3. Judging(before, CanonicalOrder)
    BY <2>2 DEF Judging
  <2> QED
    BY <1>6, <1>9, <2>3, CanonicalIsOrder, LexicographicIsOrder
<1>12. \A a, b \in Terms : WeightOrder[<<a, b>>] = c[<<a, b>>]
  BY DEF WeightOrder, CompareWeights, WeightsSolve, Pairs, c
<1> QED
  BY <1>11, <1>12 DEF WeakOrder, Distinguishes

-----------------------------------------------------------------------------
(* The path order. *)

PathStep(gt, s, t) ==
    /\ s # t
    /\ \/ Reaches(gt, s, t)
       \/ CompareHeads(s, t) > 0 /\ Dominates(gt, s, t)
       \/ /\ CompareHeads(s, t) = 0 /\ Len(s.args) = Len(t.args)
          /\ Dominates(gt, s, t) /\ FirstAbove(gt, s, t)
PathSolves(gt) == gt = [p \in Terms \X Terms |-> PathStep(gt, p[1], p[2])]

\* Two terms differ first at a child.
DifferAt(a, b, i) ==
    /\ i \in DOMAIN a.args \cap DOMAIN b.args
    /\ \A j \in 1 .. i - 1 : a.args[j] = b.args[j]
    /\ a.args[i] # b.args[i]

(* Where two terms differ first. *)
LEMMA FirstAboveIs ==
    ASSUME NEW gt, NEW a \in Terms, NEW b \in Terms
    PROVE  FirstAbove(gt, a, b) <=> \E i : DifferAt(a, b, i) /\ gt[<<a.args[i], b.args[i]>>]
<1> DEFINE n == Shorter(a, b)
           E == Differing(a, b)
<1>1. a.args \in Seq(Terms) /\ b.args \in Seq(Terms)
  BY TermIs
<1>2. /\ n \in Nat /\ n <= Len(a.args) /\ n <= Len(b.args)
      /\ n = Len(a.args) \/ n = Len(b.args)
      /\ \A F \in SUBSET (1 .. n) : F # {} => Least(F) \in F /\ \A i \in F : Least(F) <= i
      /\ \A F \in SUBSET (1 .. n), f \in 1 .. n : f \in F /\ (\A i \in F : f <= i) => Least(F) = f
  BY <1>1, FirstDifference
<1>3. /\ Len(a.args) \in Nat /\ DOMAIN a.args = 1 .. Len(a.args)
      /\ Len(b.args) \in Nat /\ DOMAIN b.args = 1 .. Len(b.args)
  BY <1>1
<1>4. E = {i \in 1 .. n : a.args[i] # b.args[i]} /\ E \in SUBSET (1 .. n)
  BY DEF Differing
<1> HIDE DEF n, E
<1>5. DOMAIN a.args \cap DOMAIN b.args = 1 .. n
  BY <1>2, <1>3
<1>6. ASSUME NEW i, DifferAt(a, b, i) PROVE E # {} /\ Least(E) = i
  <2>1. i \in 1 .. n /\ i \in E /\ \A j \in 1 .. i - 1 : a.args[j] = b.args[j]
    BY <1>4, <1>5, <1>6 DEF DifferAt
  <2>2. \A j \in E : i <= j
    BY <1>2, <1>4, <2>1
  <2> QED
    BY <1>2, <1>4, <2>1, <2>2
<1>7. ASSUME E # {} PROVE DifferAt(a, b, Least(E))
  <2>1. Least(E) \in E /\ \A i \in E : Least(E) <= i
    BY <1>2, <1>4, <1>7
  <2>2. \A j \in 1 .. Least(E) - 1 : j \in 1 .. n /\ j \notin E
    BY <1>2, <1>4, <2>1
  <2> QED
    BY <1>4, <1>5, <2>1, <2>2 DEF DifferAt
<1> QED
  BY <1>6, <1>7 DEF FirstAbove, E

(* A step depends on lower pairs alone. *)
LEMMA PathLocal ==
    ASSUME NEW f, NEW g, NEW a \in Terms, NEW b \in Terms,
           \A q \in Pairs : PairRank[q] < PairRank[<<a, b>>] => f[q] = g[q]
    PROVE  PathStep(f, a, b) = PathStep(g, a, b)
<1>1. \A i \in DOMAIN a.args, j \in DOMAIN b.args : f[<<a.args[i], b.args[j]>>] = g[<<a.args[i], b.args[j]>>]
  BY PairIs
<1>2. \A i \in DOMAIN a.args : f[<<a.args[i], b>>] = g[<<a.args[i], b>>]
  BY PairIs
<1>3. \A j \in DOMAIN b.args : f[<<a, b.args[j]>>] = g[<<a, b.args[j]>>]
  BY PairIs
<1>4. Reaches(f, a, b) <=> Reaches(g, a, b)
  BY <1>2 DEF Reaches
<1>5. Dominates(f, a, b) <=> Dominates(g, a, b)
  BY <1>3 DEF Dominates
<1>6. \A i : DifferAt(a, b, i) => f[<<a.args[i], b.args[i]>>] = g[<<a.args[i], b.args[i]>>]
  BY <1>1 DEF DifferAt
<1>7. FirstAbove(f, a, b) <=> FirstAbove(g, a, b)
  <2>1. /\ FirstAbove(f, a, b) <=> \E i : DifferAt(a, b, i) /\ f[<<a.args[i], b.args[i]>>]
        /\ FirstAbove(g, a, b) <=> \E i : DifferAt(a, b, i) /\ g[<<a.args[i], b.args[i]>>]
    BY FirstAboveIs
  <2> QED
    BY <1>6, <2>1
<1> QED
  BY <1>4, <1>5, <1>7 DEF PathStep

(* The equation of the path order has a solution. *)
LEMMA PathExists == \E gt : PathSolves(gt)
<1> DEFINE step == [q \in Pairs \X [Pairs -> BOOLEAN] |-> PathStep(q[2], q[1][1], q[1][2])]
<1>1. \A p \in Pairs, f \in [Pairs -> BOOLEAN] : step[<<p, f>>] = PathStep(f, p[1], p[2])
  OBVIOUS
<1>2. ASSUME NEW p \in Pairs, NEW f \in [Pairs -> BOOLEAN], NEW g \in [Pairs -> BOOLEAN],
             \A q \in Pairs : PairRank[q] < PairRank[p] => f[q] = g[q]
      PROVE  PathStep(f, p[1], p[2]) = PathStep(g, p[1], p[2])
  <2>1. p[1] \in Terms /\ p[2] \in Terms /\ p = <<p[1], p[2]>>
    BY DEF Pairs
  <2> QED
    BY <1>2, <2>1, PathLocal
<1>3. Founded(Pairs, BOOLEAN, Above, PairRank, step)
  <2> HIDE DEF step
  <2>1. \A p \in Pairs : PairRank[p] \in Nat /\ PairRank[p] < Above
    <3> SUFFICES ASSUME NEW p \in Pairs PROVE PairRank[p] \in Nat /\ PairRank[p] < Above
      OBVIOUS
    <3>1. p[1] \in Terms /\ p[2] \in Terms /\ p = <<p[1], p[2]>>
      BY DEF Pairs
    <3> QED
      BY <3>1, PairIs
  <2>2. \A p \in Pairs, f \in [Pairs -> BOOLEAN] : step[<<p, f>>] \in BOOLEAN
    BY <1>1 DEF PathStep
  <2>3. \A p \in Pairs, f \in [Pairs -> BOOLEAN], g \in [Pairs -> BOOLEAN] :
            (\A q \in Pairs : PairRank[q] < PairRank[p] => f[q] = g[q]) => step[<<p, f>>] = step[<<p, g>>]
    BY <1>1, <1>2
  <2> QED
    BY <2>1, <2>2, <2>3 DEF Founded
<1>4. PICK f : Recursing(f, Pairs, BOOLEAN, step)
  <2>1. Above \in Nat
    BY HeightAssumption DEF Above
  <2>2. TRUE \in BOOLEAN
    OBVIOUS
  <2> HIDE DEF step
  <2> QED
    BY <1>3, <2>1, <2>2, RecursionExists
<1>5. f \in [Pairs -> BOOLEAN] /\ \A p \in Pairs : f[p] = PathStep(f, p[1], p[2])
  <2>1. f \in [Pairs -> BOOLEAN] /\ \A p \in Pairs : f[p] = step[<<p, f>>]
    BY <1>4 DEF Recursing
  <2> HIDE DEF step
  <2> QED
    BY <1>1, <2>1
<1> DEFINE F == [p \in Pairs |-> PathStep(f, p[1], p[2])]
<1>6. f = F
  <2>1. f = [p \in Pairs |-> f[p]]
    BY <1>5
  <2> QED
    BY <1>5, <2>1
<1> QED
  BY <1>6 DEF PathSolves, Pairs

\* The heads are not below, and where they agree the first children that differ decide.
HeadsAbove(a, b) ==
    /\ HeadOrder[<<a, b>>] >= 0
    /\ \A j \in DOMAIN b.args : TermOrderGt(a, b.args[j])
    /\ HeadOrder[<<a, b>>] = 0 =>
          /\ Len(a.args) = Len(b.args)
          /\ \E i : DifferAt(a, b, i) /\ TermOrderGt(a.args[i], b.args[i])

(* A term is above another if a child is or reaches it, or its head and children are above. *)
LEMMA PathIs ==
    ASSUME NEW a \in Terms, NEW b \in Terms
    PROVE  TermOrderGt(a, b) <=>
              /\ a # b
              /\ \/ \E i \in DOMAIN a.args : a.args[i] = b \/ TermOrderGt(a.args[i], b)
                 \/ HeadsAbove(a, b)
<1> DEFINE gt == CHOOSE f : PathSolves(f)
<1>1. PathSolves(gt)
  BY PathExists
<1>2. \A s, t : TermOrderGt(s, t) = gt[<<s, t>>]
  BY DEF TermOrderGt, PathSolves, PathStep
<1> HIDE DEF gt
<1>3. gt[<<a, b>>] = PathStep(gt, a, b)
  <2> DEFINE F == [p \in Terms \X Terms |-> PathStep(gt, p[1], p[2])]
  <2>1. gt = F
    BY <1>1 DEF PathSolves
  <2>2. F[<<a, b>>] = PathStep(gt, a, b)
    OBVIOUS
  <2> HIDE DEF F
  <2> QED
    BY <2>1, <2>2
<1>4. Reaches(gt, a, b) <=> \E i \in DOMAIN a.args : a.args[i] = b \/ TermOrderGt(a.args[i], b)
  BY <1>2 DEF Reaches
<1>5. Dominates(gt, a, b) <=> \A j \in DOMAIN b.args : TermOrderGt(a, b.args[j])
  BY <1>2 DEF Dominates
<1>6. FirstAbove(gt, a, b) <=> \E i : DifferAt(a, b, i) /\ TermOrderGt(a.args[i], b.args[i])
  BY <1>2, FirstAboveIs
<1>7. CompareHeads(a, b) = HeadOrder[<<a, b>>] /\ HeadOrder[<<a, b>>] \in Three
  BY PartsAre DEF HeadOrder, Pairs
<1>8. HeadOrder[<<a, b>>] >= 0 <=> HeadOrder[<<a, b>>] > 0 \/ HeadOrder[<<a, b>>] = 0
  BY <1>7 DEF Three
<1>9. ~(HeadOrder[<<a, b>>] > 0 /\ HeadOrder[<<a, b>>] = 0)
  OBVIOUS
<1> QED
  BY <1>2, <1>3, <1>4, <1>5, <1>6, <1>7, <1>8, <1>9 DEF PathStep, HeadsAbove

(* A term that is above another is above its children too. *)
LEMMA AboveChildren ==
    \A s, t \in Terms : TermOrderGt(s, t) => \A j \in DOMAIN t.args : TermOrderGt(s, t.args[j])
<1> DEFINE rank == [s \in Terms |-> Height(s)]
           S == {s \in Terms : \A t \in Terms : TermOrderGt(s, t) =>
                                  \A j \in DOMAIN t.args : TermOrderGt(s, t.args[j])}
<1>1. ASSUME NEW s \in Terms
      PROVE  /\ rank[s] = Height(s) /\ Height(s) \in Nat
             /\ \A i \in DOMAIN s.args : s.args[i] \in Terms /\ Height(s.args[i]) < Height(s)
  BY TermIs
<1>2. ASSUME NEW s \in Terms, NEW i \in DOMAIN s.args PROVE TermOrderGt(s, s.args[i])
  <2>1. s.args[i] \in Terms /\ s # s.args[i] /\ s.args[i] = s.args[i]
    BY <1>1
  <2> QED
    BY <2>1, PathIs
<1>3. ASSUME NEW s \in Terms, NEW t \in Terms, NEW i \in DOMAIN s.args, TermOrderGt(s.args[i], t), s # t
      PROVE  TermOrderGt(s, t)
  BY <1>3, PathIs
<1>4. ASSUME NEW s \in Terms, \A r \in Terms : rank[r] < rank[s] => r \in S PROVE s \in S
  <2> SUFFICES ASSUME NEW t \in Terms, TermOrderGt(s, t), NEW j \in DOMAIN t.args
               PROVE  TermOrderGt(s, t.args[j])
    OBVIOUS
  <2>1. t.args[j] \in Terms /\ Height(t.args[j]) < Height(t) /\ Height(t.args[j]) \in Nat
    BY <1>1
  <2>2. CASE HeadsAbove(s, t)
    BY <2>2 DEF HeadsAbove
  <2>3. ASSUME NEW i \in DOMAIN s.args, s.args[i] = t \/ TermOrderGt(s.args[i], t)
        PROVE  TermOrderGt(s, t.args[j])
    <3>1. s.args[i] \in Terms /\ Height(s.args[i]) < Height(s) /\ s.args[i] \in S
      BY <1>1, <1>4
    <3>2. CASE s.args[i] = t
      <4>1. TermOrderGt(s.args[i], t.args[j])
        BY <1>2, <3>2
      <4>2. s # t.args[j]
        BY <1>1, <2>1, <3>1, <3>2
      <4> QED
        BY <1>3, <2>1, <4>1, <4>2
    <3>3. CASE TermOrderGt(s.args[i], t)
      <4>1. TermOrderGt(s.args[i], t.args[j])
        BY <3>1, <3>3
      <4>2. s # t.args[j]
        <5> SUFFICES ASSUME s = t.args[j] PROVE FALSE
          OBVIOUS
        <5>1. TermOrderGt(s.args[i], s)
          BY <4>1
        <5>2. TermOrderGt(s.args[i], s.args[i])
          BY <3>1, <5>1
        <5> QED
          BY <3>1, <5>2, PathIs
      <4> QED
        BY <1>3, <2>1, <4>1, <4>2
    <3> QED
      BY <2>3, <3>2, <3>3
  <2>4. (\E i \in DOMAIN s.args : s.args[i] = t \/ TermOrderGt(s.args[i], t)) \/ HeadsAbove(s, t)
    BY PathIs
  <2> QED
    BY <2>2, <2>3, <2>4
<1> HIDE DEF S
<1>5. \A s \in Terms : rank[s] \in Nat
  BY <1>1
<1> HIDE DEF rank
<1>6. Terms \subseteq S
  BY <1>4, <1>5, MeasureInduction
<1> QED
  BY <1>6 DEF S

(* Where two terms differ first. *)
LEMMA DifferAtIs ==
    ASSUME NEW a \in Terms, NEW b \in Terms, NEW i, DifferAt(a, b, i)
    PROVE  /\ i \in DOMAIN a.args /\ i \in DOMAIN b.args /\ i \in Nat /\ i >= 1
           /\ \A j \in Nat : j >= 1 /\ j < i => a.args[j] = b.args[j]
           /\ a.args[i] # b.args[i]
<1>1. /\ DOMAIN a.args = 1 .. Len(a.args) /\ Len(a.args) \in Nat
  BY TermIs
<1>2. i \in DOMAIN a.args /\ i \in DOMAIN b.args
  BY DEF DifferAt
<1>3. i \in Nat /\ i >= 1
  BY <1>1, <1>2
<1>4. \A j \in Nat : j >= 1 /\ j < i => j \in 1 .. i - 1
  BY <1>3
<1> QED
  BY <1>2, <1>3, <1>4 DEF DifferAt

\* Three terms in the order of the rewriter's paths.
Passes(s, t, u) == TermOrderGt(s, t) /\ TermOrderGt(t, u) => TermOrderGt(s, u)

(* If lower terms pass on the order, no two terms are above each other. *)
LEMMA PathAsymmetric ==
    ASSUME NEW a \in Terms, NEW b \in Terms,
           \A s, t, u \in Terms : Height(s) + Height(t) + Height(u) < Height(a) + Height(b) + Height(a)
                                  => Passes(s, t, u)
    PROVE  ~(TermOrderGt(a, b) /\ TermOrderGt(b, a))
<1> SUFFICES ASSUME TermOrderGt(a, b), TermOrderGt(b, a) PROVE FALSE
  OBVIOUS
<1>1. /\ Height(a) \in Nat /\ Height(b) \in Nat
      /\ \A i \in DOMAIN a.args : /\ a.args[i] \in Terms /\ Height(a.args[i]) < Height(a)
                                  /\ Height(a.args[i]) \in Nat
      /\ \A j \in DOMAIN b.args : /\ b.args[j] \in Terms /\ Height(b.args[j]) < Height(b)
                                  /\ Height(b.args[j]) \in Nat
  BY TermIs
<1>2. \A s \in Terms : ~TermOrderGt(s, s)
  BY PathIs
<1>3. ASSUME NEW i \in DOMAIN a.args, a.args[i] = b \/ TermOrderGt(a.args[i], b) PROVE FALSE
  <2>1. TermOrderGt(b, a.args[i])
    BY AboveChildren
  <2>2. TermOrderGt(a.args[i], b)
    BY <1>2, <1>3, <2>1
  <2> DEFINE c == a.args[i]
  <2>3. c \in Terms /\ Height(c) < Height(a) /\ Height(c) \in Nat /\ TermOrderGt(b, c) /\ TermOrderGt(c, b)
    BY <1>1, <2>1, <2>2
  <2> HIDE DEF c
  <2>4. Height(c) + Height(b) + Height(c) < Height(a) + Height(b) + Height(a)
    BY <1>1, <2>3
  <2>5. Passes(c, b, c)
    BY <2>3, <2>4
  <2> QED
    BY <1>2, <2>3, <2>5 DEF Passes
<1>4. ASSUME NEW j \in DOMAIN b.args, b.args[j] = a \/ TermOrderGt(b.args[j], a) PROVE FALSE
  <2>1. TermOrderGt(a, b.args[j])
    BY AboveChildren
  <2>2. TermOrderGt(b.args[j], a)
    BY <1>2, <1>4, <2>1
  <2> DEFINE c == b.args[j]
  <2>3. c \in Terms /\ Height(c) < Height(b) /\ Height(c) \in Nat /\ TermOrderGt(a, c) /\ TermOrderGt(c, a)
    BY <1>1, <2>1, <2>2
  <2> HIDE DEF c
  <2>4. Height(a) + Height(c) + Height(a) < Height(a) + Height(b) + Height(a)
    BY <1>1, <2>3
  <2>5. Passes(a, c, a)
    BY <2>3, <2>4
  <2> QED
    BY <1>2, <2>3, <2>5 DEF Passes
<1>5. HeadsAbove(a, b) /\ HeadsAbove(b, a)
  BY <1>3, <1>4, PathIs
<1>6. HeadOrder[<<a, b>>] = 0 /\ HeadOrder[<<b, a>>] = 0
  <2> DEFINE x == HeadOrder[<<a, b>>]
             y == HeadOrder[<<b, a>>]
  <2>1. x \in Three /\ y = -x
    BY HeadsOrdered DEF WeakOrder
  <2>2. x >= 0 /\ y >= 0
    BY <1>5 DEF HeadsAbove
  <2> HIDE DEF x, y
  <2>3. x = 0 /\ y = 0
    BY <2>1, <2>2 DEF Three
  <2> QED
    BY <2>3 DEF x, y
<1>7. PICK i : DifferAt(a, b, i) /\ TermOrderGt(a.args[i], b.args[i])
  BY <1>5, <1>6 DEF HeadsAbove
<1>8. PICK j : DifferAt(b, a, j) /\ TermOrderGt(b.args[j], a.args[j])
  BY <1>5, <1>6 DEF HeadsAbove
<1>9. /\ i \in DOMAIN a.args /\ i \in DOMAIN b.args /\ j \in DOMAIN a.args /\ j \in DOMAIN b.args
      /\ i \in Nat /\ j \in Nat
  BY <1>7, <1>8, DifferAtIs
<1>10. i = j
  <2>1. /\ i >= 1 /\ a.args[i] # b.args[i] /\ \A k \in Nat : k >= 1 /\ k < i => a.args[k] = b.args[k]
        /\ j >= 1 /\ b.args[j] # a.args[j] /\ \A k \in Nat : k >= 1 /\ k < j => b.args[k] = a.args[k]
    BY <1>7, <1>8, DifferAtIs
  <2>2. ~(i < j) /\ ~(j < i)
    BY <1>9, <2>1
  <2> QED
    BY <1>9, <2>2
<1> DEFINE c == a.args[i]
           d == b.args[i]
<1>11. /\ c \in Terms /\ d \in Terms /\ Height(c) \in Nat /\ Height(d) \in Nat
       /\ Height(c) < Height(a) /\ Height(d) < Height(b)
       /\ TermOrderGt(c, d) /\ TermOrderGt(d, c)
  BY <1>1, <1>7, <1>8, <1>9, <1>10
<1> HIDE DEF c, d
<1>12. Height(c) + Height(d) + Height(c) < Height(a) + Height(b) + Height(a)
  BY <1>1, <1>11
<1>13. Passes(c, d, c)
  BY <1>11, <1>12
<1> QED
  BY <1>2, <1>11, <1>13 DEF Passes

(* If lower terms pass on the order, so do these. *)
LEMMA PathPasses ==
    ASSUME NEW a \in Terms, NEW b \in Terms, NEW c \in Terms,
           \A s, t, u \in Terms : Height(s) + Height(t) + Height(u) < Height(a) + Height(b) + Height(c)
                                  => Passes(s, t, u)
    PROVE  Passes(a, b, c)
<1> SUFFICES ASSUME TermOrderGt(a, b), TermOrderGt(b, c) PROVE TermOrderGt(a, c)
  BY DEF Passes
<1>1. \A t \in Terms : /\ Height(t) \in Nat
                       /\ \A i \in DOMAIN t.args : t.args[i] \in Terms /\ Height(t.args[i]) < Height(t)
  BY TermIs
<1>2. a # c
  BY PathAsymmetric
<1>3. ASSUME NEW i \in DOMAIN a.args, a.args[i] = b \/ TermOrderGt(a.args[i], b) PROVE TermOrderGt(a, c)
  <2> DEFINE s == a.args[i]
  <2>1. s \in Terms /\ Height(s) < Height(a) /\ (s = b \/ TermOrderGt(s, b))
    BY <1>1, <1>3
  <2> HIDE DEF s
  <2>2. Height(s) + Height(b) + Height(c) < Height(a) + Height(b) + Height(c)
    BY <1>1, <2>1
  <2>3. Passes(s, b, c)
    BY <2>1, <2>2
  <2>4. TermOrderGt(s, c)
    BY <2>1, <2>3 DEF Passes
  <2> QED
    BY <1>2, <2>4, PathIs DEF s
<1>4. ASSUME HeadsAbove(a, b), NEW j \in DOMAIN b.args, b.args[j] = c \/ TermOrderGt(b.args[j], c)
      PROVE  TermOrderGt(a, c)
  <2> DEFINE t == b.args[j]
  <2>1. t \in Terms /\ Height(t) < Height(b) /\ (t = c \/ TermOrderGt(t, c)) /\ TermOrderGt(a, t)
    BY <1>1, <1>4 DEF HeadsAbove
  <2> HIDE DEF t
  <2>2. Height(a) + Height(t) + Height(c) < Height(a) + Height(b) + Height(c)
    BY <1>1, <2>1
  <2>3. Passes(a, t, c)
    BY <2>1, <2>2
  <2> QED
    BY <2>1, <2>3 DEF Passes
<1>5. ASSUME HeadsAbove(a, b), HeadsAbove(b, c) PROVE TermOrderGt(a, c)
  <2>1. ASSUME NEW k \in DOMAIN c.args PROVE TermOrderGt(a, c.args[k])
    <3> DEFINE u == c.args[k]
    <3>1. u \in Terms /\ Height(u) < Height(c) /\ TermOrderGt(b, u)
      BY <1>1, <1>5 DEF HeadsAbove
    <3> HIDE DEF u
    <3>2. Height(a) + Height(b) + Height(u) < Height(a) + Height(b) + Height(c)
      BY <1>1, <3>1
    <3>3. Passes(a, b, u)
      BY <3>1, <3>2
    <3>4. TermOrderGt(a, u)
      BY <3>1, <3>3 DEF Passes
    <3> QED
      BY <3>4 DEF u
  <2>2. HeadOrder[<<a, b>>] >= 0 /\ HeadOrder[<<b, c>>] >= 0
    BY <1>5 DEF HeadsAbove
  <2>3. HeadOrder[<<a, c>>] >= 0
    BY <2>2, HeadsOrdered DEF WeakOrder
  <2>4. ASSUME HeadOrder[<<a, c>>] = 0 PROVE HeadOrder[<<a, b>>] = 0 /\ HeadOrder[<<b, c>>] = 0
    <3> DEFINE x == HeadOrder[<<a, b>>]
               y == HeadOrder[<<b, c>>]
               z == HeadOrder[<<a, c>>]
    <3>1. (x > 0 /\ y >= 0 => z > 0) /\ (x >= 0 /\ y > 0 => z > 0)
      BY HeadsOrdered, WeakOrderIs
    <3>2. x \in Three /\ y \in Three
      BY HeadsOrdered DEF WeakOrder
    <3>3. x >= 0 /\ y >= 0 /\ z = 0
      BY <2>2, <2>4
    <3> HIDE DEF x, y, z
    <3>4. x = 0 /\ y = 0
      BY <3>1, <3>2, <3>3 DEF Three
    <3> QED
      BY <3>4 DEF x, y
  <2>5. ASSUME HeadOrder[<<a, c>>] = 0
        PROVE  /\ Len(a.args) = Len(c.args)
               /\ \E i : DifferAt(a, c, i) /\ TermOrderGt(a.args[i], c.args[i])
    <3>1. Len(a.args) = Len(b.args) /\ Len(b.args) = Len(c.args)
      BY <1>5, <2>4, <2>5 DEF HeadsAbove
    <3>2. PICK i : DifferAt(a, b, i) /\ TermOrderGt(a.args[i], b.args[i])
      BY <1>5, <2>4, <2>5 DEF HeadsAbove
    <3>3. PICK j : DifferAt(b, c, j) /\ TermOrderGt(b.args[j], c.args[j])
      BY <1>5, <2>4, <2>5 DEF HeadsAbove
    <3>4. /\ DOMAIN a.args = 1 .. Len(a.args) /\ DOMAIN b.args = DOMAIN a.args
          /\ DOMAIN c.args = DOMAIN a.args /\ Len(a.args) \in Nat
      BY <3>1, TermIs
    <3>5. i \in DOMAIN a.args /\ j \in DOMAIN a.args /\ i \in Nat /\ j \in Nat
      BY <3>2, <3>3, <3>4 DEF DifferAt
    <3>6. CASE i < j
      <4>1. c.args[i] = b.args[i]
        BY <3>2, <3>3, <3>5, <3>6, DifferAtIs
      <4>2. DifferAt(a, c, i)
        BY <3>2, <3>3, <3>4, <3>5, <3>6, <4>1 DEF DifferAt
      <4> QED
        BY <3>1, <3>2, <4>1, <4>2
    <3>7. CASE j < i
      <4>1. a.args[j] = b.args[j]
        BY <3>2, <3>3, <3>5, <3>7, DifferAtIs
      <4>2. DifferAt(a, c, j)
        BY <3>2, <3>3, <3>4, <3>5, <3>7, <4>1 DEF DifferAt
      <4> QED
        BY <3>1, <3>3, <4>1, <4>2
    <3>8. CASE i = j
      <4> DEFINE s == a.args[i]
                 t == b.args[i]
                 u == c.args[i]
      <4>1. /\ s \in Terms /\ t \in Terms /\ u \in Terms /\ TermOrderGt(s, t) /\ TermOrderGt(t, u)
            /\ Height(s) < Height(a) /\ Height(t) < Height(b) /\ Height(u) < Height(c)
        BY <1>1, <3>2, <3>3, <3>4, <3>5, <3>8
      <4> HIDE DEF s, t, u
      <4>2. Height(s) + Height(t) + Height(u) < Height(a) + Height(b) + Height(c)
        BY <1>1, <4>1
      <4>3. Passes(s, t, u)
        BY <4>1, <4>2
      <4>4. TermOrderGt(s, u)
        BY <4>1, <4>3 DEF Passes
      <4>5. s # u
        BY <4>1, <4>4, PathIs
      <4>6. DifferAt(a, c, i)
        BY <3>2, <3>3, <3>4, <3>5, <3>8, <4>5 DEF DifferAt, s, u
      <4> QED
        BY <3>1, <4>4, <4>6 DEF s, u
    <3> QED
      BY <3>5, <3>6, <3>7, <3>8
  <2>6. HeadsAbove(a, c)
    BY <2>1, <2>3, <2>5 DEF HeadsAbove
  <2> QED
    BY <1>2, <2>6, PathIs
<1>6. (\E i \in DOMAIN a.args : a.args[i] = b \/ TermOrderGt(a.args[i], b)) \/ HeadsAbove(a, b)
  BY PathIs
<1>7. (\E j \in DOMAIN b.args : b.args[j] = c \/ TermOrderGt(b.args[j], c)) \/ HeadsAbove(b, c)
  BY PathIs
<1> QED
  BY <1>3, <1>4, <1>5, <1>6, <1>7

(* The path order is transitive. *)
LEMMA PathTransitive == \A a, b, c \in Terms : Passes(a, b, c)
<1> DEFINE D == Terms \X Terms \X Terms
           rank == [q \in D |-> Height(q[1]) + Height(q[2]) + Height(q[3])]
           S == {q \in D : Passes(q[1], q[2], q[3])}
<1>1. \A t \in Terms : Height(t) \in Nat
  BY TermIs
<1>2. \A a, b, c \in Terms : /\ <<a, b, c>> \in D
                             /\ rank[<<a, b, c>>] = Height(a) + Height(b) + Height(c)
                             /\ <<a, b, c>> \in S <=> Passes(a, b, c)
  OBVIOUS
<1>3. \A q \in D : \E a, b, c \in Terms : q = <<a, b, c>>
  OBVIOUS
<1> HIDE DEF D, rank, S
<1>4. \A q \in D : rank[q] \in Nat
  BY <1>1, <1>2, <1>3
<1>5. ASSUME NEW q \in D, \A r \in D : rank[r] < rank[q] => r \in S PROVE q \in S
  <2>1. PICK a \in Terms, b \in Terms, c \in Terms : q = <<a, b, c>>
    BY <1>3
  <2>2. ASSUME NEW s \in Terms, NEW t \in Terms, NEW u \in Terms,
               Height(s) + Height(t) + Height(u) < Height(a) + Height(b) + Height(c)
        PROVE  Passes(s, t, u)
    <3>1. <<s, t, u>> \in D /\ rank[<<s, t, u>>] < rank[q]
      BY <1>2, <2>1, <2>2
    <3> QED
      BY <1>2, <1>5, <3>1
  <2>3. Passes(a, b, c)
    BY <2>2, PathPasses
  <2> QED
    BY <1>2, <2>1, <2>3
<1>6. D \subseteq S
  BY <1>4, <1>5, MeasureInduction
<1> QED
  BY <1>2, <1>6

-----------------------------------------------------------------------------

(* OrdersAreStrict: the path order, the weight order and the canonical order are strict. *)
THEOREM OrdersAlwaysStrict == OSpec => []OrdersAreStrict
<1> DEFINE Inv == chosen = <<>> \/ \E t \in Compared : chosen = <<t>>
<1>1. OInit => Inv
  BY DEF OInit
<1>2. Inv /\ [ChooseTerm]_chosen => Inv'
  BY DEF ChooseTerm
<1>3. Inv => OrdersAreStrict
  <2> SUFFICES ASSUME NEW t \in Compared, chosen = <<t>> PROVE OrdersAreStrict
    BY DEF OrdersAreStrict
  <2>1. chosen[1] = t
    OBVIOUS
  <2>2. \A a, b \in Compared : /\ b \in AboveByPath[a] <=> TermOrderGt(a, b)
                               /\ b \in AboveByWeight[a] <=> WeightOrder[<<a, b>>] > 0
                               /\ b \in AboveInCanon[a] <=> CanonicalOrder[<<a, b>>] > 0
    BY ComparedAssumption DEF AboveByPath, AboveByWeight, AboveInCanon, WeightOrder, CanonicalOrder, Pairs
  <2>3. \A a \in Compared : /\ AboveByPath[a] \subseteq Compared /\ AboveByWeight[a] \subseteq Compared
                            /\ AboveInCanon[a] \subseteq Compared
    BY DEF AboveByPath, AboveByWeight, AboveInCanon
  <2> DEFINE Strict(above)  == t \notin above[t] /\ \A b \in above[t] : above[b] \subseteq above[t]
             Decided(above) == \A b \in Compared : (b \in above[t]) # (t \in above[b]) <=> ~Indistinct(b, t)
  <2>4. Strict(AboveByPath)
    <3>1. \A a, b, c \in Compared : TermOrderGt(a, b) /\ TermOrderGt(b, c) => TermOrderGt(a, c)
      BY PathTransitive, ComparedAssumption DEF Passes
    <3>2. ~TermOrderGt(t, t)
      BY PathIs, ComparedAssumption
    <3> QED
      BY <2>2, <2>3, <3>1, <3>2
  <2>5. ASSUME NEW c, WeakOrder(c, Terms), Distinguishes(c, Terms), NEW above,
               \A a, b \in Compared : b \in above[a] <=> c[<<a, b>>] > 0,
               \A a \in Compared : above[a] \subseteq Compared
        PROVE  Strict(above) /\ Decided(above)
    <3>1. \A a, b, e \in Compared : /\ c[<<a, a>>] = 0
                                    /\ c[<<a, b>>] > 0 /\ c[<<b, e>>] >= 0 => c[<<a, e>>] > 0
      BY <2>5, WeakOrderIs, ComparedAssumption
    <3>2. \A a, b \in Compared : /\ c[<<a, b>>] \in Three /\ c[<<b, a>>] = -c[<<a, b>>]
                                 /\ c[<<a, b>>] = 0 <=> Indistinct(a, b)
      BY <2>5, ComparedAssumption DEF WeakOrder, Distinguishes
    <3>3. \A a, b, e \in Compared : c[<<a, b>>] > 0 /\ c[<<b, e>>] > 0 => c[<<a, e>>] > 0
      <4> SUFFICES ASSUME NEW a \in Compared, NEW b \in Compared, NEW e \in Compared,
                          c[<<a, b>>] > 0, c[<<b, e>>] > 0
                   PROVE  c[<<a, e>>] > 0
        OBVIOUS
      <4>1. c[<<b, e>>] >= 0
        <5> DEFINE x == c[<<b, e>>]
        <5>1. x \in Three /\ x > 0
          BY <3>2
        <5> HIDE DEF x
        <5>2. x >= 0
          BY <5>1 DEF Three
        <5> QED
          BY <5>2 DEF x
      <4> QED
        BY <3>1, <4>1
    <3>4. Strict(above)
      <4>1. t \notin above[t]
        <5>1. c[<<t, t>>] = 0 /\ ~(0 > 0)
          BY <3>1
        <5>2. t \in above[t] <=> c[<<t, t>>] > 0
          BY <2>5
        <5> QED
          BY <5>1, <5>2
      <4>2. ASSUME NEW b \in above[t], NEW e \in above[b] PROVE e \in above[t]
        <5>1. b \in Compared
          BY <2>5
        <5>2. e \in Compared
          BY <2>5, <4>2, <5>1
        <5> QED
          BY <2>5, <3>3, <4>2, <5>1, <5>2
      <4> QED
        BY <4>1, <4>2
    <3>5. ASSUME NEW b \in Compared PROVE (b \in above[t]) # (t \in above[b]) <=> ~Indistinct(b, t)
      <4> DEFINE x == c[<<t, b>>]
                 y == c[<<b, t>>]
      <4>1. x \in Three /\ y = -x /\ (y = 0 <=> Indistinct(b, t))
        BY <3>2
      <4>2. (b \in above[t] <=> x > 0) /\ (t \in above[b] <=> y > 0)
        BY <2>5
      <4> HIDE DEF x, y
      <4>3. (x = -1 /\ y = 1) \/ (x = 0 /\ y = 0) \/ (x = 1 /\ y = -1)
        BY <4>1 DEF Three
      <4>4. y # 0 <=> (x > 0 /\ ~(y > 0)) \/ (y > 0 /\ ~(x > 0))
        BY <4>3
      <4>5. y = 0 <=> Indistinct(b, t)
        BY <4>1
      <4>6. (b \in above[t]) # (t \in above[b]) <=> (x > 0 /\ ~(y > 0)) \/ (y > 0 /\ ~(x > 0))
        BY <4>2
      <4> QED
        BY <4>4, <4>5, <4>6
    <3> QED
      BY <3>4, <3>5
  <2>6. Strict(AboveByWeight) /\ Decided(AboveByWeight)
    <3> HIDE DEF Strict, Decided
    <3> QED
      BY <2>2, <2>3, <2>5, WeightIsOrder
  <2>7. Strict(AboveInCanon) /\ Decided(AboveInCanon)
    <3> HIDE DEF Strict, Decided
    <3> QED
      BY <2>2, <2>3, <2>5, CanonicalIsOrder
  <2> QED
    BY <2>1, <2>4, <2>6, <2>7 DEF OrdersAreStrict
<1> HIDE DEF Inv
<1> QED
  BY <1>1, <1>2, <1>3, PTL DEF OSpec

-----------------------------------------------------------------------------
(* The patterns as they are tried. *)

(* Sorting the patterns by their weight leaves out none of the places. *)
LEMMA HeaviestFirstIs ==
    ASSUME NEW ps \in Seq(Terms)
    PROVE  HeaviestFirst(ps) \in Seq(Terms) /\ Len(HeaviestFirst(ps)) = Len(ps)
<1> DEFINE n == Len(ps)
           weighed == {<<Weight(ps[i]), i>> : i \in 1 .. n}
           Leads(p, q) == p[1] > q[1] \/ (p[1] = q[1] /\ p[2] < q[2])
           Sorts(o) == \A i, j \in 1 .. n : i < j => Leads(o[i], o[j])
           Before(i, j) == \/ Weight(ps[i]) > Weight(ps[j])
                           \/ Weight(ps[i]) = Weight(ps[j]) /\ i < j
           Heavier(j) == {k \in 1 .. n : Before(k, j)}
           position == [j \in 1 .. n |-> Cardinality(Heavier(j)) + 1]
           place(i) == CHOOSE j \in 1 .. n : Cardinality(Heavier(j)) = i - 1
<1>1. n \in Nat /\ DOMAIN ps = 1 .. n
  OBVIOUS
<1>2. \A i \in 1 .. n : Weight(ps[i]) \in Nat
  BY <1>1, WeightIs
<1>3. /\ \A i \in 1 .. n : ~Before(i, i)
      /\ \A i, j \in 1 .. n : i # j => Before(i, j) \/ Before(j, i)
      /\ \A i, j, k \in 1 .. n : Before(i, j) /\ Before(j, k) => Before(i, k)
  BY <1>2
<1> HIDE DEF Before
<1>4. IsFiniteSet(1 .. n) /\ Cardinality(1 .. n) = n
  BY <1>1, FS_Interval
<1>5. ASSUME NEW j \in 1 .. n
      PROVE  IsFiniteSet(Heavier(j)) /\ Cardinality(Heavier(j)) \in Nat /\ Cardinality(Heavier(j)) < n
  <2>1. Heavier(j) \subseteq 1 .. n /\ Heavier(j) # 1 .. n
    BY <1>3
  <2> HIDE DEF Heavier
  <2>2. IsFiniteSet(Heavier(j)) /\ Cardinality(Heavier(j)) <= n /\ Cardinality(Heavier(j)) # n
    BY <1>4, <2>1, FS_Subset
  <2>3. Cardinality(Heavier(j)) \in Nat
    BY <2>2, FS_CardinalityType
  <2> QED
    BY <1>1, <2>2, <2>3
<1>6. ASSUME NEW i \in 1 .. n, NEW j \in 1 .. n, Before(i, j)
      PROVE  Cardinality(Heavier(i)) # Cardinality(Heavier(j))
  <2>1. Heavier(i) \subseteq Heavier(j) /\ Heavier(i) # Heavier(j)
    BY <1>3, <1>6
  <2> HIDE DEF Heavier
  <2> QED
    BY <1>5, <2>1, FS_Subset
<1>7. position \in Injection(1 .. n, 1 .. n)
  <2>1. position \in [1 .. n -> 1 .. n]
    <3> HIDE DEF Heavier
    <3> QED
      BY <1>1, <1>5
  <2>2. \A i, j \in 1 .. n : position[i] = position[j] => i = j
    <3> HIDE DEF Heavier
    <3> QED
      BY <1>3, <1>5, <1>6
  <2> HIDE DEF position
  <2> QED
    BY <2>1, <2>2, Fun_IsInj
<1>8. position \in Surjection(1 .. n, 1 .. n)
  <2> HIDE DEF position
  <2> QED
    BY <1>4, <1>7, FS_Injection
<1>9. ASSUME NEW i \in 1 .. n
      PROVE  place(i) \in 1 .. n /\ Cardinality(Heavier(place(i))) = i - 1
  <2>1. PICK j \in 1 .. n : position[j] = i
    <3> HIDE DEF position, n
    <3> QED
      BY <1>8 DEF Surjection
  <2>2. Cardinality(Heavier(j)) = i - 1
    <3>1. position[j] = Cardinality(Heavier(j)) + 1
      OBVIOUS
    <3> HIDE DEF position, Heavier
    <3> QED
      BY <1>1, <1>5, <2>1, <3>1
  <2> HIDE DEF Heavier
  <2> QED
    BY <2>2
<1> DEFINE sorted == [i \in 1 .. n |-> <<Weight(ps[place(i)]), place(i)>>]
           order  == CHOOSE o \in [1 .. n -> weighed] : Sorts(o)
<1>10. ASSUME NEW i \in 1 .. n, NEW j \in 1 .. n, i < j
       PROVE  Before(place(i), place(j))
  <2>1. /\ place(i) \in 1 .. n /\ Cardinality(Heavier(place(i))) = i - 1
        /\ place(j) \in 1 .. n /\ Cardinality(Heavier(place(j))) = j - 1
    BY <1>9
  <2> HIDE DEF place
  <2>2. place(i) # place(j)
    <3> HIDE DEF Heavier, n
    <3> QED
      BY <2>1, <1>1, <1>10
  <2>3. CASE Before(place(j), place(i))
    <3>1. Heavier(place(j)) \subseteq Heavier(place(i))
      BY <1>3, <2>1, <2>3
    <3>2. IsFiniteSet(Heavier(place(i)))
      BY <1>5, <2>1
    <3> HIDE DEF Heavier, n
    <3>3. Cardinality(Heavier(place(j))) <= Cardinality(Heavier(place(i)))
      BY <3>1, <3>2, FS_Subset
    <3> QED
      BY <1>1, <1>10, <2>1, <3>3
  <2> HIDE DEF Heavier
  <2> QED
    BY <1>3, <2>1, <2>2, <2>3
<1>11. \E o \in [1 .. n -> weighed] : Sorts(o)
  <2>1. sorted \in [1 .. n -> weighed]
    <3> HIDE DEF place
    <3> QED
      BY <1>9
  <2>2. Sorts(sorted)
    <3> SUFFICES ASSUME NEW i \in 1 .. n, NEW j \in 1 .. n, i < j
                 PROVE  Leads(sorted[i], sorted[j])
      OBVIOUS
    <3>1. sorted[i] = <<Weight(ps[place(i)]), place(i)>> /\ sorted[j] = <<Weight(ps[place(j)]), place(j)>>
      OBVIOUS
    <3>2. Before(place(i), place(j))
      BY <1>10
    <3> HIDE DEF place, sorted
    <3> QED
      BY <3>1, <3>2 DEF Before
  <2> HIDE DEF sorted, Sorts, weighed
  <2> QED
    BY <2>1, <2>2
<1>12. order \in [1 .. n -> weighed]
  <2> HIDE DEF Sorts, weighed, n
  <2> QED
    BY <1>11
<1>13. \A i \in 1 .. n : ps[order[i][2]] \in Terms
  <2> HIDE DEF order, n
  <2>1. \A p \in weighed : p[2] \in 1 .. n
    OBVIOUS
  <2> HIDE DEF weighed
  <2> QED
    BY <1>1, <1>12, <2>1
<1>14. HeaviestFirst(ps) = [i \in 1 .. n |-> ps[order[i][2]]]
  BY <1>1 DEF HeaviestFirst
<1> HIDE DEF order, n
<1>15. /\ [i \in 1 .. n |-> ps[order[i][2]]] \in Seq(Terms)
       /\ Len([i \in 1 .. n |-> ps[order[i][2]]]) = n
  BY <1>1, <1>13
<1> QED
  BY <1>14, <1>15 DEF n

(* The patterns as they are tried are as many. *)
LEMMA TriedIs ==
    ASSUME NEW kind, NEW ps \in Seq(Terms)
    PROVE  Tried(kind, ps) \in Seq(Terms) /\ Len(Tried(kind, ps)) = Len(ps)
  BY HeaviestFirstIs DEF Tried

-----------------------------------------------------------------------------
(* The matcher has a solution. *)

Results == [ok : BOOLEAN, bound : Bindings, taken : SUBSET Nat]
Asked   == Terms \X Terms \X Bindings

\* The places of the search for operands: the next pattern, what is bound and taken.
Places(es, ps) == (1 .. Len(ps) + 1) \X Bindings \X SUBSET DOMAIN es

TakeStep(match, take, kind, es, ps, q) ==
    LET j       == q[1]
        Here(k) == match[<<es[k], ps[j], q[2]>>]
        Rest(k) == take[<<j + 1, Here(k).bound, q[3] \cup {k}>>]
        free    == IF kind \in Associative THEN DOMAIN es \ q[3] ELSE {j}
        good    == {k \in free : Here(k).ok /\ Rest(k).ok}
    IN  IF j > Len(ps) THEN Match(q[2], q[3])
        ELSE IF good = {} THEN NoMatch ELSE Rest(Least(good))

Taking(take, match, kind, es, ps) ==
    take = [q \in Places(es, ps) |-> TakeStep(match, take, kind, es, ps, q)]

\* The two matchers answer alike for the operands and the patterns.
Alike(f, g, es, ps) ==
    \A k \in DOMAIN es, j \in DOMAIN ps, b \in Bindings :
        f[<<es[k], ps[j], b>>] \in Results /\ f[<<es[k], ps[j], b>>] = g[<<es[k], ps[j], b>>]

(* Failing and matching are results. *)
LEMMA MatchIs ==
    /\ NoMatch \in Results
    /\ \A b \in Bindings, T \in SUBSET Nat : Match(b, T) \in Results
  BY DEF NoMatch, Match, Results, Bindings

(* A step of the search depends on what the patterns answer for the operands and on the *)
(* search for the next pattern.                                                         *)
LEMMA TakeStepIs ==
    ASSUME NEW kind, NEW es \in Seq(Terms), NEW ps \in Seq(Terms),
           kind \in Associative \/ Len(es) = Len(ps),
           NEW f, NEW g, Alike(f, g, es, ps), NEW q \in Places(es, ps), NEW t, NEW u,
           \A r \in Places(es, ps) : r[1] = q[1] + 1 => t[r] \in Results /\ t[r] = u[r]
    PROVE  /\ TakeStep(f, t, kind, es, ps, q) \in Results
           /\ TakeStep(f, t, kind, es, ps, q) = TakeStep(g, u, kind, es, ps, q)
<1> DEFINE n == Len(ps)
           m == Len(es)
<1>1. n \in Nat /\ DOMAIN ps = 1 .. n /\ m \in Nat /\ DOMAIN es = 1 .. m
  OBVIOUS
<1>2. PICK j \in 1 .. n + 1, b \in Bindings, T \in SUBSET (1 .. m) : q = <<j, b, T>>
  <2> DEFINE J == 1 .. n + 1
             S == SUBSET (1 .. m)
  <2>1. q \in J \X Bindings \X S
    BY <1>1 DEF Places
  <2> HIDE DEF J, S
  <2>2. q = <<q[1], q[2], q[3]>> /\ q[1] \in J /\ q[2] \in Bindings /\ q[3] \in S
    BY <2>1
  <2> QED
    BY <2>2 DEF J, S
<1> DEFINE HereF(k) == f[<<es[k], ps[j], b>>]
           HereG(k) == g[<<es[k], ps[j], b>>]
           RestF(k) == t[<<j + 1, HereF(k).bound, T \cup {k}>>]
           RestG(k) == u[<<j + 1, HereG(k).bound, T \cup {k}>>]
           free == IF kind \in Associative THEN DOMAIN es \ T ELSE {j}
           goodF == {k \in free : HereF(k).ok /\ RestF(k).ok}
           goodG == {k \in free : HereG(k).ok /\ RestG(k).ok}
<1>3. /\ TakeStep(f, t, kind, es, ps, q) =
            IF j > n THEN Match(b, T) ELSE IF goodF = {} THEN NoMatch ELSE RestF(Least(goodF))
      /\ TakeStep(g, u, kind, es, ps, q) =
            IF j > n THEN Match(b, T) ELSE IF goodG = {} THEN NoMatch ELSE RestG(Least(goodG))
  BY <1>2 DEF TakeStep
<1>4. kind \in Associative \/ m = n
  OBVIOUS
<1> HIDE DEF n, m
<1>5. T \in SUBSET Nat
  BY <1>1
<1>6. CASE j > n
  <2> HIDE DEF goodF, goodG, RestF, RestG
  <2> QED
    BY <1>3, <1>5, <1>6, MatchIs
<1>7. CASE ~(j > n)
  <2>1. j \in 1 .. n
    BY <1>1, <1>7
  <2>2. free \subseteq 1 .. m
    BY <1>1, <1>4, <2>1
  <2> HIDE DEF free
  <2>3. ASSUME NEW k \in free
        PROVE  HereF(k) = HereG(k) /\ RestF(k) = RestG(k) /\ RestF(k) \in Results
    <3>1. HereF(k) \in Results /\ HereF(k) = HereG(k)
      BY <1>1, <2>1, <2>2 DEF Alike
    <3>2. HereF(k).bound \in Bindings
      BY <3>1 DEF Results
    <3> DEFINE r == <<j + 1, HereF(k).bound, T \cup {k}>>
    <3>3. j + 1 \in 1 .. n + 1
      BY <1>1, <2>1
    <3>4. T \cup {k} \in SUBSET (1 .. m)
      BY <2>2
    <3> HIDE DEF HereF, HereG
    <3>5. r \in Places(es, ps)
      BY <1>1, <3>2, <3>3, <3>4 DEF Places, n
    <3>6. r[1] = j + 1 /\ q[1] = j
      BY <1>2
    <3>7. t[r] \in Results /\ t[r] = u[r]
      <4> HIDE DEF r
      <4> QED
        BY <3>5, <3>6
    <3> QED
      BY <3>1, <3>7
  <2>4. goodF = goodG
    <3> HIDE DEF HereF, HereG, RestF, RestG
    <3> QED
      BY <2>3
  <2>5. goodF # {} => Least(goodF) \in free
    <3>1. goodF \in SUBSET Nat /\ goodF \subseteq free
      <4> HIDE DEF HereF, RestF
      <4>1. free \subseteq Nat
        BY <1>1, <2>2
      <4> QED
        BY <4>1
    <3> HIDE DEF goodF
    <3>2. goodF # {} => \E x \in goodF : \A y \in goodF : x <= y
      BY <3>1, HasLeast
    <3> QED
      BY <3>1, <3>2 DEF Least
  <2> HIDE DEF goodF, goodG, RestF, RestG
  <2>6. CASE goodF = {}
    BY <1>3, <1>7, <2>4, <2>6, MatchIs
  <2>7. CASE goodF # {}
    <3>1. Least(goodF) \in free /\ goodF = goodG
      BY <2>4, <2>5, <2>7
    <3>2. TakeStep(f, t, kind, es, ps, q) = RestF(Least(goodF))
      BY <1>3, <1>7, <2>7
    <3>3. TakeStep(g, u, kind, es, ps, q) = RestG(Least(goodF))
      BY <1>3, <1>7, <2>7, <3>1
    <3> QED
      BY <2>3, <3>1, <3>2, <3>3
  <2> QED
    BY <2>6, <2>7
<1> QED
  BY <1>6, <1>7

(* A search for operands that is a solution answers with results, and it is a solution *)
(* as well for a matcher that answers alike.                                           *)
LEMMA TakingIs ==
    ASSUME NEW kind, NEW es \in Seq(Terms), NEW ps \in Seq(Terms),
           kind \in Associative \/ Len(es) = Len(ps),
           NEW f, NEW g, Alike(f, g, es, ps), NEW t, Taking(t, f, kind, es, ps)
    PROVE  (\A q \in Places(es, ps) : t[q] \in Results) /\ Taking(t, g, kind, es, ps)
<1> DEFINE D == Places(es, ps)
           left == [q \in D |-> Len(ps) + 1 - q[1]]
           S == {q \in D : t[q] \in Results}
<1>1. \A q \in D : t[q] = TakeStep(f, t, kind, es, ps, q)
  <2> DEFINE G == [q \in D |-> TakeStep(f, t, kind, es, ps, q)]
  <2>1. t = G
    BY DEF Taking
  <2>2. \A q \in D : G[q] = TakeStep(f, t, kind, es, ps, q)
    OBVIOUS
  <2> HIDE DEF G
  <2> QED
    BY <2>1, <2>2
<1>2. \A q \in D : left[q] \in Nat /\ left[q] = Len(ps) + 1 - q[1] /\ q[1] \in Nat
  <2>1. Len(ps) \in Nat
    OBVIOUS
  <2>2. \A q \in D : q[1] \in 1 .. Len(ps) + 1
    BY DEF Places
  <2> QED
    BY <2>1, <2>2
<1> HIDE DEF left, D
<1>3. ASSUME NEW q \in D, \A r \in D : left[r] < left[q] => r \in S PROVE q \in S
  <2>1. ASSUME NEW r \in D, r[1] = q[1] + 1 PROVE t[r] \in Results /\ t[r] = t[r]
    <3>1. left[r] < left[q]
      <4>1. Len(ps) \in Nat
        OBVIOUS
      <4> QED
        BY <1>2, <2>1, <4>1
    <3> QED
      BY <1>3, <3>1
  <2>2. TakeStep(f, t, kind, es, ps, q) \in Results
    BY <2>1, TakeStepIs DEF D
  <2> QED
    BY <1>1, <2>2
<1> HIDE DEF S
<1>4. D \subseteq S
  BY <1>2, <1>3, MeasureInduction
<1>5. \A q \in D : t[q] \in Results
  BY <1>4 DEF S
<1>6. \A q \in D : TakeStep(f, t, kind, es, ps, q) = TakeStep(g, t, kind, es, ps, q)
  BY <1>5, TakeStepIs DEF D
<1>7. Taking(t, g, kind, es, ps)
  <2>1. [q \in D |-> TakeStep(f, t, kind, es, ps, q)] = [q \in D |-> TakeStep(g, t, kind, es, ps, q)]
    BY <1>6
  <2> QED
    BY <2>1 DEF Taking, D
<1> QED
  BY <1>5, <1>7 DEF D

(* The search for operands has a solution. *)
LEMMA TakingExists ==
    ASSUME NEW kind, NEW es \in Seq(Terms), NEW ps \in Seq(Terms),
           kind \in Associative \/ Len(es) = Len(ps),
           NEW f, Alike(f, f, es, ps)
    PROVE  \E t : Taking(t, f, kind, es, ps)
<1> DEFINE D == Places(es, ps)
           rank == [q \in D |-> Len(ps) + 1 - q[1]]
           step == [p \in D \X [D -> Results] |-> TakeStep(f, p[2], kind, es, ps, p[1])]
<1>1. \A q \in D : /\ rank[q] \in Nat /\ rank[q] < Len(ps) + 2 /\ q[1] \in Nat
                   /\ rank[q] = Len(ps) + 1 - q[1]
  <2>1. Len(ps) \in Nat
    OBVIOUS
  <2>2. \A q \in D : q[1] \in 1 .. Len(ps) + 1
    BY DEF Places
  <2> QED
    BY <2>1, <2>2
<1>2. \A q \in D, t \in [D -> Results] : step[<<q, t>>] = TakeStep(f, t, kind, es, ps, q)
  OBVIOUS
<1> HIDE DEF rank, step, D
<1>3. ASSUME NEW q \in D, NEW t \in [D -> Results] PROVE step[<<q, t>>] \in Results
  <2>1. \A r \in D : t[r] \in Results /\ t[r] = t[r]
    OBVIOUS
  <2>2. TakeStep(f, t, kind, es, ps, q) \in Results
    BY <2>1, TakeStepIs DEF D
  <2> QED
    BY <1>2, <2>2
<1>4. ASSUME NEW q \in D, NEW t \in [D -> Results], NEW u \in [D -> Results],
             \A r \in D : rank[r] < rank[q] => t[r] = u[r]
      PROVE  step[<<q, t>>] = step[<<q, u>>]
  <2>1. ASSUME NEW r \in D, r[1] = q[1] + 1 PROVE t[r] \in Results /\ t[r] = u[r]
    <3>1. rank[r] < rank[q]
      <4>1. Len(ps) \in Nat
        OBVIOUS
      <4> QED
        BY <1>1, <2>1, <4>1
    <3> QED
      BY <1>4, <3>1
  <2>2. TakeStep(f, t, kind, es, ps, q) = TakeStep(f, u, kind, es, ps, q)
    BY <2>1, TakeStepIs DEF D
  <2> QED
    BY <1>2, <2>2
<1>5. Founded(D, Results, Len(ps) + 2, rank, step)
  BY <1>1, <1>3, <1>4 DEF Founded
<1>6. PICK t : Recursing(t, D, Results, step)
  <2>1. Results # {} /\ Len(ps) + 2 \in Nat
    BY MatchIs
  <2> QED
    BY <1>5, <2>1, RecursionExists
<1>7. t \in [D -> Results] /\ \A q \in D : t[q] = step[<<q, t>>]
  BY <1>6 DEF Recursing
<1>8. \A q \in D : t[q] = TakeStep(f, t, kind, es, ps, q)
  BY <1>2, <1>7
<1>9. t = [q \in D |-> TakeStep(f, t, kind, es, ps, q)]
  <2>1. t = [q \in D |-> t[q]]
    BY <1>7
  <2> DEFINE G == [q \in D |-> TakeStep(f, t, kind, es, ps, q)]
  <2>2. t = G
    BY <1>8, <2>1
  <2> QED
    BY <2>2
<1> QED
  BY <1>9 DEF Taking, D

\* The two matchers answer alike for the operands, whatever the pattern.
AlikeFor(f, g, es) ==
    \A k \in DOMAIN es, p \in Terms, b \in Bindings :
        f[<<es[k], p, b>>] \in Results /\ f[<<es[k], p, b>>] = g[<<es[k], p, b>>]

(* Operands are matched with a result that depends on the answers for them alone. *)
LEMMA TakeOperandsIs ==
    ASSUME NEW kind, NEW es \in Seq(Terms), NEW patterns \in Seq(Terms), NEW bound \in Bindings,
           kind \in Associative \/ Len(es) = Len(patterns), NEW f, NEW g, AlikeFor(f, g, es)
    PROVE  /\ TakeOperands(f, kind, es, patterns, bound) \in Results
           /\ TakeOperands(f, kind, es, patterns, bound) = TakeOperands(g, kind, es, patterns, bound)
<1> DEFINE ps == Tried(kind, patterns)
           Take(m) == CHOOSE t : Taking(t, m, kind, es, ps)
           start == <<1, bound, {}>>
<1>1. ps \in Seq(Terms) /\ (kind \in Associative \/ Len(es) = Len(ps))
  BY TriedIs
<1>2. /\ TakeOperands(f, kind, es, patterns, bound) = Take(f)[start]
      /\ TakeOperands(g, kind, es, patterns, bound) = Take(g)[start]
  BY DEF TakeOperands, Taking, TakeStep, Places
<1> HIDE DEF ps
<1>3. Alike(f, g, es, ps) /\ Alike(g, f, es, ps) /\ Alike(f, f, es, ps)
  <2>1. \A j \in DOMAIN ps : ps[j] \in Terms
    BY <1>1
  <2> QED
    BY <2>1 DEF Alike, AlikeFor
<1>4. start \in Places(es, ps)
  <2>1. Len(ps) \in Nat /\ 1 \in 1 .. Len(ps) + 1
    BY <1>1
  <2> QED
    BY <2>1 DEF Places
<1>5. \A t : Taking(t, f, kind, es, ps) <=> Taking(t, g, kind, es, ps)
  BY <1>1, <1>3, TakingIs
<1>6. Take(f) = Take(g)
  BY <1>5
<1>7. Taking(Take(f), f, kind, es, ps)
  <2>1. \E t : Taking(t, f, kind, es, ps)
    BY <1>1, <1>3, TakingExists
  <2> HIDE DEF Taking
  <2> QED
    BY <2>1
<1>8. Take(f)[start] \in Results
  <2> HIDE DEF Take, start
  <2> QED
    BY <1>1, <1>3, <1>4, <1>7, TakingIs
<1> QED
  BY <1>2, <1>6, <1>8

MatchStep(f, q) ==
    IF IsWildcard(q[2]) THEN MatchWildcard(q[1], q[2].tag, q[3])
    ELSE IF SameRoot(q[1], q[2]) THEN TakeOperands(f, q[1].kind, q[1].args, q[2].args, q[3])
    ELSE NoMatch

(* A step of the matcher depends on its answers for the operands. *)
LEMMA MatchStepIs ==
    ASSUME NEW q \in Asked, NEW f \in [Asked -> Results], NEW g \in [Asked -> Results],
           \A r \in Asked : Height(r[1]) < Height(q[1]) => f[r] = g[r]
    PROVE  MatchStep(f, q) \in Results /\ MatchStep(f, q) = MatchStep(g, q)
<1>1. PICK e \in Terms, p \in Terms, b \in Bindings : q = <<e, p, b>>
  <2>1. q = <<q[1], q[2], q[3]>> /\ q[1] \in Terms /\ q[2] \in Terms /\ q[3] \in Bindings
    BY DEF Asked
  <2> QED
    BY <2>1
<1>2. /\ e.args \in Seq(Terms) /\ p.args \in Seq(Terms) /\ p.tag \in Int
      /\ \A k \in DOMAIN e.args : e.args[k] \in Terms /\ Height(e.args[k]) < Height(e)
  BY TermIs
<1>3. /\ MatchStep(f, q) = IF IsWildcard(p) THEN MatchWildcard(e, p.tag, b)
                           ELSE IF SameRoot(e, p) THEN TakeOperands(f, e.kind, e.args, p.args, b)
                           ELSE NoMatch
      /\ MatchStep(g, q) = IF IsWildcard(p) THEN MatchWildcard(e, p.tag, b)
                           ELSE IF SameRoot(e, p) THEN TakeOperands(g, e.kind, e.args, p.args, b)
                           ELSE NoMatch
  BY <1>1 DEF MatchStep
<1>4. MatchWildcard(e, p.tag, b) \in Results
  <2>1. b \cup {<<p.tag, e>>} \in Bindings
    BY <1>2 DEF Bindings
  <2> QED
    BY <2>1, MatchIs DEF MatchWildcard
<1>5. ASSUME NEW k \in DOMAIN e.args, NEW r \in Terms, NEW c \in Bindings
      PROVE  f[<<e.args[k], r, c>>] \in Results /\ f[<<e.args[k], r, c>>] = g[<<e.args[k], r, c>>]
  <2> DEFINE a == <<e.args[k], r, c>>
  <2>1. a \in Asked /\ a[1] = e.args[k] /\ q[1] = e
    BY <1>1, <1>2 DEF Asked
  <2>2. Height(a[1]) < Height(q[1])
    BY <1>2, <2>1
  <2> HIDE DEF a
  <2>3. f[a] \in Results /\ f[a] = g[a]
    BY <2>1, <2>2
  <2> QED
    BY <2>3 DEF a
<1>6. CASE SameRoot(e, p)
  <2>1. Len(e.args) = Len(p.args)
    BY <1>6 DEF SameRoot
  <2>2. /\ TakeOperands(f, e.kind, e.args, p.args, b) \in Results
        /\ TakeOperands(f, e.kind, e.args, p.args, b) = TakeOperands(g, e.kind, e.args, p.args, b)
    <3>1. AlikeFor(f, g, e.args)
      BY <1>5 DEF AlikeFor
    <3>2. e.args \in Seq(Terms) /\ p.args \in Seq(Terms) /\ b \in Bindings
      BY <1>2
    <3>3. e.kind \in Associative \/ Len(e.args) = Len(p.args)
      BY <2>1
    <3> DEFINE kind == e.kind
               es == e.args
               ps == p.args
    <3> HIDE DEF kind, es, ps
    <3>4. /\ es \in Seq(Terms) /\ ps \in Seq(Terms) /\ AlikeFor(f, g, es)
          /\ kind \in Associative \/ Len(es) = Len(ps)
      BY <3>1, <3>2, <3>3 DEF kind, es, ps
    <3>5. \A h, i : AlikeFor(h, i, es) =>
             /\ TakeOperands(h, kind, es, ps, b) \in Results
             /\ TakeOperands(h, kind, es, ps, b) = TakeOperands(i, kind, es, ps, b)
      BY <3>2, <3>4, TakeOperandsIs
    <3> QED
      BY <3>4, <3>5 DEF kind, es, ps
  <2> QED
    BY <1>3, <1>4, <1>6, <2>2
<1>7. CASE ~SameRoot(e, p)
  BY <1>3, <1>4, <1>7, MatchIs
<1> QED
  BY <1>6, <1>7

MatchSolves(f) == f = [q \in Asked |-> MatchStep(f, q)]

(* The matcher has a solution. *)
LEMMA MatchExists == \E f : MatchSolves(f)
<1> DEFINE rank == [q \in Asked |-> Height(q[1])]
           step == [p \in Asked \X [Asked -> Results] |-> MatchStep(p[2], p[1])]
<1>1. \A q \in Asked : rank[q] = Height(q[1]) /\ rank[q] \in Nat /\ rank[q] < MaxHeight + 1
  <2>1. \A q \in Asked : q[1] \in Terms
    BY DEF Asked
  <2>2. \A q \in Asked : Height(q[1]) \in Nat /\ Height(q[1]) <= MaxHeight
    BY <2>1, TermIs
  <2> QED
    BY <2>2, HeightAssumption
<1>2. \A q \in Asked, f \in [Asked -> Results] : step[<<q, f>>] = MatchStep(f, q)
  OBVIOUS
<1> HIDE DEF rank, step
<1>3. \A q \in Asked, f \in [Asked -> Results] : step[<<q, f>>] \in Results
  BY <1>2, MatchStepIs
<1>4. ASSUME NEW q \in Asked, NEW f \in [Asked -> Results], NEW g \in [Asked -> Results],
             \A r \in Asked : rank[r] < rank[q] => f[r] = g[r]
      PROVE  step[<<q, f>>] = step[<<q, g>>]
  <2>1. \A r \in Asked : Height(r[1]) < Height(q[1]) => f[r] = g[r]
    BY <1>1, <1>4
  <2>2. MatchStep(f, q) = MatchStep(g, q)
    BY <2>1, MatchStepIs
  <2> QED
    BY <1>2, <2>2
<1>5. Founded(Asked, Results, MaxHeight + 1, rank, step)
  BY <1>1, <1>3, <1>4 DEF Founded
<1>6. PICK f : Recursing(f, Asked, Results, step)
  <2>1. Results # {} /\ MaxHeight + 1 \in Nat
    BY MatchIs, HeightAssumption
  <2> QED
    BY <1>5, <2>1, RecursionExists
<1>7. f \in [Asked -> Results] /\ \A q \in Asked : f[q] = step[<<q, f>>]
  BY <1>6 DEF Recursing
<1>8. \A q \in Asked : f[q] = MatchStep(f, q)
  BY <1>2, <1>7
<1> DEFINE G == [q \in Asked |-> MatchStep(f, q)]
<1>9. f = G
  <2>1. f = [q \in Asked |-> f[q]]
    BY <1>7
  <2> QED
    BY <1>8, <2>1
<1> QED
  BY <1>9 DEF MatchSolves

(* A pattern that matches a term is a wildcard or has its root. *)
LEMMA MatchSharesRoot ==
    ASSUME NEW e \in Terms, NEW p \in Terms, MatchPattern(e, p, {}).ok
    PROVE  IsWildcard(p) \/ SameRoot(e, p)
<1> DEFINE q == <<e, p, {}>>
<1>1. MatchSolves(Matching)
  <2>1. Matching = CHOOSE f : MatchSolves(f)
    BY DEF Matching, MatchSolves, MatchStep, Asked
  <2> HIDE DEF MatchSolves
  <2> QED
    BY <2>1, MatchExists
<1>2. q \in Asked /\ q[1] = e /\ q[2] = p
  BY DEF Asked, Bindings
<1>3. Matching[q] = MatchStep(Matching, q)
  <2> DEFINE G == [r \in Asked |-> MatchStep(Matching, r)]
  <2>1. Matching = G
    BY <1>1 DEF MatchSolves
  <2>2. G[q] = MatchStep(Matching, q)
    BY <1>2
  <2> HIDE DEF G
  <2> QED
    BY <2>1, <2>2
<1>4. Matching[q].ok
  BY DEF MatchPattern
<1> HIDE DEF q
<1> QED
  BY <1>2, <1>3, <1>4 DEF MatchStep, NoMatch

-----------------------------------------------------------------------------
(* The net. *)

Universal  == {r \in Rulebook : IsWildcard(r.pattern)}
CallsOf(f) == {r \in Rulebook : ~IsWildcard(r.pattern) /\ r.pattern.kind = "FuncCall" /\ r.pattern.tag = f}
OfKind(k)  == {r \in Rulebook : ~IsWildcard(r.pattern) /\ r.pattern.kind = k}

\* Of the rules that were inserted the bucket holds those in S, in the same order.
Holds(b, S, rules) ==
    /\ b \in Seq(S)
    /\ \A i \in DOMAIN rules : rules[i] \in S => \E k \in DOMAIN b : b[k] = rules[i]
    /\ \A k \in DOMAIN b : \E i \in DOMAIN rules : rules[i] = b[k]
    /\ \A k, l \in DOMAIN b : k < l =>
          \E i, j \in DOMAIN rules : i < j /\ rules[i] = b[k] /\ rules[j] = b[l]

\* A net whose buckets hold these rules.
NetOf(n, rules) ==
    /\ n = [kinds |-> n.kinds, calls |-> n.calls, universal |-> n.universal, size |-> n.size]
    /\ rules \in Seq(Rulebook) /\ n.size = Len(rules)
    /\ DOMAIN n.kinds = Kinds
    /\ Holds(n.universal, Universal, rules)
    /\ \A f \in Int : Holds(Bucket(n, f), CallsOf(f), rules)
    /\ \A k \in Kinds \ {"FuncCall"} : Holds(n.kinds[k], OfKind(k), rules)

NetHolds == NetOf(net, inserted)

(* A bucket and the inserted rules before any insertion. *)
LEMMA HoldsNothing == \A S : Holds(<<>>, S, <<>>)
  BY DEF Holds

(* A rule is appended to its bucket. *)
LEMMA HoldsAppended ==
    ASSUME NEW S, NEW b, NEW rules \in Seq(Rulebook), Holds(b, S, rules), NEW r \in S
    PROVE  Holds(Append(b, r), S, Append(rules, r))
<1> DEFINE c == Append(b, r)
           after == Append(rules, r)
           m == Len(b)
           n == Len(rules)
<1>1. b \in Seq(S) /\ m \in Nat /\ n \in Nat /\ DOMAIN b = 1 .. m /\ DOMAIN rules = 1 .. n
  BY DEF Holds
<1>2. /\ c \in Seq(S) /\ DOMAIN c = 1 .. m + 1 /\ c[m + 1] = r /\ \A k \in 1 .. m : c[k] = b[k]
      /\ DOMAIN after = 1 .. n + 1 /\ after[n + 1] = r /\ \A i \in 1 .. n : after[i] = rules[i]
  BY <1>1
<1> HIDE DEF c, after, m, n
<1>3. /\ \A i \in 1 .. n : rules[i] \in S => \E k \in 1 .. m : b[k] = rules[i]
      /\ \A k \in 1 .. m : \E i \in 1 .. n : rules[i] = b[k]
      /\ \A k, l \in 1 .. m : k < l => \E i, j \in 1 .. n : i < j /\ rules[i] = b[k] /\ rules[j] = b[l]
  <2>1. /\ \A i \in DOMAIN rules : rules[i] \in S => \E k \in DOMAIN b : b[k] = rules[i]
        /\ \A k \in DOMAIN b : \E i \in DOMAIN rules : rules[i] = b[k]
        /\ \A k, l \in DOMAIN b : k < l =>
              \E i, j \in DOMAIN rules : i < j /\ rules[i] = b[k] /\ rules[j] = b[l]
    BY Zenon DEF Holds
  <2>2. DOMAIN rules = 1 .. n /\ DOMAIN b = 1 .. m
    BY <1>1
  <2>3. \A i \in 1 .. n : rules[i] \in S => \E k \in 1 .. m : b[k] = rules[i]
    BY <2>1, <2>2
  <2>4. \A k \in 1 .. m : \E i \in 1 .. n : rules[i] = b[k]
    BY <2>1, <2>2
  <2>5. \A k, l \in 1 .. m : k < l => \E i, j \in 1 .. n : i < j /\ rules[i] = b[k] /\ rules[j] = b[l]
    <3> SUFFICES ASSUME NEW k \in 1 .. m, NEW l \in 1 .. m, k < l
                 PROVE  \E i, j \in 1 .. n : i < j /\ rules[i] = b[k] /\ rules[j] = b[l]
      OBVIOUS
    <3>1. PICK i \in DOMAIN rules, j \in DOMAIN rules : i < j /\ rules[i] = b[k] /\ rules[j] = b[l]
      BY <2>1, <2>2
    <3> QED
      BY <2>2, <3>1
  <2> QED
    BY <2>3, <2>4, <2>5
<1>4. \A k \in 1 .. m + 1 : k \in 1 .. m \/ k = m + 1
  BY <1>1
<1>5. \A i \in 1 .. n + 1 : i \in 1 .. n \/ i = n + 1
  BY <1>1
<1>6. 1 .. m \subseteq 1 .. m + 1 /\ m + 1 \in 1 .. m + 1 /\ 1 .. n \subseteq 1 .. n + 1 /\ n + 1 \in 1 .. n + 1
  BY <1>1
<1>7. ASSUME NEW i \in 1 .. n + 1, after[i] \in S PROVE \E k \in 1 .. m + 1 : c[k] = after[i]
  <2>1. CASE i \in 1 .. n
    <3>1. rules[i] \in S /\ after[i] = rules[i]
      BY <1>2, <1>7, <2>1
    <3>2. PICK k \in 1 .. m : b[k] = rules[i]
      BY <1>3, <2>1, <3>1
    <3>3. k \in 1 .. m + 1 /\ c[k] = after[i]
      BY <1>2, <1>6, <3>1, <3>2
    <3> QED
      BY <3>3
  <2>2. CASE i = n + 1
    BY <1>2, <1>6, <2>2
  <2> QED
    BY <1>5, <2>1, <2>2
<1>8. ASSUME NEW k \in 1 .. m + 1 PROVE \E i \in 1 .. n + 1 : after[i] = c[k]
  <2>1. CASE k \in 1 .. m
    <3>1. PICK i \in 1 .. n : rules[i] = b[k]
      BY <1>3, <2>1
    <3>2. i \in 1 .. n + 1 /\ after[i] = c[k]
      BY <1>2, <1>6, <2>1, <3>1
    <3> QED
      BY <3>2
  <2>2. CASE k = m + 1
    BY <1>2, <1>6, <2>2
  <2> QED
    BY <1>4, <2>1, <2>2
<1>9. ASSUME NEW k \in 1 .. m + 1, NEW l \in 1 .. m + 1, k < l
      PROVE  \E i, j \in 1 .. n + 1 : i < j /\ after[i] = c[k] /\ after[j] = c[l]
  <2>1. k \in 1 .. m
    BY <1>1, <1>9
  <2>2. CASE l \in 1 .. m
    <3>1. PICK i \in 1 .. n, j \in 1 .. n : i < j /\ rules[i] = b[k] /\ rules[j] = b[l]
      BY <1>3, <1>9, <2>1, <2>2
    <3>2. i \in 1 .. n + 1 /\ j \in 1 .. n + 1 /\ after[i] = c[k] /\ after[j] = c[l]
      BY <1>2, <1>6, <2>1, <2>2, <3>1
    <3> QED
      BY <3>1, <3>2
  <2>3. CASE l = m + 1
    <3>1. PICK i \in 1 .. n : rules[i] = b[k]
      BY <1>3, <2>1
    <3>2. i < n + 1 /\ after[i] = c[k] /\ after[n + 1] = c[l]
      BY <1>1, <1>2, <2>1, <2>3, <3>1
    <3> QED
      BY <1>6, <3>2
  <2> QED
    BY <1>4, <2>2, <2>3
<1>10. Holds(c, S, after)
  <2>1. c \in Seq(S) /\ DOMAIN c = 1 .. m + 1 /\ DOMAIN after = 1 .. n + 1
    BY <1>2
  <2>2. \A i \in DOMAIN after : after[i] \in S => \E k \in DOMAIN c : c[k] = after[i]
    BY <1>7, <2>1
  <2>3. \A k \in DOMAIN c : \E i \in DOMAIN after : after[i] = c[k]
    BY <1>8, <2>1
  <2>4. \A k, l \in DOMAIN c : k < l => \E i, j \in DOMAIN after : i < j /\ after[i] = c[k] /\ after[j] = c[l]
    BY <1>9, <2>1
  <2> QED
    BY <2>1, <2>2, <2>3, <2>4, Zenon DEF Holds
<1> QED
  BY <1>10 DEF c, after

(* A rule of another bucket is inserted. *)
LEMMA HoldsUnchanged ==
    ASSUME NEW S, NEW b, NEW rules \in Seq(Rulebook), Holds(b, S, rules), NEW r, r \notin S
    PROVE  Holds(b, S, Append(rules, r))
<1> DEFINE after == Append(rules, r)
           n == Len(rules)
<1>1. n \in Nat /\ DOMAIN rules = 1 .. n
  OBVIOUS
<1>2. DOMAIN after = 1 .. n + 1 /\ after[n + 1] = r /\ \A i \in 1 .. n : after[i] = rules[i]
  BY <1>1
<1> HIDE DEF after, n
<1>3. (\A i \in 1 .. n + 1 : i \in 1 .. n \/ i = n + 1) /\ 1 .. n \subseteq 1 .. n + 1
  BY <1>1
<1>4. Holds(b, S, after)
  <2>1. b \in Seq(S)
    BY DEF Holds
  <2>2. \A i \in DOMAIN after : after[i] \in S => \E k \in DOMAIN b : b[k] = after[i]
    BY <1>1, <1>2, <1>3 DEF Holds
  <2>3. \A k \in DOMAIN b : \E i \in DOMAIN after : after[i] = b[k]
    BY <1>1, <1>2, <1>3 DEF Holds
  <2>4. \A k, l \in DOMAIN b : k < l =>
           \E i, j \in DOMAIN after : i < j /\ after[i] = b[k] /\ after[j] = b[l]
    <3> SUFFICES ASSUME NEW k \in DOMAIN b, NEW l \in DOMAIN b, k < l
                 PROVE  \E i, j \in DOMAIN after : i < j /\ after[i] = b[k] /\ after[j] = b[l]
      OBVIOUS
    <3>1. PICK i \in DOMAIN rules, j \in DOMAIN rules : i < j /\ rules[i] = b[k] /\ rules[j] = b[l]
      BY DEF Holds
    <3>2. i \in DOMAIN after /\ j \in DOMAIN after /\ after[i] = b[k] /\ after[j] = b[l]
      BY <1>1, <1>2, <1>3, <3>1
    <3> QED
      BY <3>1, <3>2
  <2> QED
    BY <2>1, <2>2, <2>3, <2>4 DEF Holds
<1> QED
  BY <1>4 DEF after

(* Insertion puts a rule into its bucket and no other. *)
LEMMA InsertIs ==
    ASSUME NEW n, NEW rules, NetOf(n, rules), NEW r \in Rulebook
    PROVE  NetOf(Insert(n, r), Append(rules, r))
<1> DEFINE p == r.pattern
           after == Append(rules, r)
           m == Insert(n, r)
<1>1. p \in Terms
  BY RulebookAssumption
<1>2. p.kind \in Kinds /\ p.tag \in Int
  BY <1>1, TermIs
<1>3. /\ n = [kinds |-> n.kinds, calls |-> n.calls, universal |-> n.universal, size |-> n.size]
      /\ rules \in Seq(Rulebook) /\ n.size = Len(rules) /\ DOMAIN n.kinds = Kinds
  BY DEF NetOf
<1>4. after \in Seq(Rulebook) /\ Len(after) = n.size + 1
  BY <1>3
<1>5. /\ \A S, b : Holds(b, S, rules) /\ r \in S => Holds(Append(b, r), S, after)
      /\ \A S, b : Holds(b, S, rules) /\ r \notin S => Holds(b, S, after)
  BY <1>3, HoldsAppended, HoldsUnchanged
<1>6. /\ r \in Universal <=> IsWildcard(p)
      /\ \A f \in Int : r \in CallsOf(f) <=> ~IsWildcard(p) /\ p.kind = "FuncCall" /\ p.tag = f
      /\ \A k \in Kinds : r \in OfKind(k) <=> ~IsWildcard(p) /\ p.kind = k
  BY DEF Universal, CallsOf, OfKind
<1>7. /\ Holds(n.universal, Universal, rules)
      /\ \A f \in Int : Holds(Bucket(n, f), CallsOf(f), rules)
      /\ \A k \in Kinds \ {"FuncCall"} : Holds(n.kinds[k], OfKind(k), rules)
  BY DEF NetOf
<1>8. CASE IsWildcard(p)
  <2>1. m = [n EXCEPT !.universal = Append(@, r), !.size = @ + 1]
    BY <1>8 DEF Insert
  <2>2. /\ m = [kinds |-> m.kinds, calls |-> m.calls, universal |-> m.universal, size |-> m.size]
        /\ m.kinds = n.kinds /\ m.calls = n.calls /\ m.universal = Append(n.universal, r)
        /\ m.size = n.size + 1
    BY <1>3, <2>1
  <2>3. \A f \in Int : Bucket(m, f) = Bucket(n, f)
    BY <2>2 DEF Bucket
  <2> HIDE DEF m, after, p
  <2>4. \A f \in Int : Holds(Bucket(m, f), CallsOf(f), after)
    BY <1>5, <1>6, <1>7, <1>8, <2>3
  <2>5. Holds(m.universal, Universal, after)
    BY <1>5, <1>6, <1>7, <1>8, <2>2
  <2>6. \A k \in Kinds \ {"FuncCall"} : Holds(m.kinds[k], OfKind(k), after)
    BY <1>5, <1>6, <1>7, <1>8, <2>2
  <2>7. NetOf(m, after)
    BY <1>3, <1>4, <2>2, <2>4, <2>5, <2>6 DEF NetOf
  <2> QED
    BY <2>7 DEF m, after
<1>9. CASE ~IsWildcard(p) /\ p.kind = "FuncCall"
  <2> DEFINE calls == [f \in DOMAIN n.calls \cup {p.tag} |->
                          IF f = p.tag THEN Append(Bucket(n, f), r) ELSE n.calls[f]]
  <2>1. m = [n EXCEPT !.calls = calls, !.size = @ + 1]
    BY <1>9 DEF Insert
  <2> HIDE DEF calls
  <2>2. /\ m = [kinds |-> m.kinds, calls |-> m.calls, universal |-> m.universal, size |-> m.size]
        /\ m.kinds = n.kinds /\ m.calls = calls /\ m.universal = n.universal /\ m.size = n.size + 1
    BY <1>3, <2>1
  <2>3. \A f \in Int : Bucket(m, f) = IF f = p.tag THEN Append(Bucket(n, f), r) ELSE Bucket(n, f)
    BY <2>2 DEF Bucket, calls
  <2> HIDE DEF m, after, p
  <2>4. ASSUME NEW f \in Int PROVE Holds(Bucket(m, f), CallsOf(f), after)
    BY <1>5, <1>6, <1>7, <1>9, <2>3
  <2>5. Holds(m.universal, Universal, after)
    BY <1>5, <1>6, <1>7, <1>9, <2>2
  <2>6. \A k \in Kinds \ {"FuncCall"} : Holds(m.kinds[k], OfKind(k), after)
    BY <1>5, <1>6, <1>7, <1>9, <2>2
  <2>7. NetOf(m, after)
    BY <1>3, <1>4, <2>2, <2>4, <2>5, <2>6 DEF NetOf
  <2> QED
    BY <2>7 DEF m, after
<1>10. CASE ~IsWildcard(p) /\ p.kind # "FuncCall"
  <2>1. m = [n EXCEPT !.kinds[p.kind] = Append(@, r), !.size = @ + 1]
    BY <1>10 DEF Insert
  <2> DEFINE kinds == [n.kinds EXCEPT ![p.kind] = Append(@, r)]
  <2>2. /\ m = [kinds |-> m.kinds, calls |-> m.calls, universal |-> m.universal, size |-> m.size]
        /\ m.kinds = kinds /\ m.calls = n.calls /\ m.universal = n.universal /\ m.size = n.size + 1
    BY <1>3, <2>1
  <2>3. \A f \in Int : Bucket(m, f) = Bucket(n, f)
    BY <2>2 DEF Bucket
  <2>4. DOMAIN kinds = Kinds /\ \A k \in Kinds : kinds[k] = IF k = p.kind THEN Append(n.kinds[k], r) ELSE n.kinds[k]
    BY <1>2, <1>3
  <2> HIDE DEF m, after, p, kinds
  <2>5. \A f \in Int : Holds(Bucket(m, f), CallsOf(f), after)
    BY <1>5, <1>6, <1>7, <1>10, <2>3
  <2>6. Holds(m.universal, Universal, after)
    BY <1>5, <1>6, <1>7, <1>10, <2>2
  <2>7. ASSUME NEW k \in Kinds \ {"FuncCall"} PROVE Holds(m.kinds[k], OfKind(k), after)
    <3>1. Holds(n.kinds[k], OfKind(k), rules)
      BY <1>7
    <3>2. CASE k = p.kind
      <4>1. r \in OfKind(k) /\ m.kinds[k] = Append(n.kinds[k], r)
        BY <1>6, <1>10, <2>2, <2>4, <3>2
      <4> QED
        BY <1>5, <3>1, <4>1
    <3>3. CASE k # p.kind
      <4>1. r \notin OfKind(k) /\ m.kinds[k] = n.kinds[k]
        BY <1>6, <1>10, <2>2, <2>4, <3>3
      <4> QED
        BY <1>5, <3>1, <4>1
    <3> QED
      BY <3>2, <3>3
  <2>8. NetOf(m, after)
    BY <1>4, <2>2, <2>4, <2>5, <2>6, <2>7 DEF NetOf
  <2> QED
    BY <2>8 DEF m, after
<1> QED
  BY <1>8, <1>9, <1>10

(* An empty net. *)
LEMMA EmptyNetIs == NetOf(EmptyNet, <<>>)
<1>1. /\ EmptyNet.universal = <<>> /\ EmptyNet.size = 0 /\ DOMAIN EmptyNet.kinds = Kinds
      /\ \A k \in Kinds : EmptyNet.kinds[k] = <<>>
      /\ \A f \in Int : Bucket(EmptyNet, f) = <<>>
      /\ EmptyNet = [kinds |-> EmptyNet.kinds, calls |-> EmptyNet.calls,
                     universal |-> EmptyNet.universal, size |-> EmptyNet.size]
  BY DEF EmptyNet, Bucket, Kinds
<1> QED
  BY <1>1, HoldsNothing DEF NetOf

(* The buckets hold the inserted rules. *)
LEMMA NetInvariant == NSpec => []NetHolds
<1>1. NInit => NetHolds
  BY EmptyNetIs DEF NInit, NetHolds
<1>2. NetHolds /\ [NNext]_nvars => NetHolds'
  <2> SUFFICES ASSUME NetHolds, [NNext]_nvars PROVE NetHolds'
    OBVIOUS
  <2>1. CASE InsertRule
    BY <2>1, InsertIs DEF InsertRule, NetHolds
  <2>2. CASE ClearNet
    BY <2>2, EmptyNetIs DEF ClearNet, NetHolds
  <2>3. CASE UNCHANGED nvars
    BY <2>3 DEF nvars, NetHolds, NetOf, Holds, Bucket
  <2> QED
    BY <2>1, <2>2, <2>3 DEF NNext
<1> QED
  BY <1>1, <1>2, PTL DEF NSpec

(* What the net proposes for a term. *)
LEMMA ProposedIs ==
    ASSUME NEW t \in Terms, NetHolds
    PROVE  LET proposed == Lookup(net, t)
           IN  /\ \A i \in DOMAIN inserted : MatchPattern(t, inserted[i].pattern, {}).ok =>
                      \E k \in DOMAIN proposed : proposed[k] = inserted[i]
               /\ \A k \in DOMAIN proposed : \E i \in DOMAIN inserted : inserted[i] = proposed[k]
               /\ \A i, k \in DOMAIN proposed : i < k => Precedes(proposed[i], proposed[k])
<1> DEFINE S == IF t.kind = "FuncCall" THEN CallsOf(t.tag) ELSE OfKind(t.kind)
           own == Specific(net, t)
           all == net.universal
           proposed == own \o all
           m == Len(own)
           n == Len(all)
<1>1. t.kind \in Kinds /\ t.tag \in Int
  BY TermIs
<1>2. Holds(own, S, inserted) /\ Holds(all, Universal, inserted) /\ inserted \in Seq(Rulebook)
  BY <1>1 DEF NetHolds, NetOf, Specific
<1>3. own \in Seq(S) /\ all \in Seq(Universal)
  BY <1>2 DEF Holds
<1>4. m \in Nat /\ n \in Nat /\ DOMAIN own = 1 .. m /\ DOMAIN all = 1 .. n
  BY <1>3
<1>5. /\ DOMAIN proposed = 1 .. m + n
      /\ \A k \in 1 .. m : proposed[k] = own[k]
      /\ \A k \in 1 .. n : proposed[m + k] = all[k]
  BY <1>3, <1>4
<1>6. /\ \A r \in S : ~IsWildcard(r.pattern)
      /\ \A r \in Universal : IsWildcard(r.pattern)
  BY DEF Universal, CallsOf, OfKind
<1> HIDE DEF S, own, all, proposed, m, n
<1>7. \A k \in 1 .. m + n : k \in 1 .. m \/ \E l \in 1 .. n : k = m + l
  <2> SUFFICES ASSUME NEW k \in 1 .. m + n, ~(k \in 1 .. m) PROVE \E l \in 1 .. n : k = m + l
    OBVIOUS
  <2>1. k - m \in 1 .. n /\ k = m + (k - m)
    BY <1>4
  <2> QED
    BY <2>1
<1>8. (\A k \in 1 .. m : k \in 1 .. m + n) /\ (\A l \in 1 .. n : m + l \in 1 .. m + n)
  BY <1>4
<1>9. ASSUME NEW i \in DOMAIN inserted, MatchPattern(t, inserted[i].pattern, {}).ok
      PROVE  \E k \in DOMAIN proposed : proposed[k] = inserted[i]
  <2> DEFINE r == inserted[i]
  <2>1. r \in Rulebook /\ r.pattern \in Terms
    BY <1>2, RulebookAssumption
  <2>2. IsWildcard(r.pattern) \/ SameRoot(t, r.pattern)
    BY <1>9, <2>1, MatchSharesRoot
  <2>3. CASE IsWildcard(r.pattern)
    <3>1. r \in Universal
      BY <2>1, <2>3 DEF Universal
    <3>2. PICK l \in 1 .. n : all[l] = r
      BY <1>2, <1>4, <3>1 DEF Holds
    <3> QED
      BY <1>5, <1>8, <3>2
  <2>4. CASE ~IsWildcard(r.pattern)
    <3>1. r.pattern.kind = t.kind /\ r.pattern.tag = t.tag
      BY <2>2, <2>4 DEF SameRoot
    <3>2. r \in S
      BY <2>1, <2>4, <3>1 DEF S, CallsOf, OfKind
    <3>3. PICK l \in 1 .. m : own[l] = r
      BY <1>2, <1>4, <3>2 DEF Holds
    <3> QED
      BY <1>5, <1>8, <3>3
  <2> QED
    BY <2>3, <2>4
<1>10. ASSUME NEW k \in DOMAIN proposed PROVE \E i \in DOMAIN inserted : inserted[i] = proposed[k]
  <2>1. CASE k \in 1 .. m
    BY <1>2, <1>4, <1>5, <2>1 DEF Holds
  <2>2. CASE \E l \in 1 .. n : k = m + l
    BY <1>2, <1>4, <1>5, <2>2 DEF Holds
  <2> QED
    BY <1>5, <1>7, <2>1, <2>2
<1>11. ASSUME NEW i \in DOMAIN proposed, NEW k \in DOMAIN proposed, i < k
       PROVE  Precedes(proposed[i], proposed[k])
  <2> DEFINE InTurn(a, b) == \E x, y \in DOMAIN inserted : x < y /\ inserted[x] = a /\ inserted[y] = b
  <2>1. CASE i \in 1 .. m /\ k \in 1 .. m
    <3>1. InTurn(own[i], own[k])
      BY <1>2, <1>4, <1>11, <2>1 DEF Holds
    <3>2. own[i] \in S /\ own[k] \in S
      BY <1>3, <1>4, <2>1
    <3>3. ~IsWildcard(own[i].pattern) /\ ~IsWildcard(own[k].pattern)
      BY <1>6, <3>2
    <3>4. Precedes(own[i], own[k])
      BY <3>1, <3>3 DEF Precedes
    <3> QED
      BY <1>5, <2>1, <3>4
  <2>2. CASE i \in 1 .. m /\ \E l \in 1 .. n : k = m + l
    <3>1. PICK l \in 1 .. n : k = m + l
      BY <2>2
    <3>2. own[i] \in S /\ all[l] \in Universal
      BY <1>3, <1>4, <2>2
    <3>3. ~IsWildcard(own[i].pattern) /\ IsWildcard(all[l].pattern)
      BY <1>6, <3>2
    <3>4. Precedes(own[i], all[l])
      BY <3>3 DEF Precedes
    <3> QED
      BY <1>5, <2>2, <3>1, <3>4
  <2>3. CASE ~(i \in 1 .. m) /\ \E l \in 1 .. n : i = m + l
    <3>1. PICK l \in 1 .. n : i = m + l
      BY <2>3
    <3>2. k \notin 1 .. m
      BY <1>4, <1>11, <3>1
    <3>3. PICK o \in 1 .. n : k = m + o
      BY <1>5, <1>7, <3>2
    <3>4. l < o
      BY <1>4, <1>11, <3>1, <3>3
    <3>5. InTurn(all[l], all[o])
      <4>1. l \in DOMAIN all /\ o \in DOMAIN all
        BY <1>4
      <4> QED
        BY <1>2, <3>4, <4>1 DEF Holds
    <3>6. all[l] \in Universal /\ all[o] \in Universal
      BY <1>3, <1>4
    <3>7. IsWildcard(all[l].pattern) /\ IsWildcard(all[o].pattern)
      BY <1>6, <3>6
    <3>8. Precedes(all[l], all[o])
      BY <3>5, <3>7 DEF Precedes
    <3> QED
      BY <1>5, <3>1, <3>3, <3>8
  <2> QED
    BY <1>5, <1>7, <2>1, <2>2, <2>3
<1>12. proposed = Lookup(net, t)
  BY DEF Lookup, proposed, own, all
<1> QED
  BY <1>9, <1>10, <1>11, <1>12

(* Whatever rules were inserted in whatever order, of trees of any height: the net *)
(* proposes every rule that would match, each once, and none that was cleared.     *)
THEOREM NetNeverMisses == NSpec => []NetMissesNothing
<1>1. NetHolds => NetMissesNothing
  <2> SUFFICES ASSUME NetHolds PROVE NetMissesNothing
    OBVIOUS
  <2>1. net.size = Len(inserted)
    BY DEF NetHolds, NetOf
  <2>2. \A t \in Probes : t \in Terms
    BY RulebookAssumption
  <2> QED
    BY <2>1, <2>2, ProposedIs DEF NetMissesNothing
<1> QED
  BY <1>1, NetInvariant, PTL
=============================================================================
