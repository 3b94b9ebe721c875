------------------------------ MODULE Recursion ------------------------------
(***************************************************************************)
(* Induction and recursion for the proofs.  A theorem over an operator     *)
(* cannot be instantiated by the provers, so induction is stated with a    *)
(* set, and a recursive function is a loop (it stops, or goes on with the  *)
(* next state), a repetition (of a number of rounds) or a recursion whose  *)
(* places have a rank: its equation has a solution, and an invariant with  *)
(* a measure tells what it computes.                                       *)
(***************************************************************************)
EXTENDS Integers, Sequences, WellFoundedInduction, FunctionTheorems, FiniteSetTheorems, TLAPS

-----------------------------------------------------------------------------
(* A set that has 0 and with every number the next one has them all. *)
LEMMA SetInduction ==
    ASSUME NEW S, 0 \in S, \A n \in Nat : n \in S => n + 1 \in S
    PROVE  Nat \subseteq S
<1> SUFFICES ASSUME Nat \ S # {} PROVE FALSE
  OBVIOUS
<1> DEFINE Less == {ss \in Nat \X Nat : ss[1] < ss[2]}
<1>1. IsWellFoundedOn(Less, Nat)
  BY NatLessThanWellFounded DEF OpToRel
<1> HIDE DEF Less
<1>2. PICK n \in Nat \ S : \A m \in Nat \ S : ~(<<m, n>> \in Less)
  BY <1>1, WFMin
<1>3. n # 0 /\ n - 1 \in Nat /\ <<n - 1, n>> \in Less
  BY DEF Less
<1> QED
  BY <1>2, <1>3

\* The loop with these rounds, as an equation: it stops in Stops with the value out, and
\* goes on with next otherwise.
Looping(f, D, Stops, out, next) ==
    f = [p \in D |-> IF p \in Stops THEN out[p] ELSE f[next[p]]]

(* The equation of a loop has a solution, whether the loop ends or not.  G relates a place *)
(* to the value the loop reaches from there: it is the least relation that its rounds      *)
(* allow.                                                                                  *)
LEMMA LoopExists ==
    ASSUME NEW D, NEW Stops, NEW out, NEW next, \A p \in D \ Stops : next[p] \in D
    PROVE  \E f : Looping(f, D, Stops, out, next)
<1> DEFINE V == {out[p] : p \in D}
           Closed(S) == /\ \A p \in D : p \in Stops => <<p, out[p]>> \in S
                        /\ \A p \in D \ Stops : \A v \in V :
                              <<next[p], v>> \in S => <<p, v>> \in S
           G == {g \in D \X V : \A S \in SUBSET (D \X V) : Closed(S) => g \in S}
           f == [p \in D |-> IF \E v \in V : <<p, v>> \in G THEN CHOOSE v \in V : <<p, v>> \in G
                             ELSE 0]
<1>1. Closed(G)
  <2>1. ASSUME NEW p \in D, p \in Stops PROVE <<p, out[p]>> \in G
    BY <2>1
  <2>2. ASSUME NEW p \in D \ Stops, NEW v \in V, <<next[p], v>> \in G PROVE <<p, v>> \in G
    <3>1. \A S \in SUBSET (D \X V) : Closed(S) => <<next[p], v>> \in S
      BY <2>2
    <3> QED
      BY <3>1
  <2> HIDE DEF G
  <2> QED
    BY <2>1, <2>2
<1>2. G \in SUBSET (D \X V) /\ \A S \in SUBSET (D \X V) : Closed(S) => G \subseteq S
  OBVIOUS
<1> HIDE DEF G
<1>3. ASSUME NEW p \in D, p \in Stops, NEW v \in V, <<p, v>> \in G PROVE v = out[p]
  <2> SUFFICES ASSUME v # out[p] PROVE FALSE
    OBVIOUS
  <2> DEFINE S == G \ {<<p, v>>}
  <2>1. Closed(S)
    <3>1. ASSUME NEW r \in D, r \in Stops PROVE <<r, out[r]>> \in S
      BY <1>1, <3>1
    <3>2. ASSUME NEW r \in D \ Stops, NEW w \in V, <<next[r], w>> \in S PROVE <<r, w>> \in S
      BY <1>1, <1>3, <3>2
    <3> HIDE DEF S
    <3> QED
      BY <3>1, <3>2
  <2> HIDE DEF Closed
  <2> QED
    BY <1>2, <1>3, <2>1
<1>4. ASSUME NEW p \in D \ Stops, NEW v \in V, <<p, v>> \in G PROVE <<next[p], v>> \in G
  <2> SUFFICES ASSUME <<next[p], v>> \notin G PROVE FALSE
    OBVIOUS
  <2> DEFINE S == G \ {<<p, v>>}
  <2>1. Closed(S)
    <3>1. ASSUME NEW r \in D, r \in Stops PROVE <<r, out[r]>> \in S
      BY <1>1, <3>1
    <3>2. ASSUME NEW r \in D \ Stops, NEW w \in V, <<next[r], w>> \in S PROVE <<r, w>> \in S
      BY <1>1, <3>2
    <3> HIDE DEF S
    <3> QED
      BY <3>1, <3>2
  <2> HIDE DEF Closed
  <2> QED
    BY <1>2, <1>4, <2>1
<1>5. ASSUME NEW p \in D PROVE f[p] = IF p \in Stops THEN out[p] ELSE f[next[p]]
  <2>1. CASE p \in Stops
    <3>1. out[p] \in V /\ <<p, out[p]>> \in G
      BY <1>1, <2>1
    <3> HIDE DEF V, Closed
    <3>2. \A v \in V : <<p, v>> \in G => v = out[p]
      BY <1>3, <2>1
    <3>3. (CHOOSE v \in V : <<p, v>> \in G) = out[p]
      BY <3>1, <3>2
    <3> QED
      BY <2>1, <3>1, <3>3
  <2>2. CASE p \notin Stops
    <3>1. \A v \in V : <<p, v>> \in G <=> <<next[p], v>> \in G
      BY <1>1, <1>4, <2>2
    <3>2. next[p] \in D
      BY <2>2
    <3> HIDE DEF V, Closed
    <3>3. (CHOOSE v \in V : <<p, v>> \in G) = (CHOOSE v \in V : <<next[p], v>> \in G)
      BY <3>1
    <3> QED
      BY <2>2, <3>1, <3>2, <3>3
  <2> QED
    BY <2>1, <2>2
<1>6. f = [p \in D |-> f[p]]
  OBVIOUS
<1> DEFINE g == [p \in D |-> IF p \in Stops THEN out[p] ELSE f[next[p]]]
<1> HIDE DEF f
<1>7. f = g
  BY <1>5, <1>6
<1>8. Looping(f, D, Stops, out, next)
  BY <1>7 DEF Looping
<1> QED
  BY <1>8

(* A set is everything if it has each element below which it has all, by some measure. *)
LEMMA MeasureInduction ==
    ASSUME NEW D, NEW S, NEW measure, \A p \in D : measure[p] \in Nat,
           \A p \in D : (\A r \in D : measure[r] < measure[p] => r \in S) => p \in S
    PROVE  D \subseteq S
<1> DEFINE P == {n \in Nat : \A p \in D : measure[p] < n => p \in S}
<1>1. 0 \in P
  OBVIOUS
<1>2. ASSUME NEW n \in Nat, n \in P PROVE n + 1 \in P
  <2> SUFFICES ASSUME NEW p \in D, measure[p] < n + 1 PROVE p \in S
    OBVIOUS
  <2>1. \A r \in D : measure[r] < measure[p] => measure[r] < n
    OBVIOUS
  <2>2. \A r \in D : measure[r] < measure[p] => r \in S
    BY <1>2, <2>1
  <2> QED
    BY <2>2
<1> HIDE DEF P
<1>3. Nat \subseteq P
  BY <1>1, <1>2, SetInduction
<1>4. ASSUME NEW p \in D PROVE p \in S
  <2>1. measure[p] + 1 \in Nat /\ measure[p] < measure[p] + 1
    OBVIOUS
  <2> QED
    BY <1>3, <2>1 DEF P
<1> QED
  BY <1>4

(* A loop that keeps an invariant and comes nearer to its end ends, and keeps it. *)
LEMMA LoopEnds ==
    ASSUME NEW D, NEW Stops, NEW out, NEW next, NEW f, Looping(f, D, Stops, out, next),
           NEW Inv, Inv \subseteq D, NEW measure, \A p \in Inv : measure[p] \in Nat,
           \A p \in Inv \ Stops : next[p] \in Inv /\ measure[next[p]] < measure[p]
    PROVE  \A p \in Inv : \E e \in Inv \cap Stops : f[p] = out[e]
<1> DEFINE S == {p \in Inv : \E e \in Inv \cap Stops : f[p] = out[e]}
<1>1. ASSUME NEW p \in Inv, \A r \in Inv : measure[r] < measure[p] => r \in S PROVE p \in S
  <2>1. f[p] = IF p \in Stops THEN out[p] ELSE f[next[p]]
    BY DEF Looping
  <2>2. CASE p \in Stops
    BY <2>1, <2>2
  <2>3. CASE p \notin Stops
    <3>1. next[p] \in S
      BY <1>1, <2>3
    <3> QED
      BY <2>1, <2>3, <3>1
  <2> QED
    BY <2>2, <2>3
<1> HIDE DEF S
<1>2. Inv \subseteq S
  BY <1>1, MeasureInduction
<1> QED
  BY <1>2 DEF S

(* A set of indices that has the first and with each the next one has them all. *)
LEMMA RangeInduction ==
    ASSUME NEW n \in Nat, NEW S, 0 \in S, \A j \in 1 .. n : j - 1 \in S => j \in S
    PROVE  0 .. n \subseteq S
<1> DEFINE P == {j \in Nat : j <= n => j \in S}
<1>1. 0 \in P
  OBVIOUS
<1>2. ASSUME NEW j \in Nat, j \in P PROVE j + 1 \in P
  <2> SUFFICES ASSUME j + 1 <= n PROVE j + 1 \in S
    OBVIOUS
  <2>1. j + 1 \in 1 .. n /\ (j + 1) - 1 \in S
    BY <1>2
  <2> QED
    BY <2>1
<1> HIDE DEF P
<1>3. Nat \subseteq P
  BY <1>1, <1>2, SetInduction
<1> QED
  BY <1>3 DEF P

\* A repetition of n rounds from a on: its values after each of them.
Repeating(f, n, a, step) == f = [i \in 0 .. n |-> IF i = 0 THEN a ELSE step[<<i, f[i - 1]>>]]

(* The equation of a repetition has a solution. *)
LEMMA RepetitionExists ==
    ASSUME NEW n \in Nat, NEW D, NEW a \in D, NEW step,
           \A i \in 1 .. n, x \in D : step[<<i, x>>] \in D
    PROVE  \E f : Repeating(f, n, a, step) /\ \A i \in 0 .. n : f[i] \in D
<1> DEFINE P == {m \in Nat : \E f : Repeating(f, m, a, step) /\ \A i \in 0 .. m : f[i] \in D}
<1>1. 0 \in P
  <2>1. Repeating([i \in 0 .. 0 |-> a], 0, a, step)
    BY DEF Repeating
  <2> QED
    BY <2>1
<1>2. ASSUME NEW j \in 1 .. n, j - 1 \in P PROVE j \in P
  <2>1. PICK f : Repeating(f, j - 1, a, step) /\ \A i \in 0 .. j - 1 : f[i] \in D
    BY <1>2
  <2> DEFINE g == [i \in 0 .. j |-> IF i = j THEN step[<<j, f[j - 1]>>] ELSE f[i]]
  <2>2. j - 1 \in 0 .. j - 1 /\ f[j - 1] \in D /\ step[<<j, f[j - 1]>>] \in D
    BY <2>1
  <2>3. \A i \in 0 .. j : g[i] \in D
    BY <2>1, <2>2
  <2>4. \A i \in 0 .. j - 1 : f[i] = IF i = 0 THEN a ELSE step[<<i, f[i - 1]>>]
    BY <2>1 DEF Repeating
  <2>5. ASSUME NEW i \in 0 .. j PROVE g[i] = IF i = 0 THEN a ELSE step[<<i, g[i - 1]>>]
    <3>1. i = j => g[i] = step[<<i, g[i - 1]>>]
      OBVIOUS
    <3>2. i # j => i \in 0 .. j - 1 /\ g[i] = f[i]
      OBVIOUS
    <3>3. i # j /\ i # 0 => g[i - 1] = f[i - 1]
      OBVIOUS
    <3>4. i = j => i # 0
      OBVIOUS
    <3> HIDE DEF g
    <3> QED
      BY <2>4, <3>1, <3>2, <3>3, <3>4
  <2>6. g = [i \in 0 .. j |-> g[i]]
    OBVIOUS
  <2> DEFINE h == [i \in 0 .. j |-> IF i = 0 THEN a ELSE step[<<i, g[i - 1]>>]]
  <2> HIDE DEF g
  <2>7. g = h
    BY <2>5, <2>6
  <2>8. Repeating(g, j, a, step)
    BY <2>7 DEF Repeating
  <2> QED
    BY <2>3, <2>8
<1> HIDE DEF P
<1>3. 0 .. n \subseteq P
  BY <1>1, <1>2, RangeInduction
<1>4. n \in P
  BY <1>3
<1> QED
  BY <1>4 DEF P

(* Every set of natural numbers has a least element. *)
LEMMA HasLeast ==
    ASSUME NEW S \in SUBSET Nat, S # {}
    PROVE  \E x \in S : \A y \in S : x <= y
<1> SUFFICES ASSUME \A x \in S : \E y \in S : y < x PROVE FALSE
  OBVIOUS
<1> DEFINE P == {j \in Nat : \A x \in S : x >= j}
<1>1. 0 \in P
  OBVIOUS
<1>2. ASSUME NEW j \in Nat, j \in P PROVE j + 1 \in P
  <2>1. \A x \in S : x # j
    BY <1>2
  <2> QED
    BY <1>2, <2>1
<1> HIDE DEF P
<1>3. Nat \subseteq P
  BY <1>1, <1>2, SetInduction
<1>4. PICK x \in S : TRUE
  OBVIOUS
<1>5. x + 1 \in P
  BY <1>3
<1> QED
  BY <1>5 DEF P

(* A bounded set of natural numbers has a greatest element. *)
LEMMA HasGreatest ==
    ASSUME NEW S \in SUBSET Nat, S # {}, NEW n \in Nat, \A x \in S : x <= n
    PROVE  \E x \in S : \A y \in S : y <= x
<1> DEFINE Above == {u \in Nat : \A y \in S : y <= u}
<1>1. PICK u \in Above : \A v \in Above : u <= v
  <2>1. Above \in SUBSET Nat /\ n \in Above
    OBVIOUS
  <2> HIDE DEF Above
  <2> QED
    BY <2>1, HasLeast
<1>2. u \in S
  <2> SUFFICES ASSUME u \notin S PROVE FALSE
    OBVIOUS
  <2>1. PICK y \in S : TRUE
    OBVIOUS
  <2>2. u - 1 \in Above
    BY <2>1
  <2> HIDE DEF Above
  <2>3. u <= u - 1
    BY <1>1, <2>2
  <2> QED
    BY <1>1, <2>3 DEF Above
<1> QED
  BY <1>1, <1>2

(* The same from the last index down to the first. *)
LEMMA DownInduction ==
    ASSUME NEW m \in Nat, NEW S, m + 1 \in S, \A i \in 1 .. m : i + 1 \in S => i \in S
    PROVE  1 .. m + 1 \subseteq S
<1> DEFINE P == {k \in 0 .. m : m + 1 - k \in S}
<1>1. 0 \in P
  OBVIOUS
<1>2. ASSUME NEW k \in 1 .. m, k - 1 \in P PROVE k \in P
  <2>1. m + 1 - k \in 1 .. m /\ (m + 1 - k) + 1 = m + 1 - (k - 1)
    OBVIOUS
  <2>2. m + 1 - (k - 1) \in S
    BY <1>2
  <2> QED
    BY <2>1, <2>2
<1> HIDE DEF P
<1>3. 0 .. m \subseteq P
  BY <1>1, <1>2, RangeInduction
<1>4. ASSUME NEW i \in 1 .. m + 1 PROVE i \in S
  <2>1. m + 1 - i \in 0 .. m /\ m + 1 - (m + 1 - i) = i
    OBVIOUS
  <2>2. m + 1 - i \in P
    BY <1>3, <2>1
  <2> QED
    BY <2>1, <2>2 DEF P
<1> QED
  BY <1>4

-----------------------------------------------------------------------------
(* Recursion over a bounded rank. *)

\* The values of the steps are in V and depend on places of lower rank, all below n.
Founded(D, V, n, rank, step) ==
    /\ \A p \in D : rank[p] \in Nat /\ rank[p] < n
    /\ \A p \in D, f \in [D -> V] : step[<<p, f>>] \in V
    /\ \A p \in D, f \in [D -> V], g \in [D -> V] :
          (\A q \in D : rank[q] < rank[p] => f[q] = g[q]) => step[<<p, f>>] = step[<<p, g>>]
Recursing(f, D, V, step) == f \in [D -> V] /\ \A p \in D : f[p] = step[<<p, f>>]

(* A founded recursion has a solution. *)
LEMMA RecursionExists ==
    ASSUME NEW D, NEW V, V # {}, NEW n \in Nat, NEW rank, NEW step, Founded(D, V, n, rank, step)
    PROVE  \E f : Recursing(f, D, V, step)
<1> DEFINE Solves(f, m) == \A p \in D : rank[p] < m => f[p] = step[<<p, f>>]
           P == {m \in Nat : \E f \in [D -> V] : Solves(f, m)}
<1>0. /\ \A p \in D : rank[p] \in Nat /\ rank[p] < n
      /\ \A p \in D, f \in [D -> V] : step[<<p, f>>] \in V
      /\ \A p \in D, f \in [D -> V], g \in [D -> V] :
            (\A q \in D : rank[q] < rank[p] => f[q] = g[q]) => step[<<p, f>>] = step[<<p, g>>]
  BY DEF Founded
<1> PICK v \in V : TRUE
  OBVIOUS
<1>1. 0 \in P
  <2>1. [p \in D |-> v] \in [D -> V] /\ Solves([p \in D |-> v], 0)
    BY <1>0
  <2> HIDE DEF Solves
  <2> QED
    BY <2>1
<1>2. ASSUME NEW m \in Nat, m \in P PROVE m + 1 \in P
  <2>1. PICK f \in [D -> V] : Solves(f, m)
    BY <1>2
  <2> DEFINE g == [p \in D |-> step[<<p, f>>]]
  <2>2. g \in [D -> V]
    BY <1>0
  <2>3. \A p \in D : rank[p] < m => g[p] = f[p]
    BY <2>1
  <2>4. ASSUME NEW p \in D, rank[p] < m + 1 PROVE g[p] = step[<<p, g>>]
    <3>1. \A q \in D : rank[q] < rank[p] => rank[q] < m
      BY <1>0, <2>4
    <3>2. \A q \in D : rank[q] < rank[p] => f[q] = g[q]
      BY <2>3, <3>1
    <3>3. g[p] = step[<<p, f>>]
      OBVIOUS
    <3> HIDE DEF g
    <3> QED
      BY <1>0, <2>2, <3>2, <3>3
  <2> HIDE DEF g
  <2>5. Solves(g, m + 1)
    BY <2>4
  <2> HIDE DEF Solves
  <2> QED
    BY <2>2, <2>5
<1> HIDE DEF P
<1>3. Nat \subseteq P
  BY <1>1, <1>2, SetInduction
<1>4. PICK f \in [D -> V] : Solves(f, n)
  BY <1>3 DEF P
<1>5. \A p \in D : f[p] = step[<<p, f>>]
  BY <1>0, <1>4
<1> QED
  BY <1>5 DEF Recursing
=============================================================================
