---------------------------- MODULE Groups_proofs ----------------------------
(***************************************************************************)
(* The chain of a permutation group is exact, and the systems of blocks of *)
(* a transitive one are the minimal ones, for every degree and every list  *)
(* of generators.  First what the loops compute: orbits, the closure and   *)
(* the congruences.  Then the blocks: what the worklist has united is the  *)
(* least congruence.  Then the chain: a verified level recognises the      *)
(* group of its generators when the next one does, from the end of the     *)
(* base up to the first level.                                             *)
(***************************************************************************)
EXTENDS Groups, Recursion

-----------------------------------------------------------------------------
(* Permutations. *)

(* The points are finitely many. *)
LEMMA PointsAre ==
    ASSUME NEW n \in Nat
    PROVE  /\ Points(n) \subseteq Nat /\ Points(n) \subseteq Int
           /\ IsFiniteSet(Points(n)) /\ Cardinality(Points(n)) = n
<1>1. IsFiniteSet(0 .. n - 1) /\ Cardinality(0 .. n - 1) = IF 0 > n - 1 THEN 0 ELSE n - 1 - 0 + 1
  BY FS_Interval
<1> QED
  BY <1>1 DEF Points

(* The identity, point by point. *)
LEMMA IdentityIs ==
    ASSUME NEW n
    PROVE  /\ Identity(n) \in Mappings(n) /\ Identity(n) \in Symmetric(n)
           /\ \A x \in Points(n) : Identity(n)[x] = x
BY DEF Identity, Mappings, Symmetric

(* The composition of mappings, point by point. *)
LEMMA ComposeIs ==
    ASSUME NEW n, NEW a \in Mappings(n), NEW b \in Mappings(n)
    PROVE  /\ Compose(a, b) \in Mappings(n)
           /\ \A x \in Points(n) : Compose(a, b)[x] = a[b[x]]
BY DEF Compose, Mappings

(* Two mappings with the same images are one. *)
LEMMA SameMapping ==
    ASSUME NEW n, NEW a \in Mappings(n), NEW b \in Mappings(n), \A x \in Points(n) : a[x] = b[x]
    PROVE  a = b
BY DEF Mappings

(* A permutation is onto. *)
LEMMA SymmetricOnto ==
    ASSUME NEW n \in Nat, NEW p \in Symmetric(n)
    PROVE  \A y \in Points(n) : \E x \in Points(n) : p[x] = y
<1> DEFINE N == Points(n)
<1>1. p \in [N -> N] /\ \A x, y \in N : p[x] = p[y] => x = y
  BY DEF Symmetric, Mappings
<1>2. IsFiniteSet(N)
  BY PointsAre
<1> HIDE DEF N
<1>3. p \in Injection(N, N)
  BY <1>1, Fun_IsInj
<1>4. p \in Surjection(N, N)
  BY <1>2, <1>3, FS_Injection
<1>5. \A y \in N : \E x \in N : p[x] = y
  BY <1>4, Fun_SurjectionProperties
<1> QED
  BY <1>5 DEF N

(* The composition of permutations is one. *)
LEMMA ComposeSymmetric ==
    ASSUME NEW n, NEW a \in Symmetric(n), NEW b \in Symmetric(n)
    PROVE  /\ Compose(a, b) \in Symmetric(n)
           /\ \A x \in Points(n) : Compose(a, b)[x] = a[b[x]]
<1>1. a \in Mappings(n) /\ b \in Mappings(n)
  BY DEF Symmetric
<1>2. \A x \in Points(n) : b[x] \in Points(n)
  BY <1>1 DEF Mappings
<1>3. ASSUME NEW x \in Points(n), NEW y \in Points(n), a[b[x]] = a[b[y]] PROVE x = y
  BY <1>2, <1>3 DEF Symmetric
<1> QED
  BY <1>1, <1>3, ComposeIs DEF Symmetric

(* The inverse of a permutation. *)
LEMMA UndoneIs ==
    ASSUME NEW n \in Nat, NEW p \in Symmetric(n)
    PROVE  /\ Undone(p) \in Symmetric(n)
           /\ \A x \in Points(n) : Undone(p)[p[x]] = x
           /\ \A y \in Points(n) : p[Undone(p)[y]] = y
<1>1. p \in [Points(n) -> Points(n)] /\ \A x, y \in Points(n) : p[x] = p[y] => x = y
  BY DEF Symmetric, Mappings
<1>2. DOMAIN p = Points(n)
  BY <1>1
<1>3. Undone(p) = [y \in Points(n) |-> CHOOSE x \in Points(n) : p[x] = y]
  BY <1>2 DEF Undone
<1>4. ASSUME NEW y \in Points(n) PROVE Undone(p)[y] \in Points(n) /\ p[Undone(p)[y]] = y
  <2>1. \E x \in Points(n) : p[x] = y
    BY SymmetricOnto
  <2>2. Undone(p)[y] = CHOOSE x \in Points(n) : p[x] = y
    BY <1>3
  <2> QED
    BY <2>1, <2>2
<1>5. ASSUME NEW x \in Points(n) PROVE Undone(p)[p[x]] = x
  <2>1. p[x] \in Points(n)
    BY <1>1
  <2> QED
    BY <1>1, <1>4, <2>1
<1>6. Undone(p) \in [Points(n) -> Points(n)]
  BY <1>3, <1>4
<1>7. ASSUME NEW x \in Points(n), NEW y \in Points(n), Undone(p)[x] = Undone(p)[y] PROVE x = y
  BY <1>4, <1>7
<1> QED
  BY <1>4, <1>5, <1>6, <1>7 DEF Symmetric, Mappings

(* The functions between two finite sets are finitely many: each is the set of its pairs. *)
LEMMA FunctionsFinite ==
    ASSUME NEW S, NEW T, IsFiniteSet(S), IsFiniteSet(T)
    PROVE  IsFiniteSet([S -> T])
<1> DEFINE Pairs(f) == {q \in S \X T : q[2] = f[q[1]]}
           pairs == [f \in [S -> T] |-> Pairs(f)]
<1>1. IsFiniteSet(SUBSET (S \X T))
  BY FS_Product, FS_SUBSET
<1>2. pairs \in [[S -> T] -> SUBSET (S \X T)]
  OBVIOUS
<1>3. ASSUME NEW f \in [S -> T], NEW g \in [S -> T], pairs[f] = pairs[g] PROVE f = g
  <2>1. ASSUME NEW x \in S PROVE f[x] = g[x]
    <3>1. <<x, f[x]>> \in pairs[f]
      OBVIOUS
    <3>2. <<x, f[x]>> \in pairs[g]
      BY <1>3, <3>1
    <3> QED
      BY <3>2
  <2> QED
    BY <2>1
<1> HIDE DEF pairs
<1>4. pairs \in Injection([S -> T], SUBSET (S \X T))
  BY <1>2, <1>3, Fun_IsInj
<1> QED
  BY <1>1, <1>4, FS_Injection

(* The mappings and the permutations of the points are finitely many. *)
LEMMA MappingsFinite ==
    ASSUME NEW n \in Nat
    PROVE  IsFiniteSet(Mappings(n)) /\ IsFiniteSet(Symmetric(n))
<1>1. IsFiniteSet(Mappings(n))
  BY PointsAre, FunctionsFinite DEF Mappings
<1>2. Symmetric(n) \in SUBSET Mappings(n)
  BY DEF Symmetric
<1> QED
  BY <1>1, <1>2, FS_Subset

(* The lowest member of a set of points. *)
LEMMA LowestIs ==
    ASSUME NEW S \in SUBSET Nat, S # {}
    PROVE  Lowest(S) \in S /\ \A y \in S : Lowest(S) <= y
BY HasLeast DEF Lowest

(* An injection of a finite set into itself is onto. *)
LEMMA OntoItself ==
    ASSUME NEW S, IsFiniteSet(S), NEW f \in [S -> S], \A a, b \in S : f[a] = f[b] => a = b
    PROVE  \A t \in S : \E s \in S : f[s] = t
<1>1. f \in Injection(S, S)
  BY Fun_IsInj
<1>2. f \in Surjection(S, S)
  BY <1>1, FS_Injection
<1> QED
  BY <1>2, Fun_SurjectionProperties

-----------------------------------------------------------------------------
(* Orbits. *)

\* A set that contains what the generators generate.
Generated(n, gens, S) ==
    /\ S \subseteq Symmetric(n)
    /\ Identity(n) \in S
    /\ \A i \in DOMAIN gens, p \in S : Compose(gens[i], p) \in S

\* The orbits of b, finished or not, with representatives in S.
Orbits(n, b, S) ==
    {o \in [orbit : Seq(Points(n)), reps : UNION {[T -> S] : T \in SUBSET Points(n)}] :
        /\ DOMAIN o.reps = {o.orbit[k] : k \in DOMAIN o.orbit}
        /\ \A k, l \in DOMAIN o.orbit : o.orbit[k] = o.orbit[l] => k = l
        /\ b \in DOMAIN o.reps /\ o.reps[b] = Identity(n)
        /\ \A x \in DOMAIN o.reps : o.reps[x][b] = x}

\* v has what o has, in the same order.
Longer(o, v) ==
    /\ DOMAIN o.reps \subseteq DOMAIN v.reps
    /\ Len(o.orbit) <= Len(v.orbit)
    /\ \A k \in 1 .. Len(o.orbit) : v.orbit[k] = o.orbit[k]

(* What an orbit is made of. *)
LEMMA OrbitsAre ==
    ASSUME NEW n \in Nat, NEW b, NEW S, NEW o \in Orbits(n, b, S)
    PROVE  /\ o.orbit \in Seq(Points(n)) /\ Len(o.orbit) \in Nat
           /\ DOMAIN o.orbit = 1 .. Len(o.orbit)
           /\ DOMAIN o.reps \subseteq Points(n)
           /\ o.reps \in [DOMAIN o.reps -> S]
           /\ o = [orbit |-> o.orbit, reps |-> o.reps]
<1>1. o \in [orbit : Seq(Points(n)), reps : UNION {[T -> S] : T \in SUBSET Points(n)}]
  BY DEF Orbits
<1>2. PICK T \in SUBSET Points(n) : o.reps \in [T -> S]
  BY <1>1
<1>3. o.orbit \in Seq(Points(n)) /\ Len(o.orbit) \in Nat /\ DOMAIN o.orbit = 1 .. Len(o.orbit)
  BY <1>1
<1> QED
  BY <1>1, <1>2, <1>3

(* The image of a point of the orbit. *)
LEMMA ViaIs ==
    ASSUME NEW n \in Nat, NEW b \in Points(n), NEW S, S \subseteq Symmetric(n),
           NEW o \in Orbits(n, b, S), NEW x \in DOMAIN o.reps, NEW g \in Symmetric(n),
           \A p \in S : Compose(g, p) \in S
    PROVE  /\ Via(o, x, g) \in Orbits(n, b, S)
           /\ Longer(o, Via(o, x, g))
           /\ g[x] \in DOMAIN Via(o, x, g).reps
<1>1. /\ o.orbit \in Seq(Points(n)) /\ Len(o.orbit) \in Nat /\ DOMAIN o.orbit = 1 .. Len(o.orbit)
      /\ DOMAIN o.reps \subseteq Points(n) /\ o.reps \in [DOMAIN o.reps -> S]
  BY OrbitsAre
<1>2. CASE g[x] \in DOMAIN o.reps
  BY <1>1, <1>2 DEF Via, Longer
<1>3. CASE g[x] \notin DOMAIN o.reps
  <2> DEFINE y == g[x]
             T == DOMAIN o.reps \cup {y}
             reps == [z \in T |-> IF z = y THEN Compose(g, o.reps[x]) ELSE o.reps[z]]
             v == [orbit |-> Append(o.orbit, y), reps |-> reps]
  <2>1. Via(o, x, g) = v
    BY <1>3 DEF Via
  <2>2. x \in Points(n) /\ y \in Points(n)
    BY <1>1 DEF Symmetric, Mappings
  <2>3. Compose(g, o.reps[x]) \in S /\ o.reps[x] \in S /\ o.reps[x] \in Symmetric(n)
    BY <1>1
  <2>4. T \in SUBSET Points(n) /\ reps \in [T -> S]
    BY <1>1, <2>2, <2>3
  <2>5. /\ v.orbit \in Seq(Points(n)) /\ Len(v.orbit) = Len(o.orbit) + 1
        /\ DOMAIN v.orbit = 1 .. Len(o.orbit) + 1
        /\ \A k \in 1 .. Len(o.orbit) : v.orbit[k] = o.orbit[k]
        /\ v.orbit[Len(o.orbit) + 1] = y
    BY <1>1, <2>2
  <2>6. v.reps = reps /\ DOMAIN reps = T
    OBVIOUS
  <2>7. v \in [orbit : Seq(Points(n)), reps : UNION {[U -> S] : U \in SUBSET Points(n)}]
    BY <2>4, <2>5
  <2>8. /\ DOMAIN o.reps = {o.orbit[k] : k \in DOMAIN o.orbit}
        /\ \A k, l \in DOMAIN o.orbit : o.orbit[k] = o.orbit[l] => k = l
        /\ b \in DOMAIN o.reps /\ o.reps[b] = Identity(n)
        /\ \A z \in DOMAIN o.reps : o.reps[z][b] = z
    BY DEF Orbits
  <2>9. \A z \in DOMAIN o.reps : reps[z] = o.reps[z]
    BY <1>3
  <2>10. reps[y] = Compose(g, o.reps[x])
    OBVIOUS
  <2>11. reps[y][b] = y
    <3>1. Compose(g, o.reps[x])[b] = g[o.reps[x][b]]
      BY <2>3, ComposeSymmetric
    <3> QED
      BY <2>8, <2>10, <3>1
  <2> HIDE DEF reps, v
  <2>12. \A z \in T : reps[z][b] = z
    BY <2>8, <2>9, <2>11
  <2>13. T = {v.orbit[k] : k \in DOMAIN v.orbit}
    <3>1. ASSUME NEW k \in DOMAIN v.orbit PROVE v.orbit[k] \in T
      <4>1. k \in DOMAIN o.orbit \/ k = Len(o.orbit) + 1
        BY <1>1, <2>5
      <4> HIDE DEF y
      <4> QED
        BY <1>1, <2>5, <2>8, <4>1
    <3>2. ASSUME NEW z \in DOMAIN o.reps PROVE \E k \in DOMAIN v.orbit : v.orbit[k] = z
      <4>1. PICK k \in DOMAIN o.orbit : o.orbit[k] = z
        BY <2>8
      <4> QED
        BY <1>1, <2>5, <4>1
    <3>3. \E k \in DOMAIN v.orbit : v.orbit[k] = y
      BY <1>1, <2>5
    <3> HIDE DEF y
    <3> QED
      BY <3>1, <3>2, <3>3
  <2>14. ASSUME NEW k \in DOMAIN v.orbit, NEW l \in DOMAIN v.orbit, v.orbit[k] = v.orbit[l]
         PROVE  k = l
    <3>1. \A i \in 1 .. Len(o.orbit) : o.orbit[i] # y
      BY <1>1, <1>3, <2>8
    <3> HIDE DEF y
    <3>2. \A i \in DOMAIN v.orbit : i \in DOMAIN o.orbit \/ i = Len(o.orbit) + 1
      BY <1>1, <2>5
    <3>3. CASE k \in DOMAIN o.orbit /\ l \in DOMAIN o.orbit
      BY <1>1, <2>5, <2>8, <2>14, <3>3
    <3>4. CASE k \in DOMAIN o.orbit /\ l = Len(o.orbit) + 1
      BY <1>1, <2>5, <2>14, <3>1, <3>4
    <3>5. CASE k = Len(o.orbit) + 1 /\ l \in DOMAIN o.orbit
      BY <1>1, <2>5, <2>14, <3>1, <3>5
    <3> QED
      BY <3>2, <3>3, <3>4, <3>5
  <2>15. v \in Orbits(n, b, S)
    BY <2>6, <2>7, <2>8, <2>9, <2>12, <2>13, <2>14 DEF Orbits
  <2> QED
    BY <1>1, <2>1, <2>5, <2>6, <2>15 DEF Longer
<1> QED
  BY <1>2, <1>3

(* One orbit longer than another that is longer than a third. *)
LEMMA LongerTransitive ==
    ASSUME NEW n \in Nat, NEW b, NEW S, NEW o \in Orbits(n, b, S), NEW v \in Orbits(n, b, S),
           NEW w \in Orbits(n, b, S), Longer(o, v), Longer(v, w)
    PROVE  Longer(o, w)
<1>1. Len(o.orbit) \in Nat /\ Len(v.orbit) \in Nat /\ Len(w.orbit) \in Nat
  BY OrbitsAre
<1> QED
  BY <1>1 DEF Longer

(* The images of a point of the orbit under all generators. *)
LEMMA ViaAllIs ==
    ASSUME NEW n \in Nat, NEW b \in Points(n), NEW gens \in Seq(Symmetric(n)), NEW S,
           Generated(n, gens, S), NEW o \in Orbits(n, b, S), NEW x \in DOMAIN o.reps
    PROVE  /\ ViaAll(o, x, gens) \in Orbits(n, b, S)
           /\ Longer(o, ViaAll(o, x, gens))
           /\ \A j \in DOMAIN gens : gens[j][x] \in DOMAIN ViaAll(o, x, gens).reps
<1> DEFINE D == {v \in Orbits(n, b, S) : Longer(o, v)}
           m == Len(gens)
           step == [q \in (1 .. m) \X D |-> Via(q[2], x, gens[q[1]])]
           Via2(f) == f = [j \in 0 .. m |-> IF j = 0 THEN o ELSE Via(f[j - 1], x, gens[j])]
<1>1. m \in Nat /\ DOMAIN gens = 1 .. m /\ \A j \in 1 .. m : gens[j] \in Symmetric(n)
  OBVIOUS
<1>2. o \in D
  BY OrbitsAre DEF Longer
<1>3. ASSUME NEW j \in 1 .. m, NEW v \in D
      PROVE  /\ Via(v, x, gens[j]) \in D /\ Longer(v, Via(v, x, gens[j]))
             /\ gens[j][x] \in DOMAIN Via(v, x, gens[j]).reps
  <2>1. x \in DOMAIN v.reps /\ gens[j] \in Symmetric(n) /\ \A p \in S : Compose(gens[j], p) \in S
    BY <1>1 DEF Longer, Generated
  <2>2. S \subseteq Symmetric(n)
    BY DEF Generated
  <2>3. /\ Via(v, x, gens[j]) \in Orbits(n, b, S) /\ Longer(v, Via(v, x, gens[j]))
        /\ gens[j][x] \in DOMAIN Via(v, x, gens[j]).reps
    BY <2>1, <2>2, ViaIs
  <2> QED
    BY <2>3, LongerTransitive
<1>4. \A j \in 1 .. m, v \in D : step[<<j, v>>] = Via(v, x, gens[j])
  OBVIOUS
<1> HIDE DEF D, step, m, Via2
<1>5. PICK f : Repeating(f, m, o, step) /\ \A i \in 0 .. m : f[i] \in D
  <2>1. \A j \in 1 .. m, v \in D : step[<<j, v>>] \in D
    BY <1>3, <1>4
  <2> QED
    BY <1>1, <1>2, <2>1, RepetitionExists
<1>6. Via2(f)
  <2>1. \A j \in 0 .. m : j # 0 => step[<<j, f[j - 1]>>] = Via(f[j - 1], x, gens[j])
    BY <1>1, <1>4, <1>5
  <2> QED
    BY <1>5, <2>1 DEF Repeating, Via2
<1> DEFINE via == CHOOSE g : Via2(g)
<1>7. ViaAll(o, x, gens) = via[m]
  BY DEF ViaAll, Via2, m
<1>8. Via2(via)
  BY <1>6
<1> HIDE DEF via
<1> DEFINE P == {i \in 0 .. m : /\ via[i] \in D
                                /\ \A j \in 1 .. i : gens[j][x] \in DOMAIN via[i].reps}
<1>9. 0 \in P
  <2>1. via[0] = o
    BY <1>1, <1>8 DEF Via2
  <2> QED
    BY <1>1, <1>2, <2>1
<1>10. ASSUME NEW j \in 1 .. m, j - 1 \in P PROVE j \in P
  <2>1. via[j] = Via(via[j - 1], x, gens[j]) /\ via[j - 1] \in D
    BY <1>1, <1>8, <1>10 DEF Via2
  <2>2. via[j] \in D /\ Longer(via[j - 1], via[j]) /\ gens[j][x] \in DOMAIN via[j].reps
    BY <1>3, <2>1
  <2>3. \A i \in 1 .. j - 1 : gens[i][x] \in DOMAIN via[j - 1].reps
    BY <1>10
  <2> QED
    BY <1>1, <2>2, <2>3 DEF Longer
<1> HIDE DEF P
<1>11. 0 .. m \subseteq P
  BY <1>1, <1>9, <1>10, RangeInduction
<1>12. m \in P
  BY <1>1, <1>11
<1> QED
  BY <1>1, <1>7, <1>12 DEF P, D

(* An orbit has at most n points. *)
LEMMA OrbitLength ==
    ASSUME NEW n \in Nat, NEW b, NEW S, NEW o \in Orbits(n, b, S)
    PROVE  Len(o.orbit) <= n
<1>1. o.orbit \in [1 .. Len(o.orbit) -> Points(n)] /\ Len(o.orbit) \in Nat
  BY OrbitsAre
<1>2. \A k, l \in 1 .. Len(o.orbit) : o.orbit[k] = o.orbit[l] => k = l
  BY <1>1 DEF Orbits
<1>3. o.orbit \in Injection(1 .. Len(o.orbit), Points(n))
  BY <1>1, <1>2, Fun_IsInj
<1>4. Cardinality(1 .. Len(o.orbit)) <= Cardinality(Points(n))
  BY <1>3, PointsAre, FS_Injection
<1>5. Cardinality(1 .. Len(o.orbit)) = Len(o.orbit)
  <2> DEFINE m == Len(o.orbit)
  <2>1. 1 \in Int /\ m \in Int /\ m >= 0
    BY <1>1
  <2> HIDE DEF m
  <2>2. Cardinality(1 .. m) = IF 1 > m THEN 0 ELSE m - 1 + 1
    BY <2>1, FS_Interval
  <2> QED
    BY <2>1, <2>2 DEF m
<1> QED
  BY <1>4, <1>5, PointsAre

(* The orbit of b: its points are closed under the generators, and the representatives, in *)
(* any set that contains what the generators generate, take b to them.                     *)
LEMMA OrbitIs ==
    ASSUME NEW n \in Nat, NEW b \in Points(n), NEW gens \in Seq(Symmetric(n)), NEW S,
           Generated(n, gens, S)
    PROVE  /\ Orbit(n, b, gens) \in Orbits(n, b, S)
           /\ \A x \in DOMAIN Orbit(n, b, gens).reps, j \in DOMAIN gens :
                 gens[j][x] \in DOMAIN Orbit(n, b, gens).reps
<1> DEFINE D == Orbits(n, b, S)
           first == [orbit |-> <<b>>, reps |-> [x \in {b} |-> Identity(n)]]
           Next(o, k) == IF k > Len(o.orbit) THEN o ELSE ViaAll(o, o.orbit[k], gens)
           step == [q \in (1 .. n) \X D |-> Next(q[2], q[1])]
           Rounds(f) == f = [k \in 0 .. n |->
               IF k = 0 THEN [orbit |-> <<b>>, reps |-> [x \in {b} |-> Identity(n)]]
               ELSE LET o == f[k - 1]
                    IN  IF k > Len(o.orbit) THEN o ELSE ViaAll(o, o.orbit[k], gens)]
<1>1. first \in D
  <2>1. /\ first.orbit = <<b>> /\ first.orbit \in Seq(Points(n)) /\ Len(first.orbit) = 1
        /\ DOMAIN first.orbit = {1} /\ first.orbit[1] = b
    OBVIOUS
  <2>2. DOMAIN first.reps = {b} /\ first.reps \in [{b} -> S] /\ first.reps[b] = Identity(n)
    BY DEF Generated
  <2>3. {b} \in SUBSET Points(n)
    OBVIOUS
  <2>4. first \in [orbit : Seq(Points(n)), reps : UNION {[T -> S] : T \in SUBSET Points(n)}]
    BY <2>1, <2>2, <2>3
  <2>5. first.reps[b][b] = b
    BY <2>2, IdentityIs
  <2> HIDE DEF first
  <2> QED
    BY <2>1, <2>2, <2>4, <2>5 DEF Orbits
<1>2. ASSUME NEW k \in 1 .. n, NEW o \in D
      PROVE  /\ Next(o, k) \in D /\ Longer(o, Next(o, k))
             /\ k <= Len(o.orbit) => \A j \in DOMAIN gens :
                                        gens[j][o.orbit[k]] \in DOMAIN Next(o, k).reps
  <2>1. Len(o.orbit) \in Nat /\ DOMAIN o.orbit = 1 .. Len(o.orbit)
    BY OrbitsAre
  <2>2. CASE k > Len(o.orbit)
    BY <2>1, <2>2 DEF Longer
  <2>3. CASE k <= Len(o.orbit)
    <3>1. o.orbit[k] \in DOMAIN o.reps
      BY <2>1, <2>3 DEF Orbits
    <3> QED
      BY <2>1, <2>3, <3>1, ViaAllIs
  <2> QED
    BY <2>1, <2>2, <2>3
<1>3. \A k \in 1 .. n, o \in D : step[<<k, o>>] = Next(o, k)
  OBVIOUS
<1>4. \E f : Rounds(f)
  <2> HIDE DEF D, step, first, Next, Rounds
  <2>1. PICK f : Repeating(f, n, first, step) /\ \A i \in 0 .. n : f[i] \in D
    <3>1. \A k \in 1 .. n, o \in D : step[<<k, o>>] \in D
      BY <1>2, <1>3
    <3> QED
      BY <1>1, <3>1, RepetitionExists
  <2>2. \A k \in 0 .. n : k # 0 => step[<<k, f[k - 1]>>] = Next(f[k - 1], k)
    BY <1>3, <2>1
  <2>3. f = [k \in 0 .. n |-> IF k = 0 THEN first ELSE Next(f[k - 1], k)]
    BY <2>1, <2>2 DEF Repeating
  <2>4. Rounds(f)
    BY <2>3 DEF first, Next, Rounds
  <2> QED
    BY <2>4
<1> DEFINE round == CHOOSE f : Rounds(f)
<1>5. Orbit(n, b, gens) = round[n]
  BY DEF Orbit
<1>6. Rounds(round)
  <2> HIDE DEF Rounds
  <2> QED
    BY <1>4
<1>7. \A k \in 0 .. n : round[k] = IF k = 0 THEN first ELSE Next(round[k - 1], k)
  <2> HIDE DEF round
  <2> QED
    BY <1>6
<1> HIDE DEF round, Rounds, first, Next, step
<1> DEFINE P == {k \in 0 .. n : /\ round[k] \in D
                                /\ \A i \in 1 .. k : i <= Len(round[k].orbit) =>
                                      \A j \in DOMAIN gens :
                                          gens[j][round[k].orbit[i]] \in DOMAIN round[k].reps}
<1>8. 0 \in P
  BY <1>1, <1>7
<1>9. ASSUME NEW k \in 1 .. n, k - 1 \in P PROVE k \in P
  <2> DEFINE o == round[k - 1]
             v == round[k]
  <2>1. v = Next(o, k) /\ o \in D
    BY <1>7, <1>9
  <2>2. /\ v \in D /\ Longer(o, v)
        /\ k <= Len(o.orbit) => \A j \in DOMAIN gens : gens[j][o.orbit[k]] \in DOMAIN v.reps
    BY <1>2, <2>1
  <2>3. \A i \in 1 .. k - 1 : i <= Len(o.orbit) =>
            \A j \in DOMAIN gens : gens[j][o.orbit[i]] \in DOMAIN o.reps
    BY <1>9
  <2>4. Len(o.orbit) \in Nat /\ Len(v.orbit) \in Nat
    BY <2>1, <2>2, OrbitsAre
  <2>5. k > Len(o.orbit) => v = o
    BY <2>1 DEF Next
  <2> HIDE DEF o, v
  <2>6. ASSUME NEW i \in 1 .. k, i <= Len(v.orbit), NEW j \in DOMAIN gens
        PROVE  gens[j][v.orbit[i]] \in DOMAIN v.reps
    <3>1. CASE i <= Len(o.orbit)
      <4>1. v.orbit[i] = o.orbit[i] /\ DOMAIN o.reps \subseteq DOMAIN v.reps
        BY <2>2, <3>1 DEF Longer
      <4>2. CASE i = k
        BY <2>2, <3>1, <4>1, <4>2
      <4>3. CASE i # k
        <5>1. i \in 1 .. k - 1
          BY <4>3
        <5> QED
          BY <2>3, <3>1, <4>1, <5>1
      <4> QED
        BY <4>2, <4>3
    <3>2. CASE i > Len(o.orbit)
      BY <2>4, <2>5, <2>6, <3>2
    <3> QED
      BY <2>4, <3>1, <3>2
  <2> QED
    BY <2>2, <2>6 DEF v
<1>10. n \in P
  <2> HIDE DEF P
  <2>1. 0 .. n \subseteq P
    BY <1>8, <1>9, RangeInduction
  <2> QED
    BY <2>1
<1> DEFINE o == round[n]
<1>11. o \in D /\ \A i \in 1 .. n : i <= Len(o.orbit) =>
          \A j \in DOMAIN gens : gens[j][o.orbit[i]] \in DOMAIN o.reps
  BY <1>10
<1> HIDE DEF o
<1>12. ASSUME NEW x \in DOMAIN o.reps, NEW j \in DOMAIN gens PROVE gens[j][x] \in DOMAIN o.reps
  <2>1. PICK k \in DOMAIN o.orbit : x = o.orbit[k]
    BY <1>11 DEF Orbits
  <2>2. k \in 1 .. Len(o.orbit) /\ Len(o.orbit) \in Nat /\ Len(o.orbit) <= n
    BY <1>11, OrbitsAre, OrbitLength
  <2> QED
    BY <1>11, <2>1, <2>2
<1> QED
  BY <1>5, <1>11, <1>12 DEF o

-----------------------------------------------------------------------------
(* The client. *)

\* The generators taken have one degree.
GInv ==
    /\ generators \in Seq(Candidates)
    /\ \A i \in DOMAIN generators : DOMAIN generators[i] = DOMAIN generators[1]

(* What the client holds is a list of permutations of one degree. *)
LEMMA GInvAlways == GSpec => []GInv
<1>1. GInit => GInv
  BY DEF GInit, GInv
<1>2. GInv /\ [TakeGenerator]_generators => GInv'
  <2> SUFFICES ASSUME GInv, TakeGenerator PROVE GInv'
    BY DEF GInv
  <2>1. PICK p \in Candidates : /\ generators # <<>> => DOMAIN p = DOMAIN generators[1]
                                /\ generators' = Append(generators, p)
    BY DEF TakeGenerator
  <2>2. generators \in Seq(Candidates) /\ generators' \in Seq(Candidates)
    BY <2>1 DEF GInv
  <2>3. /\ Len(generators) \in Nat /\ DOMAIN generators' = 1 .. Len(generators) + 1
        /\ \A i \in 1 .. Len(generators) : generators'[i] = generators[i]
        /\ generators'[Len(generators) + 1] = p
    BY <2>1, <2>2
  <2>4. ASSUME NEW i \in DOMAIN generators' PROVE DOMAIN generators'[i] = DOMAIN generators'[1]
    <3>1. CASE Len(generators) = 0
      BY <2>3, <3>1
    <3>2. CASE Len(generators) # 0
      <4>1. generators # <<>> /\ 1 \in 1 .. Len(generators) /\ DOMAIN generators = 1 .. Len(generators)
        BY <2>2, <2>3, <3>2
      <4>2. i \in 1 .. Len(generators) \/ i = Len(generators) + 1
        BY <2>3
      <4> QED
        BY <2>1, <2>3, <4>1, <4>2 DEF GInv
    <3> QED
      BY <3>1, <3>2
  <2> QED
    BY <2>2, <2>4 DEF GInv
<1> QED
  BY <1>1, <1>2, PTL DEF GSpec

(* The degree of the generators, and the symmetric group they are in. *)
LEMMA DegreeIs ==
    ASSUME GInv, generators # <<>>
    PROVE  /\ Degree \in Nat \ {0} /\ generators \in Seq(Symmetric(Degree))
           /\ DOMAIN generators[1] = Points(Degree)
<1>1. /\ generators \in Seq(Candidates) /\ 1 \in DOMAIN generators
      /\ generators[1] \in Candidates /\ \A i \in DOMAIN generators : generators[i] \in Candidates
      /\ \A i \in DOMAIN generators : DOMAIN generators[i] = DOMAIN generators[1]
  BY DEF GInv
<1> DEFINE S == DOMAIN generators[1]
<1>2. IsFiniteSet(S) /\ S # {} /\ Degree = Cardinality(S)
  BY <1>1, CandidatesAssumption DEF Degree
<1>3. Degree \in Nat \ {0}
  <2> HIDE DEF S
  <2> QED
    BY <1>2, FS_CardinalityType, FS_EmptySet
<1>4. \A i \in DOMAIN generators : generators[i] \in Symmetric(Degree)
  BY <1>1, CandidatesAssumption DEF Degree
<1>5. S = Points(Degree)
  BY <1>1, <1>4 DEF Symmetric, Mappings
<1>6. generators \in Seq(Symmetric(Degree))
  <2>1. generators \in [1 .. Len(generators) -> Symmetric(Degree)] /\ Len(generators) \in Nat
    BY <1>1, <1>4
  <2> QED
    BY <2>1
<1> QED
  BY <1>3, <1>5, <1>6

-----------------------------------------------------------------------------
(* Uniting blocks. *)

\* The pairs of points that a numbering of blocks puts together.
Together(n, f) == {q \in Points(n) \X Points(n) : f[q[1]] = f[q[2]]}

\* The states of the spreading, the numberings by a lowest point, and the pairs in the worklist.
States(n)    == [root : Mappings(n), work : Seq(Points(n) \X Points(n))]
Canonical(n) == {r \in Mappings(n) : \A p \in Points(n) : r[r[p]] = r[p] /\ r[p] <= p}
Waiting(s)   == {s.work[k] : k \in DOMAIN s.work}

\* What is left to do: a block that goes away pays for the pair that waits instead.
Roots(n, r)     == {p \in Points(n) : r[p] = p}
Remaining(n, s) == 2 * Cardinality(Roots(n, s.root)) + Len(s.work)

\* From s to t the pairs X are united, and nothing that these do not force; whatever is united
\* is forced by what waits as well.
Unites(n, s, t, X) ==
    /\ X \subseteq Together(n, t.root)
    /\ Together(n, s.root) \subseteq Together(n, t.root)
    /\ Waiting(s) \subseteq Waiting(t)
    /\ \A h \in Mappings(n) :
          Together(n, s.root) \subseteq Together(n, h) /\ Waiting(t) \subseteq Together(n, h)
             => Together(n, t.root) \subseteq Together(n, h)
    /\ \A h \in Mappings(n) :
          Together(n, s.root) \cup Waiting(s) \cup X \subseteq Together(n, h)
             => Together(n, t.root) \cup Waiting(t) \subseteq Together(n, h)
    /\ Remaining(n, t) <= Remaining(n, s)

(* What is left to do is a number. *)
LEMMA RemainingIs ==
    ASSUME NEW n \in Nat, NEW s \in States(n)
    PROVE  /\ Remaining(n, s) \in Nat /\ Len(s.work) \in Nat
           /\ IsFiniteSet(Roots(n, s.root)) /\ Cardinality(Roots(n, s.root)) \in Nat
<1>1. Roots(n, s.root) \in SUBSET Points(n)
  BY DEF Roots
<1>2. IsFiniteSet(Roots(n, s.root)) /\ Cardinality(Roots(n, s.root)) \in Nat
  BY <1>1, PointsAre, FS_Subset, FS_CardinalityType
<1>3. Len(s.work) \in Nat
  BY DEF States
<1> QED
  BY <1>2, <1>3 DEF Remaining

(* Two numberings by points, one of which takes the roots of another for equal. *)
LEMMA TogetherByRoots ==
    ASSUME NEW n \in Nat, NEW r \in Canonical(n), NEW h \in Mappings(n)
    PROVE  Together(n, r) \subseteq Together(n, h) <=> \A p \in Points(n) : h[r[p]] = h[p]
<1>1. r \in [Points(n) -> Points(n)] /\ \A p \in Points(n) : r[r[p]] = r[p]
  BY DEF Canonical, Mappings
<1>2. ASSUME Together(n, r) \subseteq Together(n, h), NEW p \in Points(n) PROVE h[r[p]] = h[p]
  <2>1. <<r[p], p>> \in Together(n, r)
    BY <1>1 DEF Together
  <2>2. <<r[p], p>> \in Together(n, h)
    BY <1>2, <2>1
  <2> QED
    BY <2>2 DEF Together
<1>3. ASSUME \A p \in Points(n) : h[r[p]] = h[p], NEW q \in Together(n, r)
      PROVE  q \in Together(n, h)
  BY <1>1, <1>3 DEF Together
<1> QED
  BY <1>2, <1>3

(* Uniting keeps the type. *)
LEMMA UnitedType ==
    ASSUME NEW n \in Nat, NEW s \in States(n), NEW x \in Points(n), NEW y \in Points(n)
    PROVE  United(s, x, y) \in States(n)
<1> DEFINE roots == {s.root[x], s.root[y]}
<1>1. s.root \in [Points(n) -> Points(n)] /\ s.work \in Seq(Points(n) \X Points(n))
  BY DEF States, Mappings
<1>2. roots \in SUBSET Nat /\ roots # {} /\ roots \subseteq Points(n)
  BY <1>1, PointsAre
<1> HIDE DEF roots
<1>3. Lowest(roots) \in Points(n)
  BY <1>2, LowestIs
<1>4. [p \in DOMAIN s.root |-> IF s.root[p] \in roots THEN Lowest(roots) ELSE s.root[p]]
        \in [Points(n) -> Points(n)]
  BY <1>1, <1>3
<1>5. Append(s.work, <<x, y>>) \in Seq(Points(n) \X Points(n))
  BY <1>1
<1> QED
  BY <1>4, <1>5 DEF United, States, Mappings, roots

(* Uniting two points unites their blocks, and only these. *)
LEMMA UnitedIs ==
    ASSUME NEW n \in Nat, NEW s \in States(n), s.root \in Canonical(n),
           NEW x \in Points(n), NEW y \in Points(n)
    PROVE  /\ United(s, x, y) \in States(n) /\ United(s, x, y).root \in Canonical(n)
           /\ Unites(n, s, United(s, x, y), {<<x, y>>})
<1> DEFINE N == Points(n)
           r == s.root
           t == United(s, x, y)
<1>1. /\ r \in [N -> N] /\ s.work \in Seq(N \X N) /\ N \subseteq Nat
      /\ \A p \in N : r[r[p]] = r[p] /\ r[p] <= p
  BY PointsAre DEF States, Mappings, Canonical
<1>2. CASE r[x] = r[y]
  <2>1. t = s
    BY <1>2 DEF United
  <2>2. <<x, y>> \in Together(n, r)
    BY <1>2 DEF Together
  <2>3. Remaining(n, s) \in Nat
    BY RemainingIs
  <2>5. Remaining(n, s) <= Remaining(n, s)
    BY <2>3
  <2> DEFINE X == {<<x, y>>}
  <2>4. X \subseteq Together(n, s.root)
    BY <2>2
  <2> HIDE DEF X
  <2>6. Unites(n, s, s, X)
    BY <2>4, <2>5 DEF Unites
  <2> QED
    BY <2>1, <2>6 DEF X
<1>3. CASE r[x] # r[y]
  <2> DEFINE roots == {r[x], r[y]}
             lo == Lowest(roots)
             new == [p \in N |-> IF r[p] \in roots THEN lo ELSE r[p]]
  <2>1. t = [root |-> new, work |-> Append(s.work, <<x, y>>)]
    BY <1>1, <1>3 DEF United
  <2>2. roots \in SUBSET Nat /\ roots # {}
    BY <1>1
  <2>3. lo \in roots /\ \A z \in roots : lo <= z
    BY <2>2, LowestIs
  <2> HIDE DEF lo
  <2>4. PICK hi \in roots : roots = {lo, hi} /\ hi # lo /\ lo <= hi
    BY <1>3, <2>3
  <2>5. lo \in N /\ hi \in N /\ r[lo] = lo /\ r[hi] = hi
    BY <1>1, <2>3
  <2>6. \A p \in N : new[p] = IF r[p] = hi THEN lo ELSE r[p]
    BY <2>4
  <2>7. new \in [N -> N]
    BY <1>1, <2>5
  <2> HIDE DEF new, roots
  <2>8. new \in Canonical(n)
    <3>1. ASSUME NEW p \in N PROVE new[new[p]] = new[p] /\ new[p] <= p
      <4>1. r[p] \in N /\ r[r[p]] = r[p] /\ r[p] <= p /\ lo \in Nat /\ hi \in Nat /\ p \in Nat /\ r[p] \in Nat
        BY <1>1, <2>5
      <4>2. new[lo] = lo
        BY <2>4, <2>5, <2>6
      <4>3. CASE r[p] = hi
        BY <2>4, <2>6, <4>1, <4>2, <4>3
      <4>4. CASE r[p] # hi
        BY <2>6, <4>1, <4>4
      <4> QED
        BY <4>3, <4>4
    <3> QED
      BY <2>7, <3>1 DEF Canonical, Mappings
  <2>9. <<x, y>> \in Together(n, new)
    <3>1. r[x] \in {lo, hi} /\ r[y] \in {lo, hi}
      BY <2>4 DEF roots
    <3>2. new[x] = lo /\ new[y] = lo
      BY <2>6, <3>1
    <3> QED
      BY <3>2 DEF Together
  <2>10. Together(n, r) \subseteq Together(n, new)
    BY <2>6 DEF Together
  <2>11. ASSUME NEW h \in Mappings(n), Together(n, r) \subseteq Together(n, h),
                <<x, y>> \in Together(n, h)
         PROVE  Together(n, new) \subseteq Together(n, h)
    <3>1. \A p \in N : h[r[p]] = h[p]
      BY <2>11, TogetherByRoots
    <3>2. h[x] = h[y]
      BY <2>11 DEF Together
    <3>3. h[lo] = h[hi]
      <4>1. h[r[x]] = h[r[y]]
        BY <3>1, <3>2
      <4>2. {lo, hi} = {r[x], r[y]}
        BY <2>4 DEF roots
      <4> QED
        BY <4>1, <4>2
    <3>4. \A p \in N : h[new[p]] = h[p]
      BY <2>6, <3>1, <3>3
    <3> QED
      BY <2>8, <3>4, TogetherByRoots
  <2>12. Waiting(t) = Waiting(s) \cup {<<x, y>>}
    <3>1. t.work = Append(s.work, <<x, y>>) /\ s.work \in Seq(N \X N) /\ <<x, y>> \in N \X N
      BY <1>1, <2>1
    <3>2. /\ DOMAIN t.work = 1 .. Len(s.work) + 1 /\ t.work[Len(s.work) + 1] = <<x, y>>
          /\ DOMAIN s.work = 1 .. Len(s.work) /\ Len(s.work) \in Nat
          /\ \A k \in 1 .. Len(s.work) : t.work[k] = s.work[k]
      BY <3>1
    <3>3. \A k \in DOMAIN t.work : k \in DOMAIN s.work \/ k = Len(s.work) + 1
      BY <3>2
    <3>4. Len(s.work) + 1 \in DOMAIN t.work /\ \A k \in DOMAIN s.work : k \in DOMAIN t.work
      BY <3>2
    <3> QED
      BY <3>2, <3>3, <3>4 DEF Waiting
  <2>13. Remaining(n, t) <= Remaining(n, s)
    <3>1. Roots(n, new) = Roots(n, r) \ {hi}
      <4>1. ASSUME NEW p \in N PROVE new[p] = p <=> r[p] = p /\ p # hi
        BY <2>4, <2>5, <2>6
      <4> QED
        BY <4>1 DEF Roots
    <3>2. hi \in Roots(n, r)
      BY <2>5 DEF Roots
    <3>3. IsFiniteSet(Roots(n, r)) /\ Cardinality(Roots(n, r)) \in Nat /\ Len(s.work) \in Nat
      BY RemainingIs
    <3>4. Cardinality(Roots(n, new)) = Cardinality(Roots(n, r)) - 1
      <4> DEFINE S == Roots(n, r)
      <4> HIDE DEF S
      <4>1. IsFiniteSet(S) /\ hi \in S
        BY <3>2, <3>3 DEF S
      <4>2. Cardinality(S \ {hi}) = Cardinality(S) - 1
        BY <4>1, FS_RemoveElement
      <4> QED
        BY <3>1, <4>2 DEF S
    <3>5. Len(t.work) = Len(s.work) + 1 /\ t.root = new
      BY <1>1, <2>1
    <3> QED
      BY <3>3, <3>4, <3>5 DEF Remaining
  <2>14. t.root = new
    BY <2>1
  <2>15. Unites(n, s, t, {<<x, y>>})
    <3> HIDE DEF t
    <3>1. ASSUME NEW h \in Mappings(n), Together(n, r) \subseteq Together(n, h),
                 Waiting(t) \subseteq Together(n, h)
          PROVE  Together(n, t.root) \subseteq Together(n, h)
      BY <2>11, <2>12, <2>14, <3>1
    <3> DEFINE X == {<<x, y>>}
    <3>2. ASSUME NEW h \in Mappings(n), Together(n, s.root) \subseteq Together(n, h),
                 Waiting(s) \subseteq Together(n, h), X \subseteq Together(n, h)
          PROVE  Together(n, t.root) \subseteq Together(n, h) /\ Waiting(t) \subseteq Together(n, h)
      BY <2>11, <2>12, <2>14, <3>2
    <3>3. Waiting(s) \subseteq Waiting(t) /\ {<<x, y>>} \subseteq Together(n, t.root)
      BY <2>9, <2>12, <2>14
    <3>4. X \subseteq Together(n, t.root)
      BY <3>3
    <3> HIDE DEF X
    <3>5. \A h \in Mappings(n) :
             Together(n, s.root) \cup Waiting(s) \cup X \subseteq Together(n, h)
               => Together(n, t.root) \cup Waiting(t) \subseteq Together(n, h)
      BY <3>2
    <3>6. Together(n, s.root) \subseteq Together(n, t.root)
      BY <2>10, <2>14
    <3>7. \A h \in Mappings(n) :
             Together(n, s.root) \subseteq Together(n, h) /\ Waiting(t) \subseteq Together(n, h)
               => Together(n, t.root) \subseteq Together(n, h)
      BY <3>1
    <3>8. Unites(n, s, t, X)
      BY <2>13, <3>3, <3>4, <3>5, <3>6, <3>7 DEF Unites
    <3> QED
      BY <3>8 DEF X
  <2>16. t \in States(n)
    BY UnitedType
  <2> QED
    BY <2>8, <2>14, <2>15, <2>16
<1> QED
  BY <1>2, <1>3

(* One uniting after another. *)
LEMMA UnitesTransitive ==
    ASSUME NEW n \in Nat, NEW s \in States(n), NEW t \in States(n), NEW u \in States(n),
           NEW X, NEW Y, Unites(n, s, t, X), Unites(n, t, u, Y)
    PROVE  Unites(n, s, u, X \cup Y)
<1>1. Remaining(n, u) <= Remaining(n, s)
  BY RemainingIs DEF Unites
<1>2. /\ Together(n, s.root) \subseteq Together(n, t.root) /\ Waiting(s) \subseteq Waiting(t)
      /\ Together(n, t.root) \subseteq Together(n, u.root) /\ Waiting(t) \subseteq Waiting(u)
      /\ X \subseteq Together(n, t.root) /\ Y \subseteq Together(n, u.root)
  BY DEF Unites
<1>3. ASSUME NEW h \in Mappings(n), Together(n, s.root) \subseteq Together(n, h),
             Waiting(u) \subseteq Together(n, h)
      PROVE  Together(n, u.root) \subseteq Together(n, h)
  <2>1. Waiting(t) \subseteq Together(n, h)
    BY <1>2, <1>3
  <2>2. Together(n, t.root) \subseteq Together(n, h)
    BY <1>3, <2>1 DEF Unites
  <2> QED
    BY <1>3, <2>2 DEF Unites
<1>4. ASSUME NEW h \in Mappings(n), Together(n, s.root) \subseteq Together(n, h),
             Waiting(s) \subseteq Together(n, h), X \cup Y \subseteq Together(n, h)
      PROVE  Together(n, u.root) \subseteq Together(n, h) /\ Waiting(u) \subseteq Together(n, h)
  <2>1. X \subseteq Together(n, h) /\ Y \subseteq Together(n, h)
    BY <1>4
  <2>2. Together(n, t.root) \subseteq Together(n, h) /\ Waiting(t) \subseteq Together(n, h)
    BY <1>4, <2>1 DEF Unites
  <2> QED
    BY <2>1, <2>2 DEF Unites
<1> QED
  BY <1>1, <1>2, <1>3, <1>4 DEF Unites

\* The state without its last pair, and the images of that pair.
Popped(s)      == [root |-> s.root, work |-> SubSeq(s.work, 1, Len(s.work) - 1)]
Images(s, gens) ==
    {<<gens[j][s.work[Len(s.work)][1]], gens[j][s.work[Len(s.work)][2]]>> : j \in DOMAIN gens}

(* The worklist is the last pair and what waits behind it. *)
LEMMA PoppedIs ==
    ASSUME NEW n \in Nat, NEW s \in States(n), s.work # <<>>
    PROVE  /\ Popped(s) \in States(n)
           /\ s.work[Len(s.work)] \in Points(n) \X Points(n)
           /\ Waiting(s) = Waiting(Popped(s)) \cup {s.work[Len(s.work)]}
           /\ Remaining(n, Popped(s)) < Remaining(n, s)
<1> DEFINE w == s.work
           m == Len(s.work)
           v == SubSeq(w, 1, m - 1)
<1>1. w \in Seq(Points(n) \X Points(n)) /\ m \in Nat \ {0} /\ DOMAIN w = 1 .. m
  BY DEF States
<1>2. v \in Seq(Points(n) \X Points(n)) /\ Len(v) = m - 1 /\ \A k \in 1 .. m - 1 : v[k] = w[k]
  BY <1>1
<1>3. DOMAIN v = 1 .. m - 1
  BY <1>1, <1>2
<1>4. Popped(s).work = v /\ Popped(s).root = s.root
  BY DEF Popped
<1>5. Popped(s) \in States(n)
  BY <1>2 DEF Popped, States
<1> HIDE DEF w, m, v
<1>6. \A k \in 1 .. m : k \in 1 .. m - 1 \/ k = m
  BY <1>1
<1>7. m \in 1 .. m /\ \A k \in 1 .. m - 1 : k \in 1 .. m
  BY <1>1
<1>8. {w[k] : k \in DOMAIN w} = {v[k] : k \in DOMAIN v} \cup {w[m]}
  BY <1>1, <1>2, <1>3, <1>6, <1>7
<1>9. Remaining(n, Popped(s)) < Remaining(n, s)
  <2>1. Cardinality(Roots(n, s.root)) \in Nat
    BY RemainingIs
  <2> QED
    BY <1>1, <1>2, <1>4, <2>1 DEF Remaining, w, m
<1>10. w[m] \in Points(n) \X Points(n)
  BY <1>1, <1>7
<1> QED
  BY <1>4, <1>5, <1>8, <1>9, <1>10 DEF Waiting, w, m

(* Uniting nothing. *)
LEMMA UnitesNothing ==
    ASSUME NEW n \in Nat, NEW s \in States(n)
    PROVE  Unites(n, s, s, {})
<1>1. Remaining(n, s) <= Remaining(n, s)
  BY RemainingIs
<1> QED
  BY <1>1 DEF Unites

(* The images of the last pair are united. *)
LEMMA UniteImagesIs ==
    ASSUME NEW n \in Nat, NEW gens \in Seq(Symmetric(n)), NEW s \in States(n), s.work # <<>>
    PROVE  /\ UniteImages(s, gens) \in States(n)
           /\ s.root \in Canonical(n) =>
                 /\ UniteImages(s, gens).root \in Canonical(n)
                 /\ Unites(n, Popped(s), UniteImages(s, gens), Images(s, gens))
<1> DEFINE m == Len(gens)
           u == s.work[Len(s.work)][1]
           v == s.work[Len(s.work)][2]
           step == [q \in (1 .. m) \X States(n) |-> United(q[2], gens[q[1]][u], gens[q[1]][v])]
           Rounds(f) == f = [j \in 0 .. m |->
               IF j = 0 THEN [root |-> s.root, work |-> SubSeq(s.work, 1, Len(s.work) - 1)]
               ELSE United(f[j - 1], gens[j][u], gens[j][v])]
           united == CHOOSE f : Rounds(f)
<1>1. UniteImages(s, gens) = united[m]
  BY DEF UniteImages
<1>2. m \in Nat /\ DOMAIN gens = 1 .. m /\ \A j \in 1 .. m : gens[j] \in Symmetric(n)
  OBVIOUS
<1>3. u \in Points(n) /\ v \in Points(n)
  BY PoppedIs
<1>4. \A j \in 1 .. m : gens[j][u] \in Points(n) /\ gens[j][v] \in Points(n)
  BY <1>2, <1>3 DEF Symmetric, Mappings
<1>5. \A j \in 1 .. m, t \in States(n) :
          /\ step[<<j, t>>] = United(t, gens[j][u], gens[j][v])
          /\ step[<<j, t>>] \in States(n)
  BY <1>4, UnitedType
<1>6. Popped(s) = [root |-> s.root, work |-> SubSeq(s.work, 1, Len(s.work) - 1)]
  BY DEF Popped
<1>7. \E f : Rounds(f)
  <2> HIDE DEF step, m, u, v
  <2>1. PICK f : Repeating(f, m, Popped(s), step) /\ \A i \in 0 .. m : f[i] \in States(n)
    BY <1>2, <1>5, PoppedIs, RepetitionExists
  <2>2. \A j \in 0 .. m : j # 0 => step[<<j, f[j - 1]>>] = United(f[j - 1], gens[j][u], gens[j][v])
    BY <1>2, <1>5, <2>1
  <2>3. f = [j \in 0 .. m |-> IF j = 0 THEN Popped(s) ELSE United(f[j - 1], gens[j][u], gens[j][v])]
    BY <2>1, <2>2 DEF Repeating
  <2>4. Rounds(f)
    BY <1>6, <2>3
  <2> QED
    BY <2>4
<1>8. Rounds(united)
  <2> HIDE DEF Rounds
  <2> QED
    BY <1>7
<1> HIDE DEF united, step, m, u, v
<1>9. /\ united[0] = Popped(s)
      /\ \A j \in 1 .. m : united[j] = United(united[j - 1], gens[j][u], gens[j][v])
  <2> DEFINE a == [root |-> s.root, work |-> SubSeq(s.work, 1, Len(s.work) - 1)]
  <2>1. \A j \in 0 .. m :
           united[j] = IF j = 0 THEN a ELSE United(united[j - 1], gens[j][u], gens[j][v])
    <3> HIDE DEF a
    <3> QED
      BY <1>8 DEF a
  <2>2. 0 \in 0 .. m /\ \A j \in 1 .. m : j \in 0 .. m /\ j # 0
    BY <1>2
  <2> HIDE DEF a, Rounds
  <2> QED
    BY <1>6, <2>1, <2>2 DEF a
<1> HIDE DEF Rounds
<1> DEFINE X(j) == {<<gens[i][u], gens[i][v]>> : i \in 1 .. j}
           P == {j \in 0 .. m : /\ united[j] \in States(n)
                                /\ s.root \in Canonical(n) =>
                                      /\ united[j].root \in Canonical(n)
                                      /\ Unites(n, Popped(s), united[j], X(j))}
<1>10. 0 \in P
  <2>1. X(0) = {}
    OBVIOUS
  <2>2. Popped(s) \in States(n) /\ Popped(s).root = s.root
    BY PoppedIs DEF Popped
  <2>3. Unites(n, Popped(s), Popped(s), {})
    BY <2>2, UnitesNothing
  <2>4. Unites(n, Popped(s), united[0], X(0))
    BY <1>9, <2>1, <2>3
  <2>5. 0 \in 0 .. m
    BY <1>2
  <2> HIDE DEF X
  <2> QED
    BY <1>9, <2>2, <2>4, <2>5
<1>11. ASSUME NEW j \in 1 .. m, j - 1 \in P PROVE j \in P
  <2> DEFINE t == united[j - 1]
             x == gens[j][u]
             y == gens[j][v]
  <2>1. t \in States(n) /\ x \in Points(n) /\ y \in Points(n) /\ united[j] = United(t, x, y)
    BY <1>4, <1>9, <1>11
  <2>2. united[j] \in States(n)
    BY <2>1, UnitedType
  <2>3. ASSUME s.root \in Canonical(n)
        PROVE  united[j].root \in Canonical(n) /\ Unites(n, Popped(s), united[j], X(j))
    <3>1. t.root \in Canonical(n) /\ Unites(n, Popped(s), t, X(j - 1))
      BY <1>11, <2>3
    <3> DEFINE Y == {<<x, y>>}
    <3>2. united[j].root \in Canonical(n) /\ Unites(n, t, united[j], Y)
      BY <2>1, <3>1, UnitedIs
    <3>3. X(j - 1) \cup Y = X(j)
      <4>1. \A i \in 1 .. j : i \in 1 .. j - 1 \/ i = j
        BY <1>2
      <4>2. j \in 1 .. j /\ \A i \in 1 .. j - 1 : i \in 1 .. j
        BY <1>2
      <4> QED
        BY <4>1, <4>2
    <3>4. Popped(s) \in States(n)
      BY PoppedIs
    <3> DEFINE Z == X(j - 1)
    <3> HIDE DEF X, Y, t, Z
    <3>5. Unites(n, Popped(s), united[j], Z \cup Y)
      BY <2>1, <2>2, <3>1, <3>2, <3>4, UnitesTransitive DEF Z
    <3> QED
      BY <3>2, <3>3, <3>5 DEF Z
  <2> QED
    BY <1>2, <2>2, <2>3
<1>12. m \in P
  <2> HIDE DEF P
  <2>1. 0 .. m \subseteq P
    BY <1>2, <1>10, <1>11, RangeInduction
  <2> QED
    BY <1>2, <2>1
<1>13. X(m) = Images(s, gens)
  BY <1>2 DEF Images, u, v
<1> HIDE DEF X
<1> QED
  BY <1>1, <1>12, <1>13

-----------------------------------------------------------------------------
(* Spreading. *)

\* The generators keep the blocks.
Kept(n, gens, f) ==
    \A i \in DOMAIN gens : \A p, q \in Points(n) : f[p] = f[q] => f[gens[i][p]] = f[gens[i][q]]

\* But for what waits, the generators keep the blocks: what their images put together is put
\* together by what the images of the blocks do, and by what waits.
Pending(n, gens, s) ==
    \A i \in DOMAIN gens, h \in Mappings(n) :
        /\ \A p, q \in Points(n) : s.root[gens[i][p]] = s.root[gens[i][q]] => h[p] = h[q]
        /\ Waiting(s) \subseteq Together(n, h)
        => Together(n, s.root) \subseteq Together(n, h)

(* One pair of the worklist. *)
LEMMA PendingStep ==
    ASSUME NEW n \in Nat, NEW gens \in Seq(Symmetric(n)), NEW s \in States(n), s.work # <<>>,
           s.root \in Canonical(n), Pending(n, gens, s)
    PROVE  Pending(n, gens, UniteImages(s, gens))
<1> DEFINE t == UniteImages(s, gens)
           u == s.work[Len(s.work)][1]
           v == s.work[Len(s.work)][2]
<1>1. Unites(n, Popped(s), t, Images(s, gens)) /\ t \in States(n)
  BY UniteImagesIs
<1>2. s.work[Len(s.work)] = <<u, v>> /\ u \in Points(n) /\ v \in Points(n)
  BY PoppedIs
<1>3. Waiting(s) = Waiting(Popped(s)) \cup {<<u, v>>}
  BY <1>2, PoppedIs
<1>4. Popped(s).root = s.root
  BY DEF Popped
<1>5. \A i \in DOMAIN gens : <<gens[i][u], gens[i][v]>> \in Images(s, gens)
  BY DEF Images
<1> HIDE DEF t, u, v
<1>6. ASSUME NEW i \in DOMAIN gens, NEW h \in Mappings(n),
             \A p, q \in Points(n) : t.root[gens[i][p]] = t.root[gens[i][q]] => h[p] = h[q],
             Waiting(t) \subseteq Together(n, h)
      PROVE  Together(n, t.root) \subseteq Together(n, h)
  <2>1. gens[i] \in [Points(n) -> Points(n)]
    <3>1. gens[i] \in Symmetric(n)
      OBVIOUS
    <3> QED
      BY <3>1 DEF Symmetric, Mappings
  <2>2. Together(n, s.root) \subseteq Together(n, t.root)
    BY <1>1, <1>4 DEF Unites
  <2>3. \A p, q \in Points(n) : s.root[p] = s.root[q] => t.root[p] = t.root[q]
    <3> SUFFICES ASSUME NEW p \in Points(n), NEW q \in Points(n), s.root[p] = s.root[q]
                 PROVE  t.root[p] = t.root[q]
      OBVIOUS
    <3>1. <<p, q>> \in Together(n, s.root)
      BY DEF Together
    <3>2. <<p, q>> \in Together(n, t.root)
      BY <2>2, <3>1
    <3> QED
      BY <3>2 DEF Together
  <2>4. \A p, q \in Points(n) : s.root[gens[i][p]] = s.root[gens[i][q]] => h[p] = h[q]
    BY <1>6, <2>1, <2>3
  <2>5. h[u] = h[v]
    <3>1. <<gens[i][u], gens[i][v]>> \in Together(n, t.root)
      BY <1>1, <1>5 DEF Unites
    <3>2. t.root[gens[i][u]] = t.root[gens[i][v]]
      BY <3>1 DEF Together
    <3> QED
      BY <1>2, <1>6, <3>2
  <2>6. Waiting(s) \subseteq Together(n, h)
    <3>1. <<u, v>> \in Together(n, h)
      BY <1>2, <2>5 DEF Together
    <3>2. Waiting(Popped(s)) \subseteq Together(n, h)
      BY <1>1, <1>6 DEF Unites
    <3> QED
      BY <1>3, <3>1, <3>2
  <2>7. Together(n, s.root) \subseteq Together(n, h)
    BY <2>4, <2>6 DEF Pending
  <2> QED
    BY <1>1, <1>4, <1>6, <2>7 DEF Unites
<1> QED
  BY <1>6 DEF Pending, t

(* The spreading ends; what it unites is kept by the generators and by all that is kept *)
(* and unites what is united at the start.                                              *)
LEMMA SpreadIs ==
    ASSUME NEW n \in Nat, NEW gens \in Seq(Symmetric(n)), NEW start \in States(n),
           start.root \in Canonical(n), Pending(n, gens, start)
    PROVE  /\ Spread(n, gens, start) \in Canonical(n)
           /\ Kept(n, gens, Spread(n, gens, start))
           /\ Together(n, start.root) \subseteq Together(n, Spread(n, gens, start))
           /\ \A h \in Mappings(n) :
                 Kept(n, gens, h) /\ Together(n, start.root) \cup Waiting(start) \subseteq Together(n, h)
                    => Together(n, Spread(n, gens, start)) \subseteq Together(n, h)
<1> DEFINE D == States(n)
           Stops == {s \in D : s.work = <<>>}
           out == [s \in D |-> s.root]
           next == [s \in D |-> UniteImages(s, gens)]
           measure == [s \in D |-> Remaining(n, s)]
           Spreading(f) == f = [s \in [root : Mappings(n), work : Seq(Points(n) \X Points(n))] |->
                                   IF s.work = <<>> THEN s.root ELSE f[UniteImages(s, gens)]]
           spread == CHOOSE f : Spreading(f)
           Fits(h) == /\ h \in Mappings(n) /\ Kept(n, gens, h)
                      /\ Together(n, start.root) \cup Waiting(start) \subseteq Together(n, h)
           Sound(s) == \A h \in Mappings(n) : Fits(h) =>
                           Together(n, s.root) \cup Waiting(s) \subseteq Together(n, h)
           Inv == {s \in D : /\ s.root \in Canonical(n) /\ Pending(n, gens, s)
                             /\ Together(n, start.root) \subseteq Together(n, s.root)
                             /\ Sound(s)}
<1>1. Spread(n, gens, start) = spread[start]
  BY DEF Spread
<1>2. \A p \in D \ Stops : next[p] \in D
  BY UniteImagesIs
<1>3. \A f : Looping(f, D, Stops, out, next) <=> Spreading(f)
  <2> SUFFICES ASSUME NEW f PROVE Looping(f, D, Stops, out, next) <=> Spreading(f)
    OBVIOUS
  <2>1. \A s \in D : (IF s \in Stops THEN out[s] ELSE f[next[s]])
                        = (IF s.work = <<>> THEN s.root ELSE f[UniteImages(s, gens)])
    OBVIOUS
  <2>2. [s \in D |-> IF s \in Stops THEN out[s] ELSE f[next[s]]]
           = [s \in D |-> IF s.work = <<>> THEN s.root ELSE f[UniteImages(s, gens)]]
    <3> HIDE DEF out, next, Stops, D
    <3> QED
      BY <2>1
  <2> HIDE DEF out, next, Stops
  <2> QED
    BY <2>2 DEF Looping, States
<1>4. Looping(spread, D, Stops, out, next)
  <2>1. \E f : Spreading(f)
    <3> HIDE DEF D, Stops, out, next, Spreading
    <3> QED
      BY <1>2, <1>3, LoopExists
  <2>2. Spreading(spread)
    <3> HIDE DEF Spreading
    <3> QED
      BY <2>1
  <2> HIDE DEF D, Stops, out, next, Spreading, spread
  <2> QED
    BY <1>3, <2>2
<1>5. start \in Inv
  OBVIOUS
<1>6. ASSUME NEW s \in Inv, s \notin Stops
      PROVE  next[s] \in Inv /\ measure[next[s]] < measure[s]
  <2> DEFINE t == UniteImages(s, gens)
             u == s.work[Len(s.work)][1]
             v == s.work[Len(s.work)][2]
  <2>1. s \in D /\ s.work # <<>> /\ s.root \in Canonical(n) /\ next[s] = t
    BY <1>6
  <2>2. /\ t \in D /\ t.root \in Canonical(n)
        /\ Unites(n, Popped(s), t, Images(s, gens))
    BY <2>1, UniteImagesIs
  <2>3. Pending(n, gens, t)
    BY <1>6, <2>1, PendingStep
  <2>4. /\ s.work[Len(s.work)] = <<u, v>> /\ u \in Points(n) /\ v \in Points(n)
        /\ Waiting(s) = Waiting(Popped(s)) \cup {<<u, v>>}
        /\ Popped(s) \in D /\ Remaining(n, Popped(s)) < Remaining(n, s)
    BY <2>1, PoppedIs
  <2>5. Popped(s).root = s.root
    BY DEF Popped
  <2>6. Together(n, start.root) \subseteq Together(n, t.root)
    <3>1. Together(n, s.root) \subseteq Together(n, t.root)
      BY <2>2, <2>5 DEF Unites
    <3> QED
      BY <1>6, <3>1
  <2>7. ASSUME NEW h \in Mappings(n), Fits(h)
        PROVE  Together(n, t.root) \cup Waiting(t) \subseteq Together(n, h)
    <3>1. Together(n, s.root) \cup Waiting(s) \subseteq Together(n, h)
      BY <1>6, <2>7
    <3>2. h[u] = h[v]
      <4>1. <<u, v>> \in Together(n, h)
        BY <2>4, <3>1
      <4> QED
        BY <4>1 DEF Together
    <3>3. Images(s, gens) \subseteq Together(n, h)
      <4>1. ASSUME NEW i \in DOMAIN gens PROVE <<gens[i][u], gens[i][v]>> \in Together(n, h)
        <5>1. gens[i] \in Symmetric(n)
          OBVIOUS
        <5>2. gens[i][u] \in Points(n) /\ gens[i][v] \in Points(n)
          BY <2>4, <5>1 DEF Symmetric, Mappings
        <5>3. h[gens[i][u]] = h[gens[i][v]]
          BY <2>4, <2>7, <3>2 DEF Kept
        <5> QED
          BY <5>2, <5>3 DEF Together
      <4> QED
        BY <4>1 DEF Images
    <3> HIDE DEF Inv, Fits, t, u, v
    <3>4. Together(n, Popped(s).root) \cup Waiting(Popped(s)) \cup Images(s, gens) \subseteq Together(n, h)
      BY <2>4, <2>5, <3>1, <3>3
    <3> QED
      BY <2>2, <3>4 DEF Unites
  <2>8. t \in Inv
    BY <2>2, <2>3, <2>6, <2>7
  <2>9. Remaining(n, t) < Remaining(n, s)
    <3>1. Remaining(n, t) <= Remaining(n, Popped(s))
      BY <2>2 DEF Unites
    <3>2. /\ Remaining(n, t) \in Nat /\ Remaining(n, Popped(s)) \in Nat /\ Remaining(n, s) \in Nat
      BY <2>1, <2>2, <2>4, RemainingIs
    <3> QED
      BY <2>4, <3>1, <3>2
  <2>10. measure[t] = Remaining(n, t) /\ measure[s] = Remaining(n, s)
    BY <2>1, <2>2
  <2> QED
    BY <2>1, <2>8, <2>9, <2>10
<1>7. \A s \in Inv : measure[s] \in Nat
  BY RemainingIs
<1>8. Inv \subseteq D
  OBVIOUS
<1>9. PICK e \in Inv \cap Stops : spread[start] = out[e]
  <2>1. \A s \in Inv \ Stops : next[s] \in Inv /\ measure[next[s]] < measure[s]
    BY <1>6
  <2> HIDE DEF D, Stops, out, next, measure, Inv, spread
  <2> QED
    BY <1>4, <1>5, <1>7, <1>8, <2>1, LoopEnds
<1>10. spread[start] = e.root /\ e \in D /\ e.work = <<>>
  <2> HIDE DEF spread
  <2> QED
    BY <1>9
<1> DEFINE r == e.root
<1>11. r \in Canonical(n) /\ Together(n, start.root) \subseteq Together(n, r) /\ r \in Mappings(n)
  BY <1>9, <1>10 DEF Canonical
<1>12. Kept(n, gens, r)
  <2> SUFFICES ASSUME NEW i \in DOMAIN gens, NEW p \in Points(n), NEW q \in Points(n), r[p] = r[q]
               PROVE  r[gens[i][p]] = r[gens[i][q]]
    BY DEF Kept
  <2>1. gens[i] \in Mappings(n)
    <3>1. gens[i] \in Symmetric(n)
      OBVIOUS
    <3> QED
      BY <3>1 DEF Symmetric
  <2>2. Compose(r, gens[i]) \in Mappings(n) /\ \A x \in Points(n) : Compose(r, gens[i])[x] = r[gens[i][x]]
    BY <1>11, <2>1, ComposeIs
  <2>3. Waiting(e) \subseteq Together(n, Compose(r, gens[i]))
    BY <1>10 DEF Waiting
  <2>4. Pending(n, gens, e)
    BY <1>9
  <2>5. Together(n, r) \subseteq Together(n, Compose(r, gens[i]))
    BY <2>2, <2>3, <2>4 DEF Pending
  <2>6. <<p, q>> \in Together(n, r)
    BY DEF Together
  <2>7. <<p, q>> \in Together(n, Compose(r, gens[i]))
    BY <2>5, <2>6
  <2> QED
    BY <2>2, <2>7 DEF Together
<1>13. ASSUME NEW h \in Mappings(n), Kept(n, gens, h),
              Together(n, start.root) \cup Waiting(start) \subseteq Together(n, h)
       PROVE  Together(n, r) \subseteq Together(n, h)
  BY <1>9, <1>13
<1> HIDE DEF r
<1> QED
  BY <1>1, <1>10, <1>11, <1>12, <1>13 DEF r

-----------------------------------------------------------------------------
(* Numberings of the blocks. *)

(* The roots numbered in their order. *)
LEMMA NumberingIs ==
    ASSUME NEW n \in Nat, NEW r \in Canonical(n)
    PROVE  LET c == [p \in Points(n) |-> Cardinality({q \in Points(n) : r[q] = q /\ q < r[p]})]
           IN  c \in Partitions(n) /\ Together(n, c) = Together(n, r)
<1> DEFINE N == Points(n)
           Below(x) == {q \in N : r[q] = q /\ q < x}
           c == [p \in N |-> Cardinality(Below(r[p]))]
<1>1. /\ N \subseteq Nat /\ IsFiniteSet(N) /\ Cardinality(N) = n
      /\ \A p \in N : r[p] \in N /\ r[r[p]] = r[p] /\ r[p] <= p
  BY PointsAre DEF Canonical, Mappings
<1>2. ASSUME NEW x \in N PROVE IsFiniteSet(Below(x)) /\ Cardinality(Below(x)) \in Nat
  <2>1. Below(x) \in SUBSET N
    OBVIOUS
  <2> QED
    BY <1>1, <2>1, FS_Subset, FS_CardinalityType
<1>3. ASSUME NEW x \in N, NEW y \in N, r[x] = x, x < y
      PROVE  Cardinality(Below(x)) < Cardinality(Below(y))
  <2> DEFINE A == Below(x)
             B == Below(y)
  <2>1. A \cup {x} \in SUBSET B
    BY <1>1, <1>3
  <2>2. x \notin A
    BY <1>1
  <2>3. IsFiniteSet(A) /\ IsFiniteSet(B) /\ Cardinality(A) \in Nat /\ Cardinality(B) \in Nat
    BY <1>2
  <2> HIDE DEF A, B
  <2>4. Cardinality(A \cup {x}) = Cardinality(A) + 1
    BY <2>2, <2>3, FS_AddElement
  <2>5. Cardinality(A \cup {x}) <= Cardinality(B)
    BY <2>1, <2>3, FS_Subset
  <2>6. Cardinality(A) < Cardinality(B)
    BY <2>3, <2>4, <2>5
  <2> QED
    BY <2>6 DEF A, B
<1>4. ASSUME NEW p \in N, NEW q \in N PROVE c[p] = c[q] <=> r[p] = r[q]
  <2>1. c[p] = Cardinality(Below(r[p])) /\ c[q] = Cardinality(Below(r[q]))
    OBVIOUS
  <2> HIDE DEF Below, c
  <2>2. r[p] \in N /\ r[q] \in N /\ r[r[p]] = r[p] /\ r[r[q]] = r[q]
    BY <1>1
  <2>3. c[p] \in Nat /\ c[q] \in Nat
    BY <1>2, <2>1, <2>2
  <2>4. r[p] < r[q] => c[p] < c[q]
    BY <1>3, <2>1, <2>2
  <2>5. r[q] < r[p] => c[q] < c[p]
    BY <1>3, <2>1, <2>2
  <2>6. r[p] \in Nat /\ r[q] \in Nat
    BY <1>1, <2>2
  <2> QED
    BY <2>1, <2>3, <2>4, <2>5, <2>6
<1>5. ASSUME NEW p \in N PROVE c[p] \in Points(n)
  <2> DEFINE x == r[p]
             B == Below(x)
  <2>1. x \in N /\ c[p] = Cardinality(B)
    BY <1>1
  <2>2. IsFiniteSet(B) /\ Cardinality(B) \in Nat
    BY <1>2, <2>1
  <2>3. B \in SUBSET N /\ x \notin B
    BY <1>1
  <2> HIDE DEF x, B
  <2>4. Cardinality(B) <= Cardinality(N)
    BY <1>1, <2>3, FS_Subset
  <2>5. Cardinality(B) = Cardinality(N) => B = N
    BY <1>1, <2>3, FS_Subset
  <2>6. Cardinality(B) # n /\ Cardinality(B) <= n
    BY <1>1, <2>1, <2>3, <2>4, <2>5
  <2> QED
    BY <2>1, <2>2, <2>6 DEF Points
<1>6. c \in Mappings(n)
  BY <1>5 DEF Mappings
<1> DEFINE S == {p \in N : \A b \in 0 .. c[p] : \E q \in 0 .. p : c[q] = b}
<1>7. ASSUME NEW p \in N, \A z \in N : z < p => z \in S PROVE p \in S
  <2> DEFINE y == r[p]
  <2>1. y \in N /\ y <= p /\ c[p] = Cardinality(Below(y)) /\ r[y] = y
    BY <1>1
  <2> SUFFICES ASSUME NEW b \in 0 .. c[p] PROVE \E q \in 0 .. p : c[q] = b
    OBVIOUS
  <2>2. p \in Nat /\ c[p] \in Nat /\ y \in Nat
    BY <1>1, <1>2, <2>1
  <2>3. CASE b = c[p]
    <3>1. p \in 0 .. p
      BY <2>2
    <3> QED
      BY <2>3, <3>1
  <2>4. CASE b < c[p]
    <3> HIDE DEF y, c
    <3>1. Below(y) # {}
      <4> SUFFICES ASSUME Below(y) = {} PROVE FALSE
        OBVIOUS
      <4>1. c[p] = 0
        BY <2>1, FS_EmptySet
      <4> QED
        BY <2>4, <4>1
    <3>2. Below(y) \in SUBSET Nat /\ \A z \in Below(y) : z <= y
      BY <1>1, <2>1
    <3>3. PICK z \in Below(y) : \A w \in Below(y) : w <= z
      <4> HIDE DEF Below
      <4> QED
        BY <2>2, <3>1, <3>2, HasGreatest
    <3>4. z \in N /\ z \in Nat /\ r[z] = z /\ z < y
      BY <1>1
    <3>5. Below(y) = Below(z) \cup {z} /\ z \notin Below(z)
      <4>1. ASSUME NEW w \in N, r[w] = w PROVE w < y <=> w < z \/ w = z
        <5>1. w \in Nat
          BY <1>1
        <5>2. w < y => w <= z
          BY <3>3, <4>1
        <5> QED
          BY <2>2, <3>4, <5>1, <5>2
      <4>2. z \notin Below(z) /\ r[z] = z /\ z \in N
        BY <3>4
      <4>3. \A w : w \in Below(y) <=> w \in Below(z) \cup {z}
        BY <4>1, <4>2
      <4> HIDE DEF Below
      <4> QED
        BY <4>2, <4>3
    <3>6. c[p] = c[z] + 1 /\ c[z] \in Nat
      <4>1. IsFiniteSet(Below(z)) /\ Cardinality(Below(z)) \in Nat
        BY <1>2, <3>4
      <4>2. c[z] = Cardinality(Below(z))
        BY <3>4 DEF c
      <4> DEFINE A == Below(z)
      <4> HIDE DEF Below, A
      <4>3. Cardinality(A \cup {z}) = Cardinality(A) + 1
        BY <3>5, <4>1, FS_AddElement DEF A
      <4> QED
        BY <2>1, <3>5, <4>1, <4>2, <4>3 DEF A
    <3>7. z \in S /\ b \in 0 .. c[z]
      BY <1>7, <2>1, <2>2, <2>4, <3>4, <3>6
    <3>8. PICK q \in 0 .. z : c[q] = b
      BY <3>7
    <3>9. q \in 0 .. p
      BY <2>1, <2>2, <3>4
    <3> QED
      BY <3>8, <3>9
  <2>5. b = c[p] \/ b < c[p]
    <3> HIDE DEF c
    <3> QED
      BY <2>2
  <2> QED
    BY <2>3, <2>4, <2>5
<1>8. N \subseteq S
  <2> DEFINE measure == [p \in N |-> p]
  <2>1. \A p \in N : measure[p] \in Nat
    BY <1>1
  <2>2. \A p \in N : (\A z \in N : measure[z] < measure[p] => z \in S) => p \in S
    <3> HIDE DEF S
    <3> QED
      BY <1>7
  <2> HIDE DEF N, S, measure
  <2> QED
    BY <2>1, <2>2, MeasureInduction
<1>9. c \in Partitions(n)
  <2> HIDE DEF c
  <2> QED
    BY <1>6, <1>8 DEF Partitions
<1>10. Together(n, c) = Together(n, r)
  <2> HIDE DEF c
  <2> QED
    BY <1>4 DEF Together
<1> QED
  BY <1>9, <1>10

(* A partition is numbered in one way only. *)
LEMMA OneNumbering ==
    ASSUME NEW n \in Nat, NEW f \in Partitions(n), NEW h \in Partitions(n),
           Together(n, f) = Together(n, h)
    PROVE  f = h
<1> DEFINE N == Points(n)
<1>1. N \subseteq Nat /\ N = 0 .. n - 1
  BY PointsAre DEF Points
<1>2. /\ f \in [N -> N] /\ h \in [N -> N]
      /\ \A p \in N : \A b \in 0 .. f[p] : \E q \in 0 .. p : f[q] = b
      /\ \A p \in N : \A b \in 0 .. h[p] : \E q \in 0 .. p : h[q] = b
  BY DEF Partitions, Mappings
<1>3. \A p, q \in N : f[p] = f[q] <=> h[p] = h[q]
  <2> SUFFICES ASSUME NEW p \in N, NEW q \in N PROVE f[p] = f[q] <=> h[p] = h[q]
    OBVIOUS
  <2>1. <<p, q>> \in Together(n, f) <=> <<p, q>> \in Together(n, h)
    OBVIOUS
  <2> QED
    BY <2>1 DEF Together
<1> DEFINE S == {p \in N : f[p] = h[p]}
<1>4. ASSUME NEW p \in N, \A z \in N : z < p => z \in S PROVE p \in S
  <2>1. \A z \in N : z < p => f[z] = h[z]
    BY <1>4
  <2>2. CASE \E q \in N : q < p /\ f[q] = f[p]
    BY <1>3, <2>1, <2>2
  <2>3. CASE \A q \in N : q < p => f[q] # f[p]
    <3>1. \A q \in N : q < p => h[q] # h[p]
      BY <1>3, <2>3
    <3>2. f[p] \in Nat /\ h[p] \in Nat /\ p \in Nat
      BY <1>1, <1>2
    <3>3. \A q \in 0 .. p : q \in N /\ (q < p \/ q = p)
      BY <1>1, <3>2
    <3>4. ~(f[p] < h[p])
      <4> SUFFICES ASSUME f[p] < h[p] PROVE FALSE
        OBVIOUS
      <4>1. f[p] \in 0 .. h[p]
        BY <3>2
      <4>2. PICK q \in 0 .. p : h[q] = f[p]
        BY <1>2, <4>1
      <4>3. q \in N /\ q < p
        BY <3>2, <3>3, <4>2
      <4> QED
        BY <2>1, <2>3, <4>2, <4>3
    <3>5. ~(h[p] < f[p])
      <4> SUFFICES ASSUME h[p] < f[p] PROVE FALSE
        OBVIOUS
      <4>1. h[p] \in 0 .. f[p]
        BY <3>2
      <4>2. PICK q \in 0 .. p : f[q] = h[p]
        BY <1>2, <4>1
      <4>3. q \in N /\ q < p
        BY <3>2, <3>3, <4>2
      <4> QED
        BY <2>1, <3>1, <4>2, <4>3
    <3> QED
      BY <3>2, <3>4, <3>5
  <2> QED
    BY <2>2, <2>3
<1>5. N \subseteq S
  <2> DEFINE measure == [p \in N |-> p]
  <2>1. \A p \in N : measure[p] \in Nat
    BY <1>1
  <2>2. \A p \in N : (\A z \in N : measure[z] < measure[p] => z \in S) => p \in S
    <3> HIDE DEF S
    <3> QED
      BY <1>4
  <2> HIDE DEF N, S, measure
  <2> QED
    BY <2>1, <2>2, MeasureInduction
<1>6. \A p \in N : f[p] = h[p]
  BY <1>5
<1> QED
  BY <1>2, <1>6

(* The block of 0 is the first one. *)
LEMMA FirstBlock ==
    ASSUME NEW n \in Nat \ {0}, NEW f \in Partitions(n)
    PROVE  f[0] = 0 /\ 0 \in Points(n) /\ f \in Mappings(n)
<1>1. 0 \in Points(n) /\ f[0] \in Nat
  BY PointsAre DEF Points, Partitions, Mappings
<1>2. 0 \in 0 .. f[0]
  BY <1>1
<1>3. PICK q \in 0 .. 0 : f[q] = 0
  BY <1>1, <1>2 DEF Partitions
<1> QED
  BY <1>1, <1>3 DEF Partitions

(* How many blocks there are. *)
LEMMA BlocksCounted ==
    ASSUME NEW n \in Nat, NEW f \in Mappings(n)
    PROVE  /\ Cardinality(Blocks(f)) \in Nat
           /\ Cardinality(Blocks(f)) > 1 <=> \E p, q \in Points(n) : f[p] # f[q]
           /\ Cardinality(Blocks(f)) < n <=> \E p, q \in Points(n) : p # q /\ f[p] = f[q]
<1> DEFINE N == Points(n)
           B == {f[p] : p \in N}
<1>1. IsFiniteSet(N) /\ Cardinality(N) = n /\ f \in [N -> N]
  BY PointsAre DEF Mappings
<1>2. Blocks(f) = B
  BY <1>1 DEF Blocks
<1>3. f \in [N -> B] /\ \A t \in B : \E s \in N : f[s] = t
  BY <1>1
<1>4. f \in Surjection(N, B)
  <2> HIDE DEF B
  <2> QED
    BY <1>3, Fun_IsSurj
<1>5. /\ IsFiniteSet(B) /\ Cardinality(B) <= n
      /\ Cardinality(B) = n <=> f \in Injection(N, B)
  <2> HIDE DEF B, N
  <2> QED
    BY <1>1, <1>4, FS_Surjection
<1>6. Cardinality(B) \in Nat
  BY <1>5, FS_CardinalityType
<1>7. Cardinality(B) = n <=> \A p, q \in N : f[p] = f[q] => p = q
  <2>1. f \in Injection(N, B) => \A p, q \in N : f[p] = f[q] => p = q
    <3> HIDE DEF B, N
    <3> QED
      BY Fun_InjectionProperties
  <2>2. (\A p, q \in N : f[p] = f[q] => p = q) => f \in Injection(N, B)
    <3> HIDE DEF B, N
    <3> QED
      BY <1>3, Fun_IsInj
  <2> QED
    BY <1>5, <2>1, <2>2
<1>8. ASSUME NEW p \in N, NEW q \in N, f[p] # f[q] PROVE Cardinality(B) > 1
  <2> DEFINE A == {f[p]}
             C == {f[p]} \cup {f[q]}
  <2>1. C \in SUBSET B
    OBVIOUS
  <2>2. IsFiniteSet(A) /\ Cardinality(A) = 1 /\ f[q] \notin A
    BY <1>8, FS_Singleton
  <2>3. Cardinality(A \cup {f[q]}) = Cardinality(A) + 1
    <3> HIDE DEF A
    <3> QED
      BY <2>2, FS_AddElement
  <2>4. Cardinality(C) = 2
    BY <2>2, <2>3
  <2> HIDE DEF C, B
  <2>5. Cardinality(C) <= Cardinality(B)
    BY <1>5, <2>1, FS_Subset
  <2> QED
    BY <1>6, <2>4, <2>5
<1>9. ASSUME Cardinality(B) > 1 PROVE \E p, q \in N : f[p] # f[q]
  <2> SUFFICES ASSUME \A p, q \in N : f[p] = f[q] PROVE FALSE
    OBVIOUS
  <2>1. CASE B = {}
    <3>1. Cardinality(B) = 0
      BY <2>1, FS_EmptySet
    <3> QED
      BY <1>9, <3>1
  <2>2. CASE B # {}
    <3>1. PICK x \in B : TRUE
      BY <2>2
    <3>2. B = {x}
      BY <3>1
    <3>3. Cardinality({x}) = 1
      BY FS_Singleton
    <3> HIDE DEF B
    <3>4. Cardinality(B) = 1
      BY <3>2, <3>3
    <3> QED
      BY <1>9, <3>4
  <2> QED
    BY <2>1, <2>2
<1>10. Cardinality(B) < n <=> \E p, q \in N : p # q /\ f[p] = f[q]
  <2> HIDE DEF B
  <2>1. Cardinality(B) < n <=> Cardinality(B) # n
    BY <1>5, <1>6
  <2> QED
    BY <1>7, <2>1
<1> HIDE DEF B
<1> QED
  BY <1>2, <1>6, <1>8, <1>9, <1>10

(* The systems of blocks, without counting. *)
LEMMA SystemsAre ==
    ASSUME NEW n \in Nat, NEW gens, NEW f
    PROVE  f \in Systems(n, gens) <=>
              /\ f \in Partitions(n) /\ Kept(n, gens, f)
              /\ \E p, q \in Points(n) : f[p] # f[q]
              /\ \E p, q \in Points(n) : p # q /\ f[p] = f[q]
<1>1. f \in Partitions(n) => f \in Mappings(n)
  BY DEF Partitions
<1> SUFFICES ASSUME f \in Partitions(n)
             PROVE  f \in Systems(n, gens) <=>
                       /\ Kept(n, gens, f)
                       /\ \E p, q \in Points(n) : f[p] # f[q]
                       /\ \E p, q \in Points(n) : p # q /\ f[p] = f[q]
  BY DEF Systems
<1> DEFINE c == Cardinality(Blocks(f))
<1>2. /\ c \in Nat
      /\ c > 1 <=> \E p, q \in Points(n) : f[p] # f[q]
      /\ c < n <=> \E p, q \in Points(n) : p # q /\ f[p] = f[q]
  BY <1>1, BlocksCounted
<1>3. f \in Systems(n, gens) <=> c \in 2 .. n - 1 /\ Kept(n, gens, f)
  BY DEF Systems, Kept
<1> HIDE DEF c
<1>4. c \in 2 .. n - 1 <=> c > 1 /\ c < n
  BY <1>2
<1> QED
  BY <1>2, <1>3, <1>4

-----------------------------------------------------------------------------
(* The systems that are found. *)

(* The closure of 0 ~ beta is the finest partition that the generators keep and that puts  *)
(* 0 and beta together.                                                                    *)
LEMMA ClosureIsFinest ==
    ASSUME NEW n \in Nat \ {0}, NEW gens \in Seq(Symmetric(n)), NEW beta \in Points(n)
    PROVE  /\ CongruenceClosure(n, gens, beta) \in Partitions(n)
           /\ Kept(n, gens, CongruenceClosure(n, gens, beta))
           /\ CongruenceClosure(n, gens, beta)[beta] = 0
           /\ \A h \in Mappings(n) : Kept(n, gens, h) /\ h[0] = h[beta] =>
                 Together(n, CongruenceClosure(n, gens, beta)) \subseteq Together(n, h)
<1> DEFINE apart == [root |-> Identity(n), work |-> <<>>]
           start == United(apart, 0, beta)
           r == Spread(n, gens, start)
           c == CongruenceClosure(n, gens, beta)
           X == {<<0, beta>>}
<1>1. 0 \in Points(n) /\ n \in Nat
  BY DEF Points
<1>2. apart \in States(n) /\ apart.root = Identity(n) /\ apart.work = <<>>
  BY IdentityIs DEF States
<1>3. apart.root \in Canonical(n)
  <2>1. \A p \in Points(n) : p <= p
    BY <1>1, PointsAre
  <2> QED
    BY <1>2, <2>1, IdentityIs DEF Canonical
<1> HIDE DEF apart
<1>4. start \in States(n) /\ start.root \in Canonical(n) /\ Unites(n, apart, start, X)
  BY <1>1, <1>2, <1>3, UnitedIs
<1>5. Waiting(apart) = {}
  BY <1>2 DEF Waiting
<1>6. \A h \in Mappings(n) : Together(n, apart.root) \subseteq Together(n, h)
  BY <1>2, IdentityIs DEF Together
<1>7. Pending(n, gens, start)
  <2> HIDE DEF start, X
  <2> QED
    BY <1>4, <1>6 DEF Unites, Pending
<1>8. /\ r \in Canonical(n) /\ Kept(n, gens, r)
      /\ Together(n, start.root) \subseteq Together(n, r)
      /\ \A h \in Mappings(n) :
            Kept(n, gens, h) /\ Together(n, start.root) \cup Waiting(start) \subseteq Together(n, h)
               => Together(n, r) \subseteq Together(n, h)
  <2> HIDE DEF start
  <2> QED
    BY <1>1, <1>4, <1>7, SpreadIs
<1>9. c = [p \in Points(n) |-> Cardinality({q \in Points(n) : r[q] = q /\ q < r[p]})]
  BY DEF CongruenceClosure, apart
<1> HIDE DEF start, r, c
<1>10. c \in Partitions(n) /\ Together(n, c) = Together(n, r)
  BY <1>1, <1>8, <1>9, NumberingIs
<1>11. c \in Mappings(n) /\ r \in Mappings(n)
  BY <1>8, <1>10 DEF Partitions, Canonical
<1>12. \A p, q \in Points(n) : c[p] = c[q] <=> r[p] = r[q]
  <2> SUFFICES ASSUME NEW p \in Points(n), NEW q \in Points(n) PROVE c[p] = c[q] <=> r[p] = r[q]
    OBVIOUS
  <2>1. <<p, q>> \in Together(n, c) <=> <<p, q>> \in Together(n, r)
    BY <1>10
  <2> QED
    BY <2>1 DEF Together
<1>13. Kept(n, gens, c)
  <2> SUFFICES ASSUME NEW i \in DOMAIN gens, NEW p \in Points(n), NEW q \in Points(n), c[p] = c[q]
               PROVE  c[gens[i][p]] = c[gens[i][q]]
    BY DEF Kept
  <2>1. gens[i] \in Symmetric(n)
    OBVIOUS
  <2>2. gens[i][p] \in Points(n) /\ gens[i][q] \in Points(n)
    BY <2>1 DEF Symmetric, Mappings
  <2>3. r[gens[i][p]] = r[gens[i][q]]
    BY <1>8, <1>12 DEF Kept
  <2> QED
    BY <1>12, <2>2, <2>3
<1>14. c[beta] = 0
  <2>1. <<0, beta>> \in Together(n, start.root)
    BY <1>4 DEF Unites
  <2>2. <<0, beta>> \in Together(n, c)
    BY <1>8, <1>10, <2>1
  <2>3. c[0] = c[beta]
    BY <2>2 DEF Together
  <2> QED
    BY <1>10, <2>3, FirstBlock
<1>15. ASSUME NEW h \in Mappings(n), Kept(n, gens, h), h[0] = h[beta]
       PROVE  Together(n, c) \subseteq Together(n, h)
  <2>1. X \subseteq Together(n, h)
    BY <1>1, <1>15 DEF Together
  <2> HIDE DEF X
  <2>2. Together(n, apart.root) \cup Waiting(apart) \cup X \subseteq Together(n, h)
    BY <1>5, <1>6, <2>1
  <2>3. Together(n, start.root) \cup Waiting(start) \subseteq Together(n, h)
    BY <1>4, <2>2 DEF Unites
  <2> QED
    BY <1>8, <1>10, <1>15, <2>3
<1> QED
  BY <1>10, <1>13, <1>14, <1>15 DEF c

(* A transitive group moves any two points of a block into the block of 0. *)
LEMMA BlockAtZero ==
    ASSUME NEW n \in Nat \ {0}, NEW gens \in Seq(Symmetric(n)), IsTransitive(n, gens),
           NEW f \in Mappings(n), Kept(n, gens, f),
           NEW p \in Points(n), NEW q \in Points(n), p # q, f[p] = f[q]
    PROVE  \E beta \in 1 .. n - 1 : f[beta] = f[0]
<1> DEFINE N == Points(n)
           S == {g \in Symmetric(n) : \A x, y \in N : f[x] = f[y] => f[g[x]] = f[g[y]]}
           o == Orbit(n, 0, gens)
<1>1. 0 \in N /\ n \in Nat /\ N \subseteq Nat
  BY PointsAre DEF Points
<1>2. Generated(n, gens, S)
  <2>1. Identity(n) \in S
    BY IdentityIs
  <2>2. ASSUME NEW i \in DOMAIN gens, NEW g \in S PROVE Compose(gens[i], g) \in S
    <3>1. gens[i] \in Symmetric(n) /\ g \in Symmetric(n)
      OBVIOUS
    <3>2. /\ Compose(gens[i], g) \in Symmetric(n)
          /\ \A x \in N : Compose(gens[i], g)[x] = gens[i][g[x]]
      BY <3>1, ComposeSymmetric
    <3>3. \A x \in N : g[x] \in N
      BY <3>1 DEF Symmetric, Mappings
    <3>4. ASSUME NEW x \in N, NEW y \in N, f[x] = f[y]
          PROVE  f[gens[i][g[x]]] = f[gens[i][g[y]]]
      <4>1. f[g[x]] = f[g[y]]
        BY <3>4
      <4> QED
        BY <3>3, <4>1 DEF Kept
    <3> QED
      BY <3>2, <3>4
  <2> HIDE DEF S
  <2>3. S \subseteq Symmetric(n)
    BY DEF S
  <2> QED
    BY <2>1, <2>2, <2>3 DEF Generated
<1>3. o \in Orbits(n, 0, S) /\ DOMAIN o.reps = N
  <2> HIDE DEF S
  <2> QED
    BY <1>1, <1>2, OrbitIs DEF IsTransitive
<1> HIDE DEF o
<1> DEFINE g == o.reps[p]
<1>4. g \in S /\ g[0] = p
  <2> HIDE DEF S
  <2>1. o.reps \in [DOMAIN o.reps -> S]
    BY <1>1, <1>3, OrbitsAre
  <2> QED
    BY <1>3, <2>1 DEF Orbits
<1> HIDE DEF g
<1>5. g \in [N -> N] /\ \A x, y \in N : g[x] = g[y] => x = y
  BY <1>4 DEF Symmetric, Mappings
<1> DEFINE T == Together(n, f)
           F == [t \in T |-> <<g[t[1]], g[t[2]]>>]
<1>6. IsFiniteSet(T)
  <2>1. IsFiniteSet(N \X N)
    BY <1>1, PointsAre, FS_Product
  <2>2. T \in SUBSET (N \X N)
    BY DEF Together
  <2> HIDE DEF T
  <2> QED
    BY <2>1, <2>2, FS_Subset
<1>7. \A t \in T : t \in N \X N /\ t = <<t[1], t[2]>> /\ t[1] \in N /\ t[2] \in N
  BY DEF Together
<1>8. F \in [T -> T]
  <2>1. ASSUME NEW t \in T PROVE <<g[t[1]], g[t[2]]>> \in T
    <3>1. f[t[1]] = f[t[2]]
      BY DEF Together
    <3>2. f[g[t[1]]] = f[g[t[2]]]
      BY <1>4, <1>7, <3>1
    <3> QED
      BY <1>5, <1>7, <3>2 DEF Together
  <2> HIDE DEF T
  <2> QED
    BY <2>1
<1>9. \A a, b \in T : F[a] = F[b] => a = b
  <2> SUFFICES ASSUME NEW a \in T, NEW b \in T, F[a] = F[b] PROVE a = b
    OBVIOUS
  <2>1. g[a[1]] = g[b[1]] /\ g[a[2]] = g[b[2]]
    OBVIOUS
  <2>2. a[1] = b[1] /\ a[2] = b[2]
    BY <1>5, <1>7, <2>1
  <2> HIDE DEF T, F
  <2> QED
    BY <1>7, <2>2
<1>10. <<p, q>> \in T
  BY DEF Together
<1>11. PICK t \in T : F[t] = <<p, q>>
  <2> HIDE DEF T, F
  <2> QED
    BY <1>6, <1>8, <1>9, <1>10, OntoItself
<1>12. g[t[1]] = p /\ g[t[2]] = q /\ t[1] \in N /\ t[2] \in N
  BY <1>7, <1>11
<1>13. t[1] = 0 /\ t[2] # 0
  BY <1>1, <1>4, <1>5, <1>12
<1>14. f[t[1]] = f[t[2]]
  BY DEF Together
<1>15. t[2] \in 1 .. n - 1
  BY <1>12, <1>13 DEF Points
<1> QED
  BY <1>13, <1>14, <1>15

(* The block systems that are found are the minimal ones. *)
LEMMA MinimalBlocks ==
    ASSUME NEW n \in Nat \ {0}, NEW gens \in Seq(Symmetric(n)), IsTransitive(n, gens)
    PROVE  /\ MinimalBlockSystems(n, gens) =
                  {f \in Systems(n, gens) : \A h \in Systems(n, gens) : Finer(h, f) => h = f}
           /\ IsPrimitive(n, gens) <=> Systems(n, gens) = {}
<1> DEFINE N == Points(n)
           all == [beta \in 1 .. n - 1 |-> CongruenceClosure(n, gens, beta)]
           sys == Systems(n, gens)
<1>1. 0 \in N /\ n \in Nat /\ N \subseteq Nat /\ \A x \in N : x # 0 <=> x \in 1 .. n - 1
  BY PointsAre DEF Points
<1>2. ASSUME NEW beta \in 1 .. n - 1
      PROVE  /\ beta \in N /\ beta # 0
             /\ all[beta] \in Partitions(n) /\ all[beta] \in Mappings(n)
             /\ Kept(n, gens, all[beta])
             /\ all[beta][beta] = 0 /\ all[beta][0] = 0
             /\ \A h \in Mappings(n) : Kept(n, gens, h) /\ h[0] = h[beta] =>
                   Together(n, all[beta]) \subseteq Together(n, h)
  <2>1. beta \in N /\ beta # 0
    BY DEF Points
  <2>2. all[beta] = CongruenceClosure(n, gens, beta)
    OBVIOUS
  <2> HIDE DEF all
  <2>3. all[beta] \in Partitions(n)
    BY <2>1, <2>2, ClosureIsFinest
  <2> QED
    BY <2>1, <2>2, <2>3, ClosureIsFinest, FirstBlock
<1>3. ASSUME NEW f \in Mappings(n), NEW h \in Mappings(n)
      PROVE  Finer(f, h) <=> Together(n, f) \subseteq Together(n, h)
  <2>1. DOMAIN f = N
    BY DEF Mappings
  <2>2. ASSUME Finer(f, h), NEW t \in Together(n, f) PROVE t \in Together(n, h)
    BY <2>1, <2>2 DEF Finer, Together
  <2>3. ASSUME Together(n, f) \subseteq Together(n, h), NEW p \in N, NEW q \in N, f[p] = f[q]
        PROVE  h[p] = h[q]
    <3>1. <<p, q>> \in Together(n, f)
      BY <2>3 DEF Together
    <3>2. <<p, q>> \in Together(n, h)
      BY <2>3, <3>1
    <3> QED
      BY <3>2 DEF Together
  <2> QED
    BY <2>1, <2>2, <2>3 DEF Finer
<1> DEFINE Finest(f) == \A h \in sys : Finer(h, f) => h = f
           Chosen(beta) == /\ Cardinality(Blocks(all[beta])) > 1
                           /\ \A gamma \in 1 .. n - 1 : all[beta][gamma] = 0 =>
                                 gamma >= beta /\ all[gamma] = all[beta]
<1>4. MinimalBlockSystems(n, gens) = {all[beta] : beta \in {beta \in 1 .. n - 1 : Chosen(beta)}}
  BY DEF MinimalBlockSystems
<1>5. IsPrimitive(n, gens) <=> \A beta \in 1 .. n - 1 : Cardinality(Blocks(all[beta])) <= 1
  BY DEF IsPrimitive
<1> HIDE DEF all
<1>6. ASSUME NEW beta \in 1 .. n - 1, Cardinality(Blocks(all[beta])) > 1 PROVE all[beta] \in sys
  <2>1. \E p, q \in N : all[beta][p] # all[beta][q]
    BY <1>1, <1>2, <1>6, BlocksCounted
  <2>2. \E p, q \in N : p # q /\ all[beta][p] = all[beta][q]
    BY <1>1, <1>2
  <2> QED
    BY <1>1, <1>2, <2>1, <2>2, SystemsAre
<1>7. ASSUME NEW h \in sys
      PROVE  /\ h \in Partitions(n) /\ h \in Mappings(n) /\ Kept(n, gens, h) /\ h[0] = 0
             /\ \E gamma \in 1 .. n - 1 : h[gamma] = 0
             /\ \A gamma \in 1 .. n - 1 : h[gamma] = 0 =>
                   /\ Together(n, all[gamma]) \subseteq Together(n, h)
                   /\ Cardinality(Blocks(all[gamma])) > 1
  <2>1. /\ h \in Partitions(n) /\ Kept(n, gens, h)
        /\ \E p, q \in N : h[p] # h[q]
        /\ \E p, q \in N : p # q /\ h[p] = h[q]
    BY <1>1, SystemsAre
  <2>2. h \in Mappings(n) /\ h[0] = 0
    BY <2>1, FirstBlock
  <2>3. \E gamma \in 1 .. n - 1 : h[gamma] = 0
    BY <2>1, <2>2, BlockAtZero
  <2>4. ASSUME NEW gamma \in 1 .. n - 1, h[gamma] = 0
        PROVE  /\ Together(n, all[gamma]) \subseteq Together(n, h)
               /\ Cardinality(Blocks(all[gamma])) > 1
    <3>1. Together(n, all[gamma]) \subseteq Together(n, h)
      BY <1>2, <2>1, <2>2, <2>4
    <3>2. PICK p \in N, q \in N : h[p] # h[q]
      BY <2>1
    <3>3. all[gamma][p] # all[gamma][q]
      <4> SUFFICES ASSUME all[gamma][p] = all[gamma][q] PROVE FALSE
        OBVIOUS
      <4>1. <<p, q>> \in Together(n, all[gamma])
        BY DEF Together
      <4>2. <<p, q>> \in Together(n, h)
        BY <3>1, <4>1
      <4> QED
        BY <3>2, <4>2 DEF Together
    <3> QED
      BY <1>1, <1>2, <3>1, <3>3, BlocksCounted
  <2> HIDE DEF sys
  <2> QED
    BY <2>1, <2>2, <2>3, <2>4
<1> HIDE DEF sys
<1>8. ASSUME NEW f \in sys, Finest(f)
      PROVE  \E beta \in 1 .. n - 1 : Chosen(beta) /\ f = all[beta]
  <2>1. ASSUME NEW gamma \in 1 .. n - 1, f[gamma] = 0 PROVE all[gamma] = f
    <3>1. all[gamma] \in sys /\ Together(n, all[gamma]) \subseteq Together(n, f)
      BY <1>6, <1>7, <2>1
    <3>2. Finer(all[gamma], f)
      BY <1>2, <1>3, <1>7, <3>1
    <3> QED
      BY <1>8, <3>1, <3>2
  <2> DEFINE Z == {gamma \in 1 .. n - 1 : f[gamma] = 0}
  <2>2. Z # {} /\ Z \in SUBSET Nat
    BY <1>7
  <2>3. PICK beta \in Z : \A gamma \in Z : beta <= gamma
    <3> HIDE DEF Z
    <3> QED
      BY <2>2, HasLeast
  <2>4. all[beta] = f /\ Cardinality(Blocks(all[beta])) > 1
    BY <1>7, <2>1
  <2>5. ASSUME NEW gamma \in 1 .. n - 1, all[beta][gamma] = 0
        PROVE  gamma >= beta /\ all[gamma] = all[beta]
    BY <2>1, <2>3, <2>4, <2>5
  <2> QED
    BY <2>4, <2>5
<1>9. ASSUME NEW beta \in 1 .. n - 1, Chosen(beta) PROVE all[beta] \in sys /\ Finest(all[beta])
  <2>1. all[beta] \in sys
    BY <1>6, <1>9
  <2>2. ASSUME NEW h \in sys, Finer(h, all[beta]) PROVE h = all[beta]
    <3>1. PICK gamma \in 1 .. n - 1 : h[gamma] = 0
      BY <1>7
    <3>2. Together(n, h) \subseteq Together(n, all[beta])
      BY <1>2, <1>3, <1>7, <2>2
    <3>3. gamma \in N /\ h[0] = 0
      BY <1>2, <1>7
    <3>4. all[beta][gamma] = 0
      <4>1. <<0, gamma>> \in Together(n, h)
        BY <1>1, <3>1, <3>3 DEF Together
      <4>2. <<0, gamma>> \in Together(n, all[beta])
        BY <3>2, <4>1
      <4> QED
        BY <1>2, <4>2 DEF Together
    <3>5. all[gamma] = all[beta]
      BY <1>9, <3>4
    <3>6. Together(n, all[gamma]) \subseteq Together(n, h)
      BY <1>7, <3>1
    <3>7. Together(n, h) = Together(n, all[beta])
      BY <3>2, <3>5, <3>6
    <3> QED
      BY <1>1, <1>2, <1>7, <3>7, OneNumbering
  <2> QED
    BY <2>1, <2>2
<1>10. MinimalBlockSystems(n, gens) = {f \in sys : Finest(f)}
  <2> HIDE DEF Chosen, Finest
  <2> QED
    BY <1>4, <1>8, <1>9
<1>11. IsPrimitive(n, gens) <=> sys = {}
  <2>1. ASSUME sys = {}, NEW beta \in 1 .. n - 1 PROVE Cardinality(Blocks(all[beta])) <= 1
    <3>1. Cardinality(Blocks(all[beta])) \in Nat
      BY <1>1, <1>2, BlocksCounted
    <3>2. ~(Cardinality(Blocks(all[beta])) > 1)
      BY <1>6, <2>1
    <3> QED
      BY <3>1, <3>2
  <2>2. ASSUME NEW h \in sys PROVE \E beta \in 1 .. n - 1 : ~(Cardinality(Blocks(all[beta])) <= 1)
    <3>1. PICK gamma \in 1 .. n - 1 : h[gamma] = 0
      BY <1>7
    <3>2. Cardinality(Blocks(all[gamma])) > 1 /\ Cardinality(Blocks(all[gamma])) \in Nat
      BY <1>1, <1>2, <1>7, <3>1, BlocksCounted
    <3> QED
      BY <3>2
  <2> QED
    BY <1>5, <2>1, <2>2
<1> QED
  BY <1>10, <1>11 DEF sys

(* minimal_block_systems finds for every transitive group, whatever its degree and its      *)
(* generators, exactly the minimal systems among all the partitions the generators keep, and *)
(* is_primitive holds exactly when there is none.                                           *)
THEOREM BlocksAreMinimalAlways == GSpec => []BlocksAreMinimal
<1>1. GInv => BlocksAreMinimal
  <2> SUFFICES ASSUME GInv, generators # <<>>, IsTransitive(Degree, generators) PROVE BlocksAreMinimal
    BY DEF BlocksAreMinimal
  <2>1. Degree \in Nat \ {0} /\ generators \in Seq(Symmetric(Degree))
    BY DegreeIs
  <2> DEFINE n == Degree
  <2> HIDE DEF n
  <2>2. /\ MinimalBlockSystems(n, generators) =
              {f \in Systems(n, generators) :
                  \A h \in Systems(n, generators) : Finer(h, f) => h = f}
        /\ IsPrimitive(n, generators) <=> Systems(n, generators) = {}
    BY <2>1, MinimalBlocks DEF n
  <2> QED
    BY <2>2 DEF BlocksAreMinimal, n
<1> QED
  BY <1>1, GInvAlways, PTL

-----------------------------------------------------------------------------
(* The group that the generators generate. *)

\* A set of permutations that is a group.
IsGroup(n, S) ==
    /\ S \subseteq Symmetric(n)
    /\ Identity(n) \in S
    /\ \A p, q \in S : Compose(p, q) \in S
    /\ \A p \in S : Undone(p) \in S

(* All permutations are a group. *)
LEMMA SymmetricIsGroup ==
    ASSUME NEW n \in Nat
    PROVE  IsGroup(n, Symmetric(n))
BY IdentityIs, ComposeSymmetric, UndoneIs DEF IsGroup

(* A group with the generators has what they generate. *)
LEMMA GroupIsGenerated ==
    ASSUME NEW n \in Nat, NEW gens, NEW S, IsGroup(n, S), \A i \in DOMAIN gens : gens[i] \in S
    PROVE  Generated(n, gens, S)
BY DEF IsGroup, Generated

(* The closure is the smallest set that contains what the generators generate. *)
LEMMA ClosureIs ==
    ASSUME NEW n \in Nat, NEW gens \in Seq(Symmetric(n))
    PROVE  /\ Generated(n, gens, Closure(n, gens))
           /\ \A S : Generated(n, gens, S) => Closure(n, gens) \subseteq S
<1> DEFINE D == SUBSET Mappings(n)
           More(found) == found \cup {Compose(gens[i], p) : i \in DOMAIN gens, p \in found}
           Stops == {found \in D : More(found) = found}
           out == [found \in D |-> found]
           next == [found \in D |-> More(found)]
           measure == [found \in D |-> Cardinality(Mappings(n) \ found)]
           Closing(f) == f = [found \in SUBSET Mappings(n) |->
               LET more == found \cup {Compose(gens[i], p) : i \in DOMAIN gens, p \in found}
               IN  IF more = found THEN found ELSE f[more]]
           closed == CHOOSE f : Closing(f)
           Inv == {found \in D : /\ Identity(n) \in found
                                 /\ \A S : Generated(n, gens, S) => found \subseteq S}
<1>1. Closure(n, gens) = closed[{Identity(n)}]
  BY DEF Closure
<1>2. \A i \in DOMAIN gens : gens[i] \in Symmetric(n) /\ gens[i] \in Mappings(n)
  BY DEF Symmetric
<1>3. ASSUME NEW found \in D PROVE More(found) \in D
  BY <1>2, ComposeIs
<1>4. \A p \in D \ Stops : next[p] \in D
  <2> HIDE DEF D, More
  <2> QED
    BY <1>3
<1>5. ASSUME NEW f PROVE Looping(f, D, Stops, out, next) <=> Closing(f)
  <2>1. \A found \in D : (IF found \in Stops THEN out[found] ELSE f[next[found]])
                            = (IF More(found) = found THEN found ELSE f[More(found)])
    <3> HIDE DEF More, D
    <3> QED
      OBVIOUS
  <2>2. [found \in D |-> IF found \in Stops THEN out[found] ELSE f[next[found]]]
           = [found \in D |-> IF More(found) = found THEN found ELSE f[More(found)]]
    <3> HIDE DEF out, next, Stops, D, More
    <3> QED
      BY <2>1
  <2> DEFINE g == [found \in D |-> IF More(found) = found THEN found ELSE f[More(found)]]
  <2>3. Closing(f) <=> f = g
    OBVIOUS
  <2>4. Looping(f, D, Stops, out, next) <=> f = g
    <3> HIDE DEF out, next, Stops, D, More, g
    <3> QED
      BY <2>2 DEF Looping, g
  <2> HIDE DEF out, next, Stops, D, g, Closing
  <2> QED
    BY <2>3, <2>4
<1>6. Looping(closed, D, Stops, out, next)
  <2>1. \E f : Closing(f)
    <3> HIDE DEF D, Stops, out, next, Closing
    <3> QED
      BY <1>4, <1>5, LoopExists
  <2>2. Closing(closed)
    <3> HIDE DEF Closing
    <3> QED
      BY <2>1
  <2> HIDE DEF D, Stops, out, next, Closing, closed
  <2> QED
    BY <1>5, <2>2
<1> DEFINE first == {Identity(n)}
<1>7. first \in Inv
  <2>1. first \in D
    BY IdentityIs
  <2> QED
    BY <2>1 DEF Generated
<1>8. ASSUME NEW found \in Inv, found \notin Stops
      PROVE  next[found] \in Inv /\ measure[next[found]] < measure[found]
  <2> DEFINE more == More(found)
             A == Mappings(n) \ found
             B == Mappings(n) \ more
  <2>1. found \in D /\ more \in D /\ next[found] = more /\ found \subseteq more /\ more # found
    BY <1>3, <1>8
  <2>2. ASSUME NEW S, Generated(n, gens, S) PROVE more \subseteq S
    <3>1. found \subseteq S
      BY <2>2
    <3> QED
      BY <2>2, <3>1 DEF Generated
  <2>3. more \in Inv
    BY <2>1, <2>2
  <2>4. B \in SUBSET A /\ B # A
    BY <2>1
  <2>5. IsFiniteSet(A)
    BY MappingsFinite, FS_Difference
  <2>6. measure[more] = Cardinality(B) /\ measure[found] = Cardinality(A)
    BY <2>1
  <2> HIDE DEF A, B, more, measure, next, D, Inv
  <2>7. IsFiniteSet(B) /\ Cardinality(B) <= Cardinality(A) /\ Cardinality(B) # Cardinality(A)
    BY <2>4, <2>5, FS_Subset
  <2>8. Cardinality(A) \in Nat /\ Cardinality(B) \in Nat
    BY <2>5, <2>7, FS_CardinalityType
  <2> QED
    BY <2>1, <2>3, <2>6, <2>7, <2>8
<1>9. \A found \in Inv : measure[found] \in Nat
  <2> SUFFICES ASSUME NEW found \in Inv PROVE Cardinality(Mappings(n) \ found) \in Nat
    OBVIOUS
  <2> QED
    BY MappingsFinite, FS_Difference, FS_CardinalityType
<1>10. Inv \subseteq D
  OBVIOUS
<1>11. PICK e \in Inv \cap Stops : closed[first] = out[e]
  <2>1. \A p \in Inv \ Stops : next[p] \in Inv /\ measure[next[p]] < measure[p]
    <3> HIDE DEF D, Stops, next, measure, Inv
    <3> QED
      BY <1>8
  <2> HIDE DEF D, Stops, out, next, measure, Inv, closed, first
  <2> QED
    BY <1>6, <1>7, <1>9, <1>10, <2>1, LoopEnds
<1>12. closed[first] = e /\ e \in D /\ e \in Inv /\ More(e) = e
  <2> HIDE DEF closed, first, More, Inv
  <2> QED
    BY <1>10, <1>11
<1>13. Generated(n, gens, e)
  <2>1. Generated(n, gens, Symmetric(n))
    BY <1>2, SymmetricIsGroup, GroupIsGenerated
  <2>2. e \subseteq Symmetric(n) /\ Identity(n) \in e
    BY <1>12, <2>1
  <2>3. \A i \in DOMAIN gens, p \in e : Compose(gens[i], p) \in e
    BY <1>12
  <2> QED
    BY <2>2, <2>3 DEF Generated
<1> HIDE DEF closed
<1> QED
  BY <1>1, <1>12, <1>13

(* Composition is associative. *)
LEMMA ComposeAssociative ==
    ASSUME NEW n, NEW a \in Mappings(n), NEW b \in Mappings(n), NEW c \in Mappings(n)
    PROVE  Compose(Compose(a, b), c) = Compose(a, Compose(b, c))
<1>1. /\ Compose(a, b) \in Mappings(n) /\ Compose(b, c) \in Mappings(n)
      /\ \A x \in Points(n) : Compose(a, b)[x] = a[b[x]] /\ Compose(b, c)[x] = b[c[x]]
  BY ComposeIs
<1>2. /\ Compose(Compose(a, b), c) \in Mappings(n) /\ Compose(a, Compose(b, c)) \in Mappings(n)
      /\ \A x \in Points(n) : /\ Compose(Compose(a, b), c)[x] = Compose(a, b)[c[x]]
                              /\ Compose(a, Compose(b, c))[x] = a[Compose(b, c)[x]]
  BY <1>1, ComposeIs
<1>3. \A x \in Points(n) : c[x] \in Points(n)
  BY DEF Mappings
<1>4. \A x \in Points(n) : Compose(Compose(a, b), c)[x] = Compose(a, Compose(b, c))[x]
  BY <1>1, <1>2, <1>3
<1> QED
  BY <1>2, <1>4, SameMapping

(* The identity changes nothing it is composed with. *)
LEMMA ComposeIdentity ==
    ASSUME NEW n, NEW a \in Mappings(n)
    PROVE  Compose(Identity(n), a) = a /\ Compose(a, Identity(n)) = a
<1>1. \A x \in Points(n) : a[x] \in Points(n)
  BY DEF Mappings
<1>2. /\ Compose(Identity(n), a) \in Mappings(n) /\ Compose(a, Identity(n)) \in Mappings(n)
      /\ \A x \in Points(n) : /\ Compose(Identity(n), a)[x] = Identity(n)[a[x]]
                              /\ Compose(a, Identity(n))[x] = a[Identity(n)[x]]
  BY IdentityIs, ComposeIs
<1>3. \A x \in Points(n) : Identity(n)[x] = x
  BY IdentityIs
<1>4. \A x \in Points(n) : Compose(Identity(n), a)[x] = a[x] /\ Compose(a, Identity(n))[x] = a[x]
  BY <1>1, <1>2, <1>3
<1> QED
  BY <1>2, <1>4, SameMapping

(* A permutation and its inverse cancel. *)
LEMMA ComposeUndone ==
    ASSUME NEW n \in Nat, NEW p \in Symmetric(n), NEW m \in Mappings(n)
    PROVE  /\ Compose(p, Compose(Undone(p), m)) = m
           /\ Compose(Undone(p), Compose(p, m)) = m
<1>1. /\ p \in Mappings(n) /\ Undone(p) \in Mappings(n)
      /\ \A x \in Points(n) : Undone(p)[p[x]] = x /\ p[Undone(p)[x]] = x
  BY UndoneIs DEF Symmetric
<1>2. \A x \in Points(n) : m[x] \in Points(n)
  BY DEF Mappings
<1>3. /\ Compose(Undone(p), m) \in Mappings(n) /\ Compose(p, m) \in Mappings(n)
      /\ \A x \in Points(n) : Compose(Undone(p), m)[x] = Undone(p)[m[x]] /\ Compose(p, m)[x] = p[m[x]]
  BY <1>1, ComposeIs
<1>4. /\ Compose(p, Compose(Undone(p), m)) \in Mappings(n)
      /\ Compose(Undone(p), Compose(p, m)) \in Mappings(n)
      /\ \A x \in Points(n) : /\ Compose(p, Compose(Undone(p), m))[x] = p[Compose(Undone(p), m)[x]]
                              /\ Compose(Undone(p), Compose(p, m))[x] = Undone(p)[Compose(p, m)[x]]
  BY <1>1, <1>3, ComposeIs
<1>5. \A x \in Points(n) : /\ Compose(p, Compose(Undone(p), m))[x] = m[x]
                           /\ Compose(Undone(p), Compose(p, m))[x] = m[x]
  BY <1>1, <1>2, <1>3, <1>4
<1> QED
  BY <1>4, <1>5, SameMapping

(* The inverse of the identity is the identity. *)
LEMMA UndoneIdentity ==
    ASSUME NEW n \in Nat
    PROVE  Undone(Identity(n)) = Identity(n)
<1>1. /\ Undone(Identity(n)) \in Mappings(n) /\ Identity(n) \in Mappings(n)
      /\ \A x \in Points(n) : Undone(Identity(n))[Identity(n)[x]] = x /\ Identity(n)[x] = x
  BY IdentityIs, UndoneIs DEF Symmetric
<1> QED
  BY <1>1, SameMapping

(* The closure is a group, and the generators are in it. *)
LEMMA ClosureIsGroup ==
    ASSUME NEW n \in Nat, NEW gens \in Seq(Symmetric(n))
    PROVE  /\ IsGroup(n, Closure(n, gens))
           /\ \A i \in DOMAIN gens : gens[i] \in Closure(n, gens)
           /\ IsFiniteSet(Closure(n, gens)) /\ Cardinality(Closure(n, gens)) \in Nat
<1> DEFINE C == Closure(n, gens)
<1>1. Generated(n, gens, C) /\ \A S : Generated(n, gens, S) => C \subseteq S
  BY ClosureIs
<1> HIDE DEF C
<1>2. C \subseteq Symmetric(n) /\ Identity(n) \in C
  BY <1>1 DEF Generated
<1>3. C \subseteq Mappings(n)
  BY <1>2 DEF Symmetric
<1>4. \A i \in DOMAIN gens : gens[i] \in Mappings(n)
  BY DEF Symmetric
<1>5. ASSUME NEW q \in C PROVE \A p \in C : Compose(p, q) \in C
  <2> DEFINE S == {p \in C : Compose(p, q) \in C}
  <2>1. S \subseteq Symmetric(n)
    BY <1>2
  <2>2. Identity(n) \in S
    BY <1>2, <1>3, ComposeIdentity
  <2>3. ASSUME NEW i \in DOMAIN gens, NEW p \in S PROVE Compose(gens[i], p) \in S
    <3>1. Compose(gens[i], p) \in C /\ Compose(gens[i], Compose(p, q)) \in C
      BY <1>1 DEF Generated
    <3>2. Compose(Compose(gens[i], p), q) = Compose(gens[i], Compose(p, q))
      BY <1>3, <1>4, ComposeAssociative
    <3> QED
      BY <3>1, <3>2
  <2>4. Generated(n, gens, S)
    <3> HIDE DEF S
    <3> QED
      BY <2>1, <2>2, <2>3 DEF Generated
  <2>5. C \subseteq S
    BY <1>1, <2>4
  <2> QED
    BY <2>5
<1>6. IsFiniteSet(C)
  <2>1. IsFiniteSet(Symmetric(n))
    BY MappingsFinite
  <2> QED
    BY <1>2, <2>1, FS_Subset
<1>7. ASSUME NEW p \in C PROVE Undone(p) \in C
  <2> DEFINE F == [q \in C |-> Compose(p, q)]
  <2>1. F \in [C -> C]
    BY <1>5
  <2>2. \A a, b \in C : F[a] = F[b] => a = b
    <3> SUFFICES ASSUME NEW a \in C, NEW b \in C, Compose(p, a) = Compose(p, b) PROVE a = b
      OBVIOUS
    <3>1. Compose(Undone(p), Compose(p, a)) = a /\ Compose(Undone(p), Compose(p, b)) = b
      BY <1>2, <1>3, ComposeUndone
    <3> QED
      BY <3>1
  <2>3. PICK q \in C : F[q] = Identity(n)
    <3> HIDE DEF F
    <3> QED
      BY <1>2, <1>6, <2>1, <2>2, OntoItself
  <2>4. Compose(p, q) = Identity(n)
    BY <2>3
  <2>5. Compose(Undone(p), Compose(p, q)) = q
    BY <1>2, <1>3, ComposeUndone
  <2>6. Undone(p) \in Mappings(n)
    BY <1>2, UndoneIs DEF Symmetric
  <2>7. Compose(Undone(p), Identity(n)) = Undone(p)
    BY <2>6, ComposeIdentity
  <2>8. Undone(p) = q
    BY <2>4, <2>5, <2>7
  <2> QED
    BY <2>8
<1>8. \A i \in DOMAIN gens : gens[i] \in C
  <2> SUFFICES ASSUME NEW i \in DOMAIN gens PROVE gens[i] \in C
    OBVIOUS
  <2>1. Compose(gens[i], Identity(n)) \in C
    BY <1>1, <1>2 DEF Generated
  <2>2. Compose(gens[i], Identity(n)) = gens[i]
    BY <1>4, ComposeIdentity
  <2> QED
    BY <2>1, <2>2
<1>9. IsGroup(n, C)
  BY <1>2, <1>5, <1>7 DEF IsGroup
<1>10. Cardinality(C) \in Nat
  BY <1>6, FS_CardinalityType
<1> QED
  BY <1>6, <1>8, <1>9, <1>10 DEF C

-----------------------------------------------------------------------------
(* The levels of a chain. *)

\* What LevelGenerators computes on its way.
Selecting(f, base, strong, level) ==
    f = [j \in 0 .. Len(strong) |->
            IF j = 0 THEN <<>>
            ELSE IF Fixes(strong[j], base, level) THEN Append(f[j - 1], strong[j])
            ELSE f[j - 1]]

(* The recursion of LevelGenerators has a solution. *)
LEMMA SelectingExists ==
    ASSUME NEW n \in Nat, NEW base, NEW strong \in Seq(Symmetric(n)), NEW level
    PROVE  \E f : /\ LevelGenerators(base, strong, level) = f[Len(strong)]
                  /\ f[0] = <<>>
                  /\ \A j \in 1 .. Len(strong) :
                        f[j] = IF Fixes(strong[j], base, level) THEN Append(f[j - 1], strong[j])
                               ELSE f[j - 1]
<1> DEFINE m == Len(strong)
           D == Seq(Symmetric(n))
           Adding(j, g) == IF Fixes(strong[j], base, level) THEN Append(g, strong[j]) ELSE g
           step == [q \in (1 .. m) \X D |-> Adding(q[1], q[2])]
           kept == CHOOSE f : Selecting(f, base, strong, level)
<1>1. m \in Nat /\ \A j \in 1 .. m : strong[j] \in Symmetric(n)
  OBVIOUS
<1>2. \A j \in 1 .. m, g \in D : step[<<j, g>>] = Adding(j, g) /\ Adding(j, g) \in D
  BY <1>1
<1>3. <<>> \in D
  OBVIOUS
<1>4. LevelGenerators(base, strong, level) = kept[m]
  BY DEF LevelGenerators, Selecting
<1>5. \E f : Selecting(f, base, strong, level)
  <2> HIDE DEF step, D, m, Adding
  <2>1. \A j \in 1 .. m, g \in D : step[<<j, g>>] \in D
    BY <1>2
  <2>2. PICK f : Repeating(f, m, <<>>, step) /\ \A i \in 0 .. m : f[i] \in D
    BY <1>1, <1>3, <2>1, RepetitionExists
  <2>3. \A j \in 0 .. m : j # 0 => step[<<j, f[j - 1]>>] = Adding(j, f[j - 1])
    BY <1>1, <1>2, <2>2
  <2>4. f = [j \in 0 .. m |-> IF j = 0 THEN <<>> ELSE Adding(j, f[j - 1])]
    BY <2>2, <2>3 DEF Repeating
  <2>5. Selecting(f, base, strong, level)
    BY <2>4 DEF Selecting, Adding, m
  <2> QED
    BY <2>5
<1>6. Selecting(kept, base, strong, level)
  BY <1>5
<1> HIDE DEF kept
<1>7. \A j \in 0 .. m : kept[j] = IF j = 0 THEN <<>> ELSE Adding(j, kept[j - 1])
  BY <1>6 DEF Selecting
<1>8. 0 \in 0 .. m /\ \A j \in 1 .. m : j \in 0 .. m /\ j # 0
  BY <1>1
<1> HIDE DEF Adding
<1>9. kept[0] = <<>> /\ \A j \in 1 .. m : kept[j] = Adding(j, kept[j - 1])
  BY <1>7, <1>8
<1> QED
  BY <1>4, <1>9 DEF Adding

(* The generators of a level are the strong generators that fix the base before it. *)
LEMMA LevelGeneratorsAre ==
    ASSUME NEW n \in Nat, NEW base, NEW strong \in Seq(Symmetric(n)), NEW level
    PROVE  LET gens == LevelGenerators(base, strong, level)
           IN  /\ gens \in Seq(Symmetric(n))
               /\ \A i \in DOMAIN gens : \E j \in DOMAIN strong :
                     gens[i] = strong[j] /\ Fixes(strong[j], base, level)
               /\ \A j \in DOMAIN strong : Fixes(strong[j], base, level) =>
                     \E i \in DOMAIN gens : gens[i] = strong[j]
<1> DEFINE m == Len(strong)
           F(j) == Fixes(strong[j], base, level)
<1>1. m \in Nat /\ DOMAIN strong = 1 .. m /\ \A j \in 1 .. m : strong[j] \in Symmetric(n)
  OBVIOUS
<1>2. PICK f : /\ LevelGenerators(base, strong, level) = f[m]
               /\ f[0] = <<>>
               /\ \A j \in 1 .. m : f[j] = IF F(j) THEN Append(f[j - 1], strong[j]) ELSE f[j - 1]
  BY SelectingExists
<1> HIDE DEF F
<1> DEFINE P == {k \in 0 .. m : /\ f[k] \in Seq(Symmetric(n))
                                /\ \A i \in DOMAIN f[k] : \E j \in 1 .. m :
                                      f[k][i] = strong[j] /\ F(j)
                                /\ \A j \in 1 .. k : F(j) =>
                                      \E i \in DOMAIN f[k] : f[k][i] = strong[j]}
<1>3. 0 \in P
  <2>1. f[0] \in Seq(Symmetric(n)) /\ DOMAIN f[0] = {} /\ 0 \in 0 .. m /\ 1 .. 0 = {}
    BY <1>1, <1>2
  <2> HIDE DEF m
  <2> QED
    BY <2>1
<1>4. ASSUME NEW k \in 1 .. m, k - 1 \in P PROVE k \in P
  <2>0. k \in 0 .. m
    BY <1>1
  <2> DEFINE g == f[k - 1]
             l == Len(g)
  <2>1. /\ g \in Seq(Symmetric(n))
        /\ \A i \in DOMAIN g : \E j \in 1 .. m : g[i] = strong[j] /\ F(j)
        /\ \A j \in 1 .. k - 1 : F(j) => \E i \in DOMAIN g : g[i] = strong[j]
    BY <1>4
  <2>2. \A j \in 1 .. k : j \in 1 .. k - 1 \/ j = k
    BY <1>1
  <2>3. CASE F(k)
    <3>1. f[k] = Append(g, strong[k])
      BY <1>2, <2>3
    <3>2. /\ f[k] \in Seq(Symmetric(n)) /\ DOMAIN f[k] = 1 .. l + 1 /\ l \in Nat
          /\ DOMAIN g = 1 .. l
          /\ f[k][l + 1] = strong[k] /\ \A i \in 1 .. l : f[k][i] = g[i]
      BY <1>1, <2>1, <3>1
    <3> HIDE DEF g, l
    <3>3. \A i \in 1 .. l + 1 : i \in 1 .. l \/ i = l + 1
      BY <3>2
    <3>4. l + 1 \in 1 .. l + 1 /\ \A i \in 1 .. l : i \in 1 .. l + 1
      BY <3>2
    <3>5. \A i \in DOMAIN f[k] : \E j \in 1 .. m : f[k][i] = strong[j] /\ F(j)
      BY <2>1, <2>3, <3>2, <3>3
    <3>6. \A j \in 1 .. k : F(j) => \E i \in DOMAIN f[k] : f[k][i] = strong[j]
      BY <2>1, <2>2, <3>2, <3>4
    <3>7. f[k] \in Seq(Symmetric(n))
      BY <3>2
    <3> HIDE DEF m
    <3> QED
      BY <2>0, <3>5, <3>6, <3>7
  <2>4. CASE ~F(k)
    <3>1. f[k] = g
      BY <1>2, <2>4
    <3> HIDE DEF g, m
    <3>2. \A j \in 1 .. k : F(j) => \E i \in DOMAIN f[k] : f[k][i] = strong[j]
      BY <2>1, <2>2, <2>4, <3>1
    <3> QED
      BY <2>0, <2>1, <3>1, <3>2
  <2> QED
    BY <2>3, <2>4
<1> HIDE DEF P
<1>5. 0 .. m \subseteq P
  BY <1>1, <1>3, <1>4, RangeInduction
<1>6. m \in P
  <2>1. m \in 0 .. m
    BY <1>1
  <2> QED
    BY <1>5, <2>1
<1>7. /\ f[m] \in Seq(Symmetric(n))
      /\ \A i \in DOMAIN f[m] : \E j \in 1 .. m : f[m][i] = strong[j] /\ F(j)
      /\ \A j \in 1 .. m : F(j) => \E i \in DOMAIN f[m] : f[m][i] = strong[j]
  BY <1>6 DEF P
<1> DEFINE gens == LevelGenerators(base, strong, level)
<1>8. gens = f[m] /\ DOMAIN strong = 1 .. m
  BY <1>1, <1>2
<1> HIDE DEF m, gens
<1>9. /\ gens \in Seq(Symmetric(n))
      /\ \A i \in DOMAIN gens : \E j \in DOMAIN strong : gens[i] = strong[j] /\ F(j)
      /\ \A j \in DOMAIN strong : F(j) => \E i \in DOMAIN gens : gens[i] = strong[j]
  BY <1>7, <1>8
<1> QED
  BY <1>9 DEF F, gens

(* The generators of a level stay what they are when new strong generators move the base *)
(* before it.                                                                            *)
LEMMA SameLevelGenerators ==
    ASSUME NEW n \in Nat, NEW base, NEW base2, NEW strong \in Seq(Symmetric(n)),
           NEW strong2 \in Seq(Symmetric(n)), NEW level,
           Len(strong) <= Len(strong2),
           \A j \in 1 .. Len(strong) : strong2[j] = strong[j],
           \A j \in 1 .. Len(strong) : Fixes(strong[j], base2, level) <=> Fixes(strong[j], base, level),
           \A j \in Len(strong) + 1 .. Len(strong2) : ~Fixes(strong2[j], base2, level)
    PROVE  LevelGenerators(base2, strong2, level) = LevelGenerators(base, strong, level)
<1> DEFINE m == Len(strong)
           m2 == Len(strong2)
<1>1. m \in Nat /\ m2 \in Nat /\ m <= m2
  OBVIOUS
<1>2. PICK f : /\ LevelGenerators(base, strong, level) = f[m]
               /\ f[0] = <<>>
               /\ \A j \in 1 .. m : f[j] = IF Fixes(strong[j], base, level)
                                           THEN Append(f[j - 1], strong[j]) ELSE f[j - 1]
  BY SelectingExists
<1>3. PICK g : /\ LevelGenerators(base2, strong2, level) = g[m2]
               /\ g[0] = <<>>
               /\ \A j \in 1 .. m2 : g[j] = IF Fixes(strong2[j], base2, level)
                                            THEN Append(g[j - 1], strong2[j]) ELSE g[j - 1]
  BY SelectingExists
<1> DEFINE P == {k \in 0 .. m2 : g[k] = IF k <= m THEN f[k] ELSE f[m]}
<1>4. 0 \in P
  BY <1>1, <1>2, <1>3
<1>5. ASSUME NEW k \in 1 .. m2, k - 1 \in P PROVE k \in P
  <2>1. g[k] = IF Fixes(strong2[k], base2, level) THEN Append(g[k - 1], strong2[k]) ELSE g[k - 1]
    BY <1>3
  <2>2. CASE k <= m
    <3>1. k \in 1 .. m /\ k - 1 <= m
      BY <1>1, <2>2
    <3>2. g[k - 1] = f[k - 1]
      BY <1>5, <3>1
    <3>3. /\ strong2[k] = strong[k] /\ (Fixes(strong[k], base2, level) <=> Fixes(strong[k], base, level))
          /\ f[k] = IF Fixes(strong[k], base, level) THEN Append(f[k - 1], strong[k]) ELSE f[k - 1]
      BY <1>2, <3>1
    <3>4. g[k] = f[k]
      BY <2>1, <3>2, <3>3
    <3> QED
      BY <1>1, <2>2, <3>4
  <2>3. CASE k > m
    <3>1. k \in m + 1 .. m2
      BY <1>1, <2>3
    <3>2. g[k] = g[k - 1]
      BY <2>1, <3>1
    <3>3. g[k - 1] = f[m]
      <4>1. k - 1 <= m => k - 1 = m
        BY <1>1, <2>3
      <4> QED
        BY <1>5, <4>1
    <3> QED
      BY <1>1, <2>3, <3>2, <3>3
  <2> QED
    BY <1>1, <2>2, <2>3
<1> HIDE DEF P
<1>6. 0 .. m2 \subseteq P
  BY <1>1, <1>4, <1>5, RangeInduction
<1>7. m2 \in P
  BY <1>1, <1>6
<1>8. g[m2] = f[m]
  BY <1>1, <1>7 DEF P
<1> QED
  BY <1>2, <1>3, <1>8

(* The members of a group that fix the base before a level are a group. *)
LEMMA StabilizerIsGroup ==
    ASSUME NEW n \in Nat, NEW base \in Seq(Points(n)), NEW i \in 1 .. Len(base) + 1,
           NEW H, IsGroup(n, H)
    PROVE  IsGroup(n, {g \in H : Fixes(g, base, i)})
<1> DEFINE S == {g \in H : Fixes(g, base, i)}
<1>1. \A t \in 1 .. i - 1 : base[t] \in Points(n)
  OBVIOUS
<1>2. H \subseteq Symmetric(n) /\ Identity(n) \in H
  BY DEF IsGroup
<1>3. Identity(n) \in S
  BY <1>1, <1>2, IdentityIs DEF Fixes
<1>4. ASSUME NEW p \in S, NEW q \in S PROVE Compose(p, q) \in S
  <2>1. Compose(p, q) \in H
    BY DEF IsGroup
  <2>2. \A t \in 1 .. i - 1 : Compose(p, q)[base[t]] = p[q[base[t]]]
    BY <1>1, <1>2, ComposeSymmetric
  <2>3. \A t \in 1 .. i - 1 : p[base[t]] = base[t] /\ q[base[t]] = base[t]
    BY DEF Fixes
  <2> QED
    BY <2>1, <2>2, <2>3 DEF Fixes
<1>5. ASSUME NEW p \in S PROVE Undone(p) \in S
  <2>1. Undone(p) \in H
    BY DEF IsGroup
  <2>2. \A t \in 1 .. i - 1 : Undone(p)[p[base[t]]] = base[t]
    BY <1>1, <1>2, UndoneIs
  <2>3. \A t \in 1 .. i - 1 : p[base[t]] = base[t]
    BY DEF Fixes
  <2> QED
    BY <2>1, <2>2, <2>3 DEF Fixes
<1>6. S \subseteq Symmetric(n)
  BY <1>2
<1> HIDE DEF S
<1>7. IsGroup(n, S)
  BY <1>3, <1>4, <1>5, <1>6 DEF IsGroup
<1> QED
  BY <1>7 DEF S

(* A level: the orbit of its base point, with representatives in any set that contains what *)
(* its generators generate.                                                                 *)
LEMMA LevelIs ==
    ASSUME NEW n \in Nat, NEW base \in Seq(Points(n)), NEW strong \in Seq(Symmetric(n)),
           NEW i \in 1 .. Len(base), NEW S, Generated(n, LevelGenerators(base, strong, i), S)
    PROVE  LET l == Level(n, base, strong, i)
           IN  /\ l.gens = LevelGenerators(base, strong, i)
               /\ l.gens \in Seq(Symmetric(n))
               /\ l.orbit \in Seq(Points(n))
               /\ DOMAIN l.reps = {l.orbit[k] : k \in DOMAIN l.orbit}
               /\ DOMAIN l.reps \subseteq Points(n)
               /\ base[i] \in Points(n) /\ base[i] \in DOMAIN l.reps
               /\ l.reps[base[i]] = Identity(n)
               /\ \A x \in DOMAIN l.reps :
                     l.reps[x] \in S /\ l.reps[x] \in Symmetric(n) /\ l.reps[x][base[i]] = x
               /\ \A x \in DOMAIN l.reps, j \in DOMAIN l.gens : l.gens[j][x] \in DOMAIN l.reps
<1> DEFINE gens == LevelGenerators(base, strong, i)
           o == Orbit(n, base[i], gens)
           l == Level(n, base, strong, i)
<1>1. l.gens = gens /\ l.orbit = o.orbit /\ l.reps = o.reps
  BY DEF Level
<1>2. gens \in Seq(Symmetric(n))
  BY LevelGeneratorsAre
<1>3. base[i] \in Points(n)
  OBVIOUS
<1> HIDE DEF gens, l
<1>4. /\ o \in Orbits(n, base[i], S)
      /\ \A x \in DOMAIN o.reps, j \in DOMAIN gens : gens[j][x] \in DOMAIN o.reps
  BY <1>2, <1>3, OrbitIs DEF gens
<1> HIDE DEF o
<1>5. /\ o.orbit \in Seq(Points(n)) /\ DOMAIN o.reps \subseteq Points(n)
      /\ o.reps \in [DOMAIN o.reps -> S]
  BY <1>4, OrbitsAre
<1>6. S \subseteq Symmetric(n)
  BY DEF Generated
<1>7. \A x \in DOMAIN o.reps : o.reps[x] \in S /\ o.reps[x] \in Symmetric(n) /\ o.reps[x][base[i]] = x
  BY <1>4, <1>5, <1>6 DEF Orbits
<1>8. /\ DOMAIN o.reps = {o.orbit[k] : k \in DOMAIN o.orbit}
      /\ base[i] \in DOMAIN o.reps /\ o.reps[base[i]] = Identity(n)
  BY <1>4 DEF Orbits
<1>9. l.gens = LevelGenerators(base, strong, i)
  BY <1>1 DEF gens
<1>10. \A x \in DOMAIN l.reps, j \in DOMAIN l.gens : l.gens[j][x] \in DOMAIN l.reps
  BY <1>1, <1>4
<1> QED
  BY <1>1, <1>2, <1>3, <1>5, <1>7, <1>8, <1>9, <1>10 DEF l

(* The generators of a level generate within any group that has the strong generators, and *)
(* within the members of that group that fix the base before the level.                    *)
LEMMA LevelWithin ==
    ASSUME NEW n \in Nat, NEW base \in Seq(Points(n)), NEW strong \in Seq(Symmetric(n)),
           NEW i \in 1 .. Len(base) + 1, NEW H, IsGroup(n, H),
           \A j \in DOMAIN strong : strong[j] \in H
    PROVE  /\ IsGroup(n, {g \in H : Fixes(g, base, i)})
           /\ Generated(n, LevelGenerators(base, strong, i), {g \in H : Fixes(g, base, i)})
           /\ \A j \in DOMAIN LevelGenerators(base, strong, i) :
                 LevelGenerators(base, strong, i)[j] \in {g \in H : Fixes(g, base, i)}
<1> DEFINE S == {g \in H : Fixes(g, base, i)}
           gens == LevelGenerators(base, strong, i)
<1>1. IsGroup(n, S)
  BY StabilizerIsGroup
<1>2. \A j \in DOMAIN gens : \E k \in DOMAIN strong : gens[j] = strong[k] /\ Fixes(strong[k], base, i)
  BY LevelGeneratorsAre
<1>3. \A j \in DOMAIN gens : gens[j] \in S
  BY <1>2
<1> HIDE DEF S, gens
<1>4. Generated(n, gens, S)
  BY <1>1, <1>3, GroupIsGenerated
<1> QED
  BY <1>1, <1>3, <1>4 DEF S, gens

-----------------------------------------------------------------------------
(* Stripping. *)

\* A chain over a group: each level has the representatives of an orbit of its base point, that
\* fix the base before it.
Chained(n, chain, H) ==
    /\ IsGroup(n, H)
    /\ chain.base \in Seq(Points(n))
    /\ \A i \in 1 .. Len(chain.base) :
          /\ DOMAIN chain.levels[i].reps \subseteq Points(n)
          /\ chain.base[i] \in DOMAIN chain.levels[i].reps
          /\ chain.levels[i].reps[chain.base[i]] = Identity(n)
          /\ \A x \in DOMAIN chain.levels[i].reps :
                /\ chain.levels[i].reps[x] \in H
                /\ Fixes(chain.levels[i].reps[x], chain.base, i)
                /\ chain.levels[i].reps[x][chain.base[i]] = x

\* What is left of h after a level, and where the stripping stops.
StripStep(chain, i, h) == Compose(Undone(chain.levels[i].reps[h[chain.base[i]]]), h)
Leaves(chain, i, h) ==
    \/ i > Len(chain.base)
    \/ h[chain.base[i]] \notin DOMAIN chain.levels[i].reps

(* The recursion of Strip has a solution. *)
LEMMA StripIs ==
    ASSUME NEW n \in Nat, NEW chain, NEW H, Chained(n, chain, H)
    PROVE  \A i \in 1 .. Len(chain.base) + 1, h \in Mappings(n) :
               Strip(chain, i, h) = IF Leaves(chain, i, h) THEN [level |-> i, residue |-> h]
                                    ELSE Strip(chain, i + 1, StripStep(chain, i, h))
<1> DEFINE m == Len(chain.base)
           D == (1 .. m + 1) \X Mappings(n)
           Stops == {p \in D : Leaves(chain, p[1], p[2])}
           out == [p \in D |-> [level |-> p[1], residue |-> p[2]]]
           next == [p \in D |-> <<p[1] + 1, StripStep(chain, p[1], p[2])>>]
           Stripping(f) == f = [p \in D |->
               IF p[1] > Len(chain.base) THEN [level |-> p[1], residue |-> p[2]]
               ELSE LET reps == chain.levels[p[1]].reps
                        x    == p[2][chain.base[p[1]]]
                    IN  IF x \notin DOMAIN reps THEN [level |-> p[1], residue |-> p[2]]
                        ELSE f[<<p[1] + 1, Compose(Undone(reps[x]), p[2])>>]]
           strip == CHOOSE f : Stripping(f)
<1>1. m \in Nat
  BY DEF Chained
<1>2. ASSUME NEW i \in 1 .. m + 1, NEW h \in Mappings(n), ~Leaves(chain, i, h)
      PROVE  i + 1 \in 1 .. m + 1 /\ StripStep(chain, i, h) \in Mappings(n)
  <2>1. i \in 1 .. m /\ h[chain.base[i]] \in DOMAIN chain.levels[i].reps
    BY <1>1, <1>2 DEF Leaves
  <2>2. chain.levels[i].reps[h[chain.base[i]]] \in Symmetric(n)
    BY <2>1 DEF Chained, IsGroup
  <2>3. Undone(chain.levels[i].reps[h[chain.base[i]]]) \in Mappings(n)
    BY <2>2, UndoneIs DEF Symmetric
  <2> QED
    BY <1>1, <2>1, <2>3, ComposeIs DEF StripStep
<1>3. ASSUME NEW h \in Mappings(n), NEW i PROVE Strip(chain, i, h) = strip[<<i, h>>]
  <2>1. DOMAIN h = Points(n)
    BY DEF Mappings
  <2>2. [DOMAIN h -> DOMAIN h] = Mappings(n)
    BY <2>1 DEF Mappings
  <2> QED
    BY <2>2 DEF Strip
<1>4. \A p \in D \ Stops : next[p] \in D
  <2> SUFFICES ASSUME NEW p \in D, p \notin Stops PROVE <<p[1] + 1, StripStep(chain, p[1], p[2])>> \in D
    OBVIOUS
  <2>1. p[1] \in 1 .. m + 1 /\ p[2] \in Mappings(n) /\ ~Leaves(chain, p[1], p[2])
    OBVIOUS
  <2>2. p[1] + 1 \in 1 .. m + 1 /\ StripStep(chain, p[1], p[2]) \in Mappings(n)
    BY <1>2, <2>1
  <2> QED
    BY <2>2
<1>5. ASSUME NEW f PROVE Looping(f, D, Stops, out, next) <=> Stripping(f)
  <2> DEFINE g == [p \in D |->
               IF p[1] > Len(chain.base) THEN [level |-> p[1], residue |-> p[2]]
               ELSE LET reps == chain.levels[p[1]].reps
                        x    == p[2][chain.base[p[1]]]
                    IN  IF x \notin DOMAIN reps THEN [level |-> p[1], residue |-> p[2]]
                        ELSE f[<<p[1] + 1, Compose(Undone(reps[x]), p[2])>>]]
             w == [p \in D |-> IF p \in Stops THEN out[p] ELSE f[next[p]]]
  <2>1. ASSUME NEW p \in D PROVE g[p] = w[p]
    <3>1. g[p] = IF Leaves(chain, p[1], p[2]) THEN [level |-> p[1], residue |-> p[2]]
                 ELSE f[<<p[1] + 1, StripStep(chain, p[1], p[2])>>]
      BY DEF Leaves, StripStep
    <3>2. out[p] = [level |-> p[1], residue |-> p[2]] /\ next[p] = <<p[1] + 1, StripStep(chain, p[1], p[2])>>
      OBVIOUS
    <3>3. p \in Stops <=> Leaves(chain, p[1], p[2])
      OBVIOUS
    <3>4. w[p] = IF p \in Stops THEN out[p] ELSE f[next[p]]
      OBVIOUS
    <3> HIDE DEF g, w, Stops, out, next
    <3> QED
      BY <3>1, <3>2, <3>3, <3>4
  <2>2. g = [p \in D |-> g[p]] /\ w = [p \in D |-> w[p]]
    OBVIOUS
  <2>3. Stripping(f) <=> f = g
    OBVIOUS
  <2>4. Looping(f, D, Stops, out, next) <=> f = w
    BY DEF Looping
  <2> HIDE DEF out, next, Stops, D, g, w, Stripping
  <2>5. g = w
    BY <2>1, <2>2
  <2> QED
    BY <2>3, <2>4, <2>5
<1>6. Looping(strip, D, Stops, out, next)
  <2>1. \E f : Stripping(f)
    <3> HIDE DEF D, Stops, out, next, Stripping
    <3> QED
      BY <1>4, <1>5, LoopExists
  <2>2. Stripping(strip)
    <3> HIDE DEF Stripping
    <3> QED
      BY <2>1
  <2> HIDE DEF D, Stops, out, next, Stripping, strip
  <2> QED
    BY <1>5, <2>2
<1> HIDE DEF strip
<1> SUFFICES ASSUME NEW i \in 1 .. m + 1, NEW h \in Mappings(n)
             PROVE  Strip(chain, i, h) = IF Leaves(chain, i, h) THEN [level |-> i, residue |-> h]
                                         ELSE Strip(chain, i + 1, StripStep(chain, i, h))
  OBVIOUS
<1> DEFINE p == <<i, h>>
<1>7. /\ p \in D /\ (p \in Stops <=> Leaves(chain, i, h))
      /\ out[p] = [level |-> i, residue |-> h] /\ next[p] = <<i + 1, StripStep(chain, i, h)>>
  OBVIOUS
<1> HIDE DEF D, Stops, out, next
<1>8. strip[p] = IF p \in Stops THEN out[p] ELSE strip[next[p]]
  BY <1>6, <1>7 DEF Looping
<1>9. CASE Leaves(chain, i, h)
  BY <1>3, <1>7, <1>8, <1>9
<1>10. CASE ~Leaves(chain, i, h)
  <2>1. StripStep(chain, i, h) \in Mappings(n)
    BY <1>2, <1>10
  <2> QED
    BY <1>3, <1>7, <1>8, <1>10, <2>1
<1> QED
  BY <1>9, <1>10

(* A step of the stripping stays in the group, fixes one more base point and can be undone. *)
LEMMA StripStepKeeps ==
    ASSUME NEW n \in Nat, NEW chain, NEW H, Chained(n, chain, H), NEW i \in 1 .. Len(chain.base) + 1,
           NEW h \in H, Fixes(h, chain.base, i), ~Leaves(chain, i, h)
    PROVE  /\ i \in 1 .. Len(chain.base)
           /\ StripStep(chain, i, h) \in H
           /\ Fixes(StripStep(chain, i, h), chain.base, i + 1)
           /\ Compose(chain.levels[i].reps[h[chain.base[i]]], StripStep(chain, i, h)) = h
<1> DEFINE b == chain.base
           x == h[b[i]]
           r == chain.levels[i].reps[x]
           s == StripStep(chain, i, h)
<1>1. i \in 1 .. Len(b) /\ Len(b) \in Nat /\ x \in DOMAIN chain.levels[i].reps
  BY DEF Leaves, Chained
<1>2. IsGroup(n, H) /\ b \in Seq(Points(n)) /\ r \in H /\ Fixes(r, b, i) /\ r[b[i]] = x
  BY <1>1 DEF Chained
<1>3. h \in Symmetric(n) /\ r \in Symmetric(n) /\ h \in Mappings(n) /\ Undone(r) \in H
  BY <1>2 DEF IsGroup, Symmetric
<1>4. s = Compose(Undone(r), h)
  BY DEF StripStep
<1>5. \A t \in 1 .. Len(b) : b[t] \in Points(n)
  BY <1>2
<1> HIDE DEF b, x, r, s
<1>6. s \in H
  BY <1>2, <1>3, <1>4 DEF IsGroup
<1>7. Compose(r, s) = h
  BY <1>3, <1>4, ComposeUndone
<1>8. Undone(r) \in Symmetric(n) /\ \A y \in Points(n) : Undone(r)[r[y]] = y
  BY <1>3, UndoneIs
<1>9. \A y \in Points(n) : s[y] = Undone(r)[h[y]]
  BY <1>3, <1>4, <1>8, ComposeSymmetric
<1>10. ASSUME NEW t \in 1 .. (i + 1) - 1 PROVE s[b[t]] = b[t]
  <2>1. t \in 1 .. Len(b) /\ b[t] \in Points(n)
    BY <1>1, <1>5
  <2>2. h[b[t]] = r[b[t]]
    <3>1. CASE t = i
      BY <1>2, <3>1 DEF x, b
    <3>2. CASE t # i
      <4>1. t \in 1 .. i - 1
        BY <1>1, <3>2
      <4> QED
        BY <1>2, <4>1 DEF Fixes, b
    <3> QED
      BY <3>1, <3>2
  <2> QED
    BY <1>8, <1>9, <2>1, <2>2
<1>11. Fixes(s, b, i + 1)
  BY <1>10 DEF Fixes
<1> QED
  BY <1>1, <1>6, <1>7, <1>11 DEF b, x, r, s

(* Where the stripping of a member of the group ends: the residue is in the group, fixes the *)
(* base before its level and, within the chain, takes its base point out of the orbit.       *)
LEMMA StripKeeps ==
    ASSUME NEW n \in Nat, NEW chain, NEW H, Chained(n, chain, H)
    PROVE  \A i \in 1 .. Len(chain.base) + 1, h \in H : Fixes(h, chain.base, i) =>
               LET s == Strip(chain, i, h)
               IN  /\ s.level \in i .. Len(chain.base) + 1
                   /\ s.residue \in H
                   /\ Fixes(s.residue, chain.base, s.level)
                   /\ s = [level |-> s.level, residue |-> s.residue]
                   /\ Leaves(chain, s.level, s.residue)
<1> DEFINE m == Len(chain.base)
           Ends(s, i) == /\ s.level \in i .. m + 1
                         /\ s.residue \in H
                         /\ Fixes(s.residue, chain.base, s.level)
                         /\ s = [level |-> s.level, residue |-> s.residue]
                         /\ Leaves(chain, s.level, s.residue)
           P == {i \in 1 .. m + 1 : \A h \in H : Fixes(h, chain.base, i) => Ends(Strip(chain, i, h), i)}
<1>1. m \in Nat /\ H \subseteq Mappings(n)
  BY DEF Chained, IsGroup, Symmetric
<1>2. ASSUME NEW i \in 1 .. m + 1, i <= m => i + 1 \in P PROVE i \in P
  <2> SUFFICES ASSUME NEW h \in H, Fixes(h, chain.base, i) PROVE Ends(Strip(chain, i, h), i)
    OBVIOUS
  <2>1. h \in Mappings(n)
    BY <1>1
  <2>2. CASE Leaves(chain, i, h)
    <3>1. Strip(chain, i, h) = [level |-> i, residue |-> h]
      BY <2>1, <2>2, StripIs
    <3>2. i \in i .. m + 1
      BY <1>1
    <3> QED
      BY <2>2, <3>1, <3>2
  <2>3. CASE ~Leaves(chain, i, h)
    <3>1. Strip(chain, i, h) = Strip(chain, i + 1, StripStep(chain, i, h))
      BY <2>1, <2>3, StripIs
    <3>2. i \in 1 .. m /\ StripStep(chain, i, h) \in H /\ Fixes(StripStep(chain, i, h), chain.base, i + 1)
      BY <2>3, StripStepKeeps
    <3>3. i + 1 \in P
      BY <1>1, <1>2, <3>2
    <3>4. Ends(Strip(chain, i, h), i + 1)
      BY <3>1, <3>2, <3>3
    <3>5. \A k \in i + 1 .. m + 1 : k \in i .. m + 1
      BY <1>1
    <3> QED
      BY <3>4, <3>5
  <2> QED
    BY <2>2, <2>3
<1> HIDE DEF P
<1>3. m + 1 \in P
  <2>1. m + 1 \in 1 .. m + 1 /\ ~(m + 1 <= m)
    BY <1>1
  <2> HIDE DEF m
  <2> QED
    BY <1>2, <2>1
<1>4. \A i \in 1 .. m : i + 1 \in P => i \in P
  <2>1. \A i \in 1 .. m : i \in 1 .. m + 1
    BY <1>1
  <2> HIDE DEF m
  <2> QED
    BY <1>2, <2>1
<1>5. 1 .. m + 1 \subseteq P
  <2> HIDE DEF m
  <2> QED
    BY <1>1, <1>3, <1>4, DownInduction
<1>6. \A i \in 1 .. m + 1, h \in H : Fixes(h, chain.base, i) => Ends(Strip(chain, i, h), i)
  BY <1>5 DEF P
<1> QED
  BY <1>6

(* A member of the group that fixes the base before a level passes the levels before it. *)
LEMMA StripPasses ==
    ASSUME NEW n \in Nat, NEW chain, NEW H, Chained(n, chain, H),
           NEW i \in 1 .. Len(chain.base) + 1, NEW h \in Mappings(n), Fixes(h, chain.base, i)
    PROVE  Strip(chain, 1, h) = Strip(chain, i, h)
<1> DEFINE m == Len(chain.base)
           P == {k \in 0 .. i - 1 : Strip(chain, 1, h) = Strip(chain, k + 1, h)}
<1>1. m \in Nat /\ i - 1 \in Nat /\ i - 1 <= m
  BY DEF Chained
<1>2. 0 \in P
  BY <1>1
<1>3. ASSUME NEW k \in 1 .. i - 1, k - 1 \in P PROVE k \in P
  <2>1. k \in 1 .. m /\ k \in 1 .. m + 1
    BY <1>1
  <2>2. /\ h[chain.base[k]] = chain.base[k]
        /\ chain.base[k] \in DOMAIN chain.levels[k].reps
        /\ chain.levels[k].reps[chain.base[k]] = Identity(n)
    BY <2>1 DEF Fixes, Chained
  <2>3. ~Leaves(chain, k, h)
    BY <1>1, <2>1, <2>2 DEF Leaves
  <2>4. StripStep(chain, k, h) = h
    BY <2>2, UndoneIdentity, ComposeIdentity DEF StripStep
  <2>5. Strip(chain, k, h) = Strip(chain, k + 1, h)
    BY <2>1, <2>3, <2>4, StripIs
  <2>6. Strip(chain, 1, h) = Strip(chain, k, h)
    BY <1>3
  <2> QED
    BY <1>1, <2>5, <2>6
<1> HIDE DEF P
<1>4. 0 .. i - 1 \subseteq P
  BY <1>1, <1>2, <1>3, RangeInduction
<1>5. i - 1 \in P
  BY <1>1, <1>4
<1> QED
  BY <1>1, <1>5 DEF P

(* Two chains with the same levels from one on strip in the same way from there. *)
LEMMA SameStrip ==
    ASSUME NEW n \in Nat, NEW chain, NEW other, NEW H, Chained(n, chain, H), Chained(n, other, H),
           other.base = chain.base, NEW i \in 1 .. Len(chain.base) + 1,
           \A j \in i .. Len(chain.base) : other.levels[j] = chain.levels[j]
    PROVE  \A h \in Mappings(n) : Strip(other, i, h) = Strip(chain, i, h)
<1> DEFINE m == Len(chain.base)
           P == {j \in 1 .. m + 1 : j >= i => \A h \in Mappings(n) : Strip(other, j, h) = Strip(chain, j, h)}
<1>1. m \in Nat
  BY DEF Chained
<1>2. ASSUME NEW j \in 1 .. m + 1, j <= m => j + 1 \in P PROVE j \in P
  <2> SUFFICES ASSUME j >= i, NEW h \in Mappings(n) PROVE Strip(other, j, h) = Strip(chain, j, h)
    OBVIOUS
  <2>1. j <= m => other.levels[j] = chain.levels[j] /\ j + 1 >= i
    BY <1>1
  <2>2. Leaves(other, j, h) <=> Leaves(chain, j, h)
    BY <1>1, <2>1 DEF Leaves
  <2>3. CASE Leaves(chain, j, h)
    BY <2>2, <2>3, StripIs
  <2>4. CASE ~Leaves(chain, j, h)
    <3>0. j <= m
      BY <1>1, <2>4 DEF Leaves
    <3>1. j <= m /\ StripStep(other, j, h) = StripStep(chain, j, h)
      BY <2>1, <3>0 DEF StripStep
    <3>4. Strip(chain, j, h) = Strip(chain, j + 1, StripStep(chain, j, h))
      BY <2>4, StripIs
    <3>5. Strip(other, j, h) = Strip(other, j + 1, StripStep(other, j, h))
      BY <2>2, <2>4, StripIs
    <3>2. /\ Strip(chain, j, h) = Strip(chain, j + 1, StripStep(chain, j, h))
          /\ Strip(other, j, h) = Strip(other, j + 1, StripStep(chain, j, h))
      BY <3>1, <3>4, <3>5
    <3>3. StripStep(chain, j, h) \in Mappings(n)
      <4>1. j \in 1 .. m /\ h[chain.base[j]] \in DOMAIN chain.levels[j].reps
        BY <1>1, <2>4 DEF Leaves
      <4>2. chain.levels[j].reps[h[chain.base[j]]] \in Symmetric(n)
        BY <4>1 DEF Chained, IsGroup
      <4>3. Undone(chain.levels[j].reps[h[chain.base[j]]]) \in Mappings(n)
        BY <4>2, UndoneIs DEF Symmetric
      <4> QED
        BY <4>3, ComposeIs DEF StripStep
    <3> QED
      BY <1>2, <2>1, <3>1, <3>2, <3>3
  <2> QED
    BY <2>3, <2>4
<1> HIDE DEF P
<1>3. m + 1 \in P
  <2>1. m + 1 \in 1 .. m + 1 /\ ~(m + 1 <= m)
    BY <1>1
  <2> HIDE DEF m
  <2> QED
    BY <1>2, <2>1
<1>4. \A j \in 1 .. m : j + 1 \in P => j \in P
  <2>1. \A j \in 1 .. m : j \in 1 .. m + 1
    BY <1>1
  <2> HIDE DEF m
  <2> QED
    BY <1>2, <2>1
<1>5. 1 .. m + 1 \subseteq P
  <2> HIDE DEF m
  <2> QED
    BY <1>1, <1>3, <1>4, DownInduction
<1> QED
  BY <1>1, <1>5 DEF P

-----------------------------------------------------------------------------
(* The chain of a base and strong generators. *)

(* The rebuilt chain is a chain over any group that has the strong generators. *)
LEMMA RebuiltIs ==
    ASSUME NEW n \in Nat, NEW base \in Seq(Points(n)), NEW strong \in Seq(Symmetric(n)),
           NEW H, IsGroup(n, H), \A j \in DOMAIN strong : strong[j] \in H
    PROVE  LET chain == Rebuilt(n, base, strong)
           IN  /\ chain.base = base
               /\ \A i \in 1 .. Len(base) : chain.levels[i] = Level(n, base, strong, i)
               /\ Chained(n, chain, H)
<1> DEFINE chain == Rebuilt(n, base, strong)
<1>1. chain.base = base /\ \A i \in 1 .. Len(base) : chain.levels[i] = Level(n, base, strong, i)
  BY DEF Rebuilt
<1> HIDE DEF chain
<1>2. ASSUME NEW i \in 1 .. Len(base)
      PROVE  LET reps == chain.levels[i].reps
             IN  /\ DOMAIN reps \subseteq Points(n)
                 /\ base[i] \in DOMAIN reps
                 /\ reps[base[i]] = Identity(n)
                 /\ \A x \in DOMAIN reps : reps[x] \in H /\ Fixes(reps[x], base, i) /\ reps[x][base[i]] = x
  <2> DEFINE S == {g \in H : Fixes(g, base, i)}
             l == Level(n, base, strong, i)
  <2>1. i \in 1 .. Len(base) + 1
    OBVIOUS
  <2>2. Generated(n, LevelGenerators(base, strong, i), S)
    BY <2>1, LevelWithin
  <2> HIDE DEF S
  <2>3. /\ DOMAIN l.reps \subseteq Points(n)
        /\ base[i] \in DOMAIN l.reps
        /\ l.reps[base[i]] = Identity(n)
        /\ \A x \in DOMAIN l.reps : l.reps[x] \in S /\ l.reps[x][base[i]] = x
    BY <2>2, LevelIs
  <2>4. chain.levels[i] = l
    BY <1>1
  <2> HIDE DEF l
  <2> QED
    BY <2>3, <2>4 DEF S
<1>3. Chained(n, chain, H)
  BY <1>1, <1>2 DEF Chained
<1> QED
  BY <1>1, <1>3 DEF chain

(* The pairs of a point and a generator, numbered. *)
LEMMA PairsNumbered ==
    ASSUME NEW m \in Nat, NEW q \in Nat
    PROVE  /\ \A k \in 1 .. m * q : ((k - 1) \div m) + 1 \in 1 .. q /\ ((k - 1) % m) + 1 \in 1 .. m
           /\ \A a \in 1 .. q, j \in 1 .. m : \E k \in 1 .. m * q :
                  ((k - 1) \div m) + 1 = a /\ ((k - 1) % m) + 1 = j
<1>1. ASSUME NEW k \in 1 .. m * q
      PROVE  ((k - 1) \div m) + 1 \in 1 .. q /\ ((k - 1) % m) + 1 \in 1 .. m
  <2>1. m # 0
    OBVIOUS
  <2> DEFINE d == (k - 1) \div m
             r == (k - 1) % m
  <2>2. d \in Nat /\ r \in Nat /\ r < m /\ k - 1 = d * m + r
    BY <2>1
  <2>3. k - 1 < q * m
    OBVIOUS
  <2> HIDE DEF d, r
  <2>4. d < q
    <3> SUFFICES ASSUME d >= q PROVE FALSE
      BY <2>2
    <3>1. d * m >= q * m
      BY <2>2
    <3> QED
      BY <2>2, <2>3, <3>1
  <2> QED
    BY <2>2, <2>4 DEF d, r
<1>2. ASSUME NEW a \in 1 .. q, NEW j \in 1 .. m
      PROVE  \E k \in 1 .. m * q : ((k - 1) \div m) + 1 = a /\ ((k - 1) % m) + 1 = j
  <2> DEFINE c == a - 1
             i == j - 1
             k == c * m + i + 1
  <2>1. c \in Nat /\ i \in Nat /\ i < m /\ c + 1 <= q /\ a = c + 1 /\ j = i + 1
    OBVIOUS
  <2> HIDE DEF c, i
  <2>2. (c * m + i) \div m = c /\ (c * m + i) % m = i /\ c * m + i \in Nat
    BY <2>1
  <2>3. (c + 1) * m <= q * m
    BY <2>1
  <2>4. (c + 1) * m = c * m + m /\ q * m = m * q
    BY <2>1
  <2>5. k \in 1 .. m * q /\ k - 1 = c * m + i
    BY <2>1, <2>2, <2>3, <2>4
  <2> QED
    BY <2>1, <2>2, <2>5
<1> QED
  BY <1>1, <1>2

(* The Schreier generators of a level are in the group and fix the base up to the level's    *)
(* point, and there is one for each point of the orbit and generator of the level.          *)
LEMMA SchreierIs ==
    ASSUME NEW n \in Nat, NEW base \in Seq(Points(n)), NEW strong \in Seq(Symmetric(n)),
           NEW H, IsGroup(n, H), \A j \in DOMAIN strong : strong[j] \in H,
           NEW i \in 1 .. Len(base)
    PROVE  LET l == Level(n, base, strong, i)
               schreier == SchreierGenerators(l)
           IN  /\ DOMAIN schreier \subseteq Nat
               /\ \A k \in DOMAIN schreier : schreier[k] \in H /\ Fixes(schreier[k], base, i + 1)
               /\ \A x \in DOMAIN l.reps, j \in DOMAIN l.gens : \E k \in DOMAIN schreier :
                     schreier[k] = Compose(Undone(l.reps[l.gens[j][x]]), Compose(l.gens[j], l.reps[x]))
<1> DEFINE S == {g \in H : Fixes(g, base, i)}
           l == Level(n, base, strong, i)
           m == Len(l.gens)
           q == Len(l.orbit)
           At(x, s) == Compose(Undone(l.reps[s[x]]), Compose(s, l.reps[x]))
           schreier == SchreierGenerators(l)
<1>1. i \in 1 .. Len(base) + 1
  OBVIOUS
<1>2. /\ IsGroup(n, S) /\ Generated(n, LevelGenerators(base, strong, i), S)
      /\ \A j \in DOMAIN LevelGenerators(base, strong, i) : LevelGenerators(base, strong, i)[j] \in S
  <2>1. IsGroup(n, S)
    BY <1>1, LevelWithin
  <2>2. Generated(n, LevelGenerators(base, strong, i), S)
    BY <1>1, LevelWithin
  <2>3. \A j \in DOMAIN LevelGenerators(base, strong, i) : LevelGenerators(base, strong, i)[j] \in S
    BY <1>1, LevelWithin
  <2> HIDE DEF S
  <2> QED
    BY <2>1, <2>2, <2>3
<1>3. /\ l.gens = LevelGenerators(base, strong, i) /\ l.gens \in Seq(Symmetric(n))
      /\ l.orbit \in Seq(Points(n))
      /\ DOMAIN l.reps = {l.orbit[k] : k \in DOMAIN l.orbit}
      /\ DOMAIN l.reps \subseteq Points(n)
      /\ base[i] \in Points(n)
      /\ \A x \in DOMAIN l.reps : l.reps[x] \in S /\ l.reps[x] \in Symmetric(n) /\ l.reps[x][base[i]] = x
      /\ \A x \in DOMAIN l.reps, j \in DOMAIN l.gens : l.gens[j][x] \in DOMAIN l.reps
  <2> HIDE DEF S
  <2> QED
    BY <1>2, LevelIs
<1>4. m \in Nat /\ q \in Nat /\ DOMAIN l.gens = 1 .. m /\ DOMAIN l.orbit = 1 .. q
  BY <1>3
<1>5. \A j \in 1 .. m : l.gens[j] \in S
  BY <1>2, <1>3, <1>4
<1>6. schreier = [k \in 1 .. m * q |-> At(l.orbit[((k - 1) \div m) + 1], l.gens[((k - 1) % m) + 1])]
  BY DEF SchreierGenerators
<1> HIDE DEF l, schreier
<1>7. ASSUME NEW x \in DOMAIN l.reps, NEW j \in 1 .. m
      PROVE  At(x, l.gens[j]) \in H /\ Fixes(At(x, l.gens[j]), base, i + 1)
  <2> DEFINE g == l.gens[j]
             y == g[x]
             r == l.reps[x]
             u == l.reps[y]
             t == Compose(Undone(u), Compose(g, r))
  <2>1. g \in S /\ r \in S /\ y \in DOMAIN l.reps /\ u \in S
    BY <1>3, <1>4, <1>5
  <2>2. r[base[i]] = x /\ u[base[i]] = y /\ y = g[x] /\ y \in Points(n)
    BY <1>3, <2>1
  <2> HIDE DEF g, y, r, u
  <2>3. Undone(u) \in S /\ Compose(g, r) \in S /\ t \in S
    <3> HIDE DEF S
    <3> QED
      BY <1>2, <2>1 DEF IsGroup
  <2>4. S \subseteq Symmetric(n)
    BY <1>2 DEF IsGroup
  <2>5. Compose(g, r)[base[i]] = y
    <3> HIDE DEF S
    <3>1. Compose(g, r)[base[i]] = g[r[base[i]]]
      BY <1>3, <2>1, <2>4, ComposeSymmetric
    <3> QED
      BY <2>2, <3>1
  <2>6. t[base[i]] = base[i]
    <3> HIDE DEF S
    <3>1. t[base[i]] = Undone(u)[Compose(g, r)[base[i]]]
      BY <1>3, <2>3, <2>4, ComposeSymmetric
    <3>2. Undone(u)[u[base[i]]] = base[i]
      BY <1>3, <2>1, <2>4, UndoneIs
    <3> QED
      BY <2>2, <2>5, <3>1, <3>2
  <2>7. t \in H /\ Fixes(t, base, i)
    BY <2>3
  <2>8. At(x, l.gens[j]) = t
    BY DEF g, y, r, u
  <2> HIDE DEF t, At
  <2>9. Fixes(t, base, i + 1)
    <3>1. \A v \in 1 .. (i + 1) - 1 : v \in 1 .. i - 1 \/ v = i
      OBVIOUS
    <3> QED
      BY <2>6, <2>7, <3>1 DEF Fixes
  <2> QED
    BY <2>7, <2>8, <2>9
<1>8. \A a \in 1 .. q : l.orbit[a] \in DOMAIN l.reps
  BY <1>3, <1>4
<1>9. \A x \in DOMAIN l.reps : \E a \in 1 .. q : l.orbit[a] = x
  BY <1>3, <1>4
<1> HIDE DEF S, At, m, q
<1>10. DOMAIN schreier = 1 .. m * q
  BY <1>6
<1>11. ASSUME NEW k \in DOMAIN schreier PROVE schreier[k] \in H /\ Fixes(schreier[k], base, i + 1)
  <2> DEFINE a == ((k - 1) \div m) + 1
             j == ((k - 1) % m) + 1
  <2>1. a \in 1 .. q /\ j \in 1 .. m
    BY <1>4, <1>10, PairsNumbered
  <2>2. schreier[k] = At(l.orbit[a], l.gens[j])
    BY <1>6, <1>10
  <2> HIDE DEF a, j
  <2> QED
    BY <1>7, <1>8, <2>1, <2>2
<1>12. ASSUME NEW x \in DOMAIN l.reps, NEW j \in DOMAIN l.gens
       PROVE  \E k \in DOMAIN schreier : schreier[k] = At(x, l.gens[j])
  <2>1. PICK a \in 1 .. q : l.orbit[a] = x
    BY <1>9
  <2>2. PICK k \in 1 .. m * q : ((k - 1) \div m) + 1 = a /\ ((k - 1) % m) + 1 = j
    <3>1. m \in Nat /\ q \in Nat /\ a \in 1 .. q /\ j \in 1 .. m
      BY <1>4, <2>1
    <3>2. \A c \in 1 .. q, t \in 1 .. m : \E k \in 1 .. m * q :
             ((k - 1) \div m) + 1 = c /\ ((k - 1) % m) + 1 = t
      BY <3>1, PairsNumbered
    <3> QED
      BY <3>1, <3>2
  <2>3. schreier[k] = At(l.orbit[a], l.gens[j])
    BY <1>6, <2>2
  <2> QED
    BY <1>10, <2>1, <2>2, <2>3
<1>13. DOMAIN schreier \subseteq Nat
  <2>1. m * q \in Nat
    BY <1>4
  <2> QED
    BY <1>10, <2>1
<1> QED
  BY <1>11, <1>12, <1>13 DEF schreier, l, At

-----------------------------------------------------------------------------
(* The strong generators. *)

(* Only the identity moves nothing. *)
LEMMA MovedIs ==
    ASSUME NEW n \in Nat, NEW p \in Mappings(n)
    PROVE  Moved(p) \subseteq Points(n) /\ (Moved(p) = {} <=> p = Identity(n))
<1>1. DOMAIN p = Points(n)
  BY DEF Mappings
<1>2. Moved(p) = {x \in Points(n) : p[x] # x}
  BY <1>1 DEF Moved
<1>3. ASSUME Moved(p) = {} PROVE p = Identity(n)
  <2>1. \A x \in Points(n) : p[x] = Identity(n)[x]
    BY <1>2, <1>3, IdentityIs
  <2> QED
    BY <2>1, IdentityIs, SameMapping
<1>4. ASSUME p = Identity(n) PROVE Moved(p) = {}
  BY <1>2, <1>4, IdentityIs
<1> QED
  BY <1>2, <1>3, <1>4

\* No point is in the base twice, and no strong generator fixes the base.
Based(n, base, strong) ==
    /\ base \in Seq(Points(n)) /\ strong \in Seq(Symmetric(n))
    /\ \A t, u \in DOMAIN base : base[t] = base[u] => t = u
    /\ \A j \in DOMAIN strong : \E t \in DOMAIN base : strong[j][base[t]] # base[t]

(* A new strong generator. *)
LEMMA AddStrongIs ==
    ASSUME NEW n \in Nat, NEW base, NEW strong, Based(n, base, strong),
           NEW r \in Symmetric(n), Moved(r) # {}
    PROVE  LET after == AddStrong(base, strong, r)
           IN  /\ Based(n, after.base, after.strong)
               /\ after = [base |-> after.base, strong |-> after.strong]
               /\ after.strong = Append(strong, r)
               /\ (\E t \in DOMAIN base : r[base[t]] # base[t]) => after.base = base
               /\ ~(\E t \in DOMAIN base : r[base[t]] # base[t]) => Len(after.base) = Len(base) + 1
<1> DEFINE after == AddStrong(base, strong, r)
           b == after.base
           s == after.strong
           l == Len(base)
           m == Len(strong)
           p == Lowest(Moved(r))
<1>1. /\ base \in Seq(Points(n)) /\ strong \in Seq(Symmetric(n)) /\ l \in Nat /\ m \in Nat
      /\ DOMAIN base = 1 .. l /\ DOMAIN strong = 1 .. m
      /\ \A t, u \in 1 .. l : base[t] = base[u] => t = u
      /\ \A j \in 1 .. m : \E t \in 1 .. l : strong[j][base[t]] # base[t]
  BY DEF Based
<1>2. s = Append(strong, r) /\ after = [base |-> b, strong |-> s]
  BY DEF AddStrong
<1>3. s \in Seq(Symmetric(n)) /\ DOMAIN s = 1 .. m + 1 /\ s[m + 1] = r /\ \A j \in 1 .. m : s[j] = strong[j]
  BY <1>1, <1>2
<1>4. p \in Points(n) /\ r[p] # p
  <2>1. r \in Mappings(n)
    BY DEF Symmetric
  <2>2. Moved(r) \in SUBSET Nat /\ Moved(r) \subseteq Points(n)
    BY <2>1, MovedIs, PointsAre
  <2>3. p \in Moved(r)
    BY <2>2, LowestIs
  <2> QED
    BY <2>2, <2>3 DEF Moved
<1>5. \A j \in 1 .. m + 1 : j \in 1 .. m \/ j = m + 1
  BY <1>1
<1>6. CASE \E t \in DOMAIN base : r[base[t]] # base[t]
  <2>1. b = base
    BY <1>6 DEF AddStrong
  <2>2. PICK t \in 1 .. l : r[base[t]] # base[t]
    BY <1>1, <1>6
  <2> HIDE DEF after, b, s, l, m, p
  <2>3. \A j \in 1 .. m + 1 : \E u \in 1 .. l : s[j][base[u]] # base[u]
    BY <1>1, <1>3, <1>5, <2>2
  <2>4. Based(n, b, s)
    BY <1>1, <1>3, <2>1, <2>3 DEF Based
  <2> QED
    BY <1>2, <1>6, <2>1, <2>4 DEF after, b, s
<1>7. CASE ~\E t \in DOMAIN base : r[base[t]] # base[t]
  <2>1. b = Append(base, p)
    BY <1>7 DEF AddStrong
  <2>2. /\ b \in Seq(Points(n)) /\ DOMAIN b = 1 .. l + 1 /\ Len(b) = l + 1
        /\ b[l + 1] = p /\ \A t \in 1 .. l : b[t] = base[t]
    <3> HIDE DEF p
    <3> QED
      BY <1>1, <1>4, <2>1
  <2>3. \A t \in 1 .. l : base[t] # p
    BY <1>1, <1>4, <1>7
  <2>4. \A t \in 1 .. l + 1 : t \in 1 .. l \/ t = l + 1
    BY <1>1
  <2>5. l + 1 \in 1 .. l + 1 /\ \A t \in 1 .. l : t \in 1 .. l + 1
    BY <1>1
  <2>6. Len(b) = Len(base) + 1
    BY <2>2
  <2> HIDE DEF after, b, s, l, m, p
  <2>7. \A t, u \in 1 .. l + 1 : b[t] = b[u] => t = u
    BY <1>1, <2>2, <2>3, <2>4
  <2>8. \A j \in 1 .. m + 1 : \E u \in 1 .. l + 1 : s[j][b[u]] # b[u]
    <3>1. s[m + 1][b[l + 1]] # b[l + 1]
      BY <1>3, <1>4, <2>2
    <3>2. ASSUME NEW j \in 1 .. m PROVE \E u \in 1 .. l + 1 : s[j][b[u]] # b[u]
      <4>1. PICK u \in 1 .. l : strong[j][base[u]] # base[u]
        BY <1>1
      <4> QED
        BY <1>3, <2>2, <2>5, <4>1
    <3> QED
      BY <1>5, <2>5, <3>1, <3>2
  <2>9. Based(n, b, s)
    BY <1>3, <2>2, <2>7, <2>8 DEF Based
  <2> QED
    BY <1>2, <1>7, <2>6, <2>9 DEF after, b, s
<1> QED
  BY <1>6, <1>7

\* The strong generators are in what the generators generate, and the generators but for the
\* identity are strong.
Strong(n, gens, strong) ==
    /\ \A j \in DOMAIN strong : strong[j] \in Closure(n, gens)
    /\ \A j \in DOMAIN gens : gens[j] = Identity(n) \/ \E k \in DOMAIN strong : strong[k] = gens[j]

\* What Started computes on its way.
Starting(f, gens) ==
    f = [j \in 0 .. Len(gens) |->
            IF j = 0 THEN [base |-> <<>>, strong |-> <<>>]
            ELSE IF Moved(gens[j]) = {} THEN f[j - 1]
            ELSE AddStrong(f[j - 1].base, f[j - 1].strong, gens[j])]

(* The recursion of Started has a solution. *)
LEMMA StartingExists ==
    ASSUME NEW n \in Nat, NEW gens \in Seq(Symmetric(n))
    PROVE  \E f : /\ Started(gens) = f[Len(gens)]
                  /\ f[0] = [base |-> <<>>, strong |-> <<>>]
                  /\ \A j \in 0 .. Len(gens) : Based(n, f[j].base, f[j].strong)
                  /\ \A j \in 1 .. Len(gens) :
                        f[j] = IF Moved(gens[j]) = {} THEN f[j - 1]
                               ELSE AddStrong(f[j - 1].base, f[j - 1].strong, gens[j])
<1> DEFINE m == Len(gens)
           D == {s \in [base : Seq(Points(n)), strong : Seq(Symmetric(n))] : Based(n, s.base, s.strong)}
           none == [base |-> <<>>, strong |-> <<>>]
           Adding(j, s) == IF Moved(gens[j]) = {} THEN s ELSE AddStrong(s.base, s.strong, gens[j])
           step == [q \in (1 .. m) \X D |-> Adding(q[1], q[2])]
           start == CHOOSE f : Starting(f, gens)
<1>1. m \in Nat /\ \A j \in 1 .. m : gens[j] \in Symmetric(n)
  OBVIOUS
<1>2. ASSUME NEW j \in 1 .. m, NEW s \in D PROVE step[<<j, s>>] = Adding(j, s) /\ Adding(j, s) \in D
  <2>1. step[<<j, s>>] = Adding(j, s)
    <3> HIDE DEF D, Adding
    <3> QED
      OBVIOUS
  <2>2. CASE Moved(gens[j]) = {}
    BY <2>1, <2>2
  <2>3. CASE Moved(gens[j]) # {}
    <3> DEFINE a == AddStrong(s.base, s.strong, gens[j])
    <3>1. Adding(j, s) = a
      BY <2>3
    <3>2. Based(n, s.base, s.strong) /\ gens[j] \in Symmetric(n)
      BY <1>1
    <3> HIDE DEF a
    <3>3. Based(n, a.base, a.strong) /\ a = [base |-> a.base, strong |-> a.strong]
      BY <2>3, <3>2, AddStrongIs DEF a
    <3>4. a \in D
      BY <3>3 DEF Based
    <3> HIDE DEF D, Adding, step
    <3> QED
      BY <2>1, <3>1, <3>4
  <2> QED
    BY <2>2, <2>3
<1>3. none \in D
  <2> DEFINE e == <<>>
  <2>1. e \in Seq(Points(n)) /\ e \in Seq(Symmetric(n)) /\ DOMAIN e = {}
    OBVIOUS
  <2>2. none = [base |-> e, strong |-> e]
    OBVIOUS
  <2> HIDE DEF e
  <2>3. none.base = e /\ none.strong = e
    BY <2>2
  <2>4. none \in [base : Seq(Points(n)), strong : Seq(Symmetric(n))]
    BY <2>1, <2>2
  <2> HIDE DEF none
  <2>5. Based(n, none.base, none.strong)
    BY <2>1, <2>3 DEF Based
  <2> QED
    BY <2>4, <2>5
<1>4. Started(gens) = start[m]
  BY DEF Started, Starting
<1>5. \E f : Starting(f, gens) /\ \A i \in 0 .. m : f[i] \in D
  <2> HIDE DEF step, D, m, Adding, none
  <2>1. \A j \in 1 .. m, g \in D : step[<<j, g>>] \in D
    BY <1>2
  <2>2. PICK f : Repeating(f, m, none, step) /\ \A i \in 0 .. m : f[i] \in D
    BY <1>1, <1>3, <2>1, RepetitionExists
  <2>3. \A j \in 0 .. m : j # 0 => step[<<j, f[j - 1]>>] = Adding(j, f[j - 1])
    BY <1>1, <1>2, <2>2
  <2>4. f = [j \in 0 .. m |-> IF j = 0 THEN none ELSE Adding(j, f[j - 1])]
    BY <2>2, <2>3 DEF Repeating
  <2>5. Starting(f, gens)
    BY <2>4 DEF Starting, Adding, m, none
  <2> QED
    BY <2>2, <2>5
<1>6. Starting(start, gens)
  BY <1>5
<1> HIDE DEF start
<1>7. \A j \in 0 .. m : start[j] = IF j = 0 THEN none ELSE Adding(j, start[j - 1])
  BY <1>6 DEF Starting
<1>8. 0 \in 0 .. m /\ \A j \in 1 .. m : j \in 0 .. m /\ j # 0
  BY <1>1
<1> HIDE DEF Adding, none
<1>9. start[0] = none /\ \A j \in 1 .. m : start[j] = Adding(j, start[j - 1])
  BY <1>7, <1>8
<1>10. \A j \in 0 .. m : start[j] \in D
  <2> DEFINE P == {j \in 0 .. m : start[j] \in D}
  <2>1. 0 \in P
    <3> HIDE DEF D, m
    <3> QED
      BY <1>3, <1>8, <1>9
  <2>2. ASSUME NEW j \in 1 .. m, j - 1 \in P PROVE j \in P
    <3> HIDE DEF D, m, step
    <3> QED
      BY <1>2, <1>8, <1>9, <2>2
  <2> HIDE DEF P, D
  <2>3. 0 .. m \subseteq P
    BY <1>1, <2>1, <2>2, RangeInduction
  <2> QED
    BY <2>3 DEF P
<1>11. \A j \in 0 .. m : Based(n, start[j].base, start[j].strong)
  BY <1>10
<1> HIDE DEF D, step
<1> QED
  BY <1>4, <1>9, <1>11 DEF Adding, none

(* What the chain starts with. *)
LEMMA StartedIs ==
    ASSUME NEW n \in Nat, NEW gens \in Seq(Symmetric(n))
    PROVE  LET start == Started(gens)
           IN  Based(n, start.base, start.strong) /\ Strong(n, gens, start.strong)
<1> DEFINE m == Len(gens)
           C == Closure(n, gens)
<1>1. m \in Nat /\ DOMAIN gens = 1 .. m
  OBVIOUS
<1>2. \A j \in 1 .. m : gens[j] \in C /\ gens[j] \in Mappings(n) /\ gens[j] \in Symmetric(n)
  BY ClosureIsGroup DEF Symmetric
<1>3. PICK f : /\ Started(gens) = f[m]
               /\ f[0] = [base |-> <<>>, strong |-> <<>>]
               /\ \A j \in 0 .. m : Based(n, f[j].base, f[j].strong)
               /\ \A j \in 1 .. m :
                     f[j] = IF Moved(gens[j]) = {} THEN f[j - 1]
                            ELSE AddStrong(f[j - 1].base, f[j - 1].strong, gens[j])
  BY StartingExists
<1> DEFINE Has(s, j) == gens[j] = Identity(n) \/ \E k \in DOMAIN s : s[k] = gens[j]
           P == {k \in 0 .. m : /\ \A j \in DOMAIN f[k].strong : f[k].strong[j] \in C
                                /\ \A j \in 1 .. k : Has(f[k].strong, j)}
<1>4. 0 \in P
  <2>1. DOMAIN f[0].strong = {} /\ 0 \in 0 .. m /\ 1 .. 0 = {}
    BY <1>1, <1>3
  <2> HIDE DEF m, C
  <2> QED
    BY <2>1
<1>5. ASSUME NEW k \in 1 .. m, k - 1 \in P PROVE k \in P
  <2> DEFINE s == f[k - 1].strong
             r == f[k].strong
  <2>1. /\ \A j \in DOMAIN s : s[j] \in C
        /\ \A j \in 1 .. k - 1 : Has(s, j)
    BY <1>5
  <2>2. k \in 0 .. m /\ k - 1 \in 0 .. m /\ \A j \in 1 .. k : j \in 1 .. k - 1 \/ j = k
    BY <1>1
  <2>3. CASE Moved(gens[k]) = {}
    <3>1. r = s
      BY <1>3, <2>3
    <3>2. gens[k] = Identity(n)
      BY <1>2, <2>3, MovedIs
    <3> HIDE DEF r, s, m, C
    <3>3. \A j \in 1 .. k : Has(r, j)
      BY <2>1, <2>2, <3>1, <3>2
    <3> QED
      BY <2>1, <2>2, <3>1, <3>3 DEF r
  <2>4. CASE Moved(gens[k]) # {}
    <3>1. r = Append(s, gens[k])
      <4>1. f[k] = AddStrong(f[k - 1].base, s, gens[k])
        BY <1>3, <2>4
      <4>2. AddStrong(f[k - 1].base, s, gens[k]).strong = Append(s, gens[k])
        BY DEF AddStrong
      <4> HIDE DEF s
      <4> QED
        BY <4>1, <4>2
    <3>2. s \in Seq(Symmetric(n))
      BY <1>3, <2>2 DEF Based
    <3> DEFINE l == Len(s)
    <3>3. /\ l \in Nat /\ DOMAIN s = 1 .. l /\ DOMAIN r = 1 .. l + 1
          /\ r[l + 1] = gens[k] /\ \A j \in 1 .. l : r[j] = s[j]
      <4> HIDE DEF r, s
      <4> QED
        BY <1>2, <3>1, <3>2
    <3> HIDE DEF r, s, m, C, l
    <3>4. /\ \A j \in 1 .. l + 1 : j \in 1 .. l \/ j = l + 1
          /\ l + 1 \in 1 .. l + 1 /\ \A j \in 1 .. l : j \in 1 .. l + 1
      BY <3>3
    <3>5. \A j \in DOMAIN r : r[j] \in C
      BY <1>2, <2>1, <3>3, <3>4
    <3>6. \A j \in 1 .. k : Has(r, j)
      BY <2>1, <2>2, <3>3, <3>4
    <3> QED
      BY <2>2, <3>5, <3>6 DEF r
  <2> QED
    BY <2>3, <2>4
<1> HIDE DEF P
<1>6. 0 .. m \subseteq P
  BY <1>1, <1>4, <1>5, RangeInduction
<1>7. m \in 0 .. m
  BY <1>1
<1>8. m \in P
  BY <1>6, <1>7
<1>9. /\ \A j \in DOMAIN f[m].strong : f[m].strong[j] \in C
      /\ \A j \in 1 .. m : Has(f[m].strong, j)
  BY <1>8 DEF P
<1>10. Based(n, f[m].base, f[m].strong)
  BY <1>3, <1>7
<1> HIDE DEF m
<1>11. Strong(n, gens, f[m].strong)
  BY <1>1, <1>9 DEF Strong
<1> QED
  BY <1>3, <1>10, <1>11

-----------------------------------------------------------------------------
(* The steps of the verification. *)

(* The base has at most n points. *)
LEMMA BaseLength ==
    ASSUME NEW n \in Nat, NEW base, NEW strong, Based(n, base, strong)
    PROVE  Len(base) \in Nat /\ Len(base) <= n
<1> DEFINE m == Len(base)
<1>1. m \in Nat /\ base \in [1 .. m -> Points(n)] /\ \A t, u \in 1 .. m : base[t] = base[u] => t = u
  BY DEF Based
<1> HIDE DEF m
<1>2. base \in Injection(1 .. m, Points(n))
  BY <1>1, Fun_IsInj
<1>3. Cardinality(1 .. m) <= Cardinality(Points(n))
  BY <1>2, PointsAre, FS_Injection
<1>4. Cardinality(1 .. m) = m
  <2>1. Cardinality(1 .. m) = IF 1 > m THEN 0 ELSE m - 1 + 1
    BY <1>1, FS_Interval
  <2> QED
    BY <1>1, <2>1
<1> QED
  BY <1>1, <1>3, <1>4, PointsAre DEF m

\* The chain at a state of the verification, the Schreier generators of its level, what is left
\* of each of them, and those of which something is left.
ChainAt(n, s)    == Rebuilt(n, s.base, s.strong)
SchreierAt(n, s) == SchreierGenerators(ChainAt(n, s).levels[s.level])
LeftOf(n, s, k)  == Strip(ChainAt(n, s), 1, SchreierAt(n, s)[k])
LeftAt(n, s)     == {k \in DOMAIN SchreierAt(n, s) : Moved(LeftOf(n, s, k).residue) # {}}
FirstLeft(n, s)  == LeftOf(n, s, Lowest(LeftAt(n, s)))

\* The next state of the verification.
NextAt(n, s) ==
    IF LeftAt(n, s) = {} THEN [s EXCEPT !.level = s.level - 1]
    ELSE [base   |-> AddStrong(s.base, s.strong, FirstLeft(n, s).residue).base,
          strong |-> AddStrong(s.base, s.strong, FirstLeft(n, s).residue).strong,
          level  |-> FirstLeft(n, s).level]

(* What is left of a Schreier generator is in any group with the strong generators, and it *)
(* leaves the chain above the level.                                                       *)
LEMMA LeftIs ==
    ASSUME NEW n \in Nat, NEW s \in Progress(n), s.level # 0, NEW H, IsGroup(n, H),
           \A j \in DOMAIN s.strong : s.strong[j] \in H, NEW k \in DOMAIN SchreierAt(n, s)
    PROVE  LET r == LeftOf(n, s, k)
           IN  /\ k \in Nat
               /\ r.level \in s.level + 1 .. Len(s.base) + 1
               /\ r.residue \in H
               /\ Fixes(r.residue, s.base, r.level)
               /\ Leaves(ChainAt(n, s), r.level, r.residue)
               /\ r = Strip(ChainAt(n, s), s.level + 1, SchreierAt(n, s)[k])
               /\ SchreierAt(n, s)[k] \in H
<1> DEFINE base == s.base
           strong == s.strong
           i == s.level
           chain == ChainAt(n, s)
           h == SchreierAt(n, s)[k]
           r == LeftOf(n, s, k)
<1>1. base \in Seq(Points(n)) /\ strong \in Seq(Symmetric(n)) /\ i \in Nat /\ i <= Len(base) /\ i # 0
  BY DEF Progress
<1>2. i \in 1 .. Len(base) /\ i + 1 \in 1 .. Len(base) + 1 /\ 1 \in 1 .. Len(base) + 1
  BY <1>1
<1>3. \A j \in DOMAIN strong : strong[j] \in H
  OBVIOUS
<1>4. chain = Rebuilt(n, base, strong) /\ SchreierAt(n, s) = SchreierGenerators(chain.levels[i])
  BY DEF ChainAt, SchreierAt
<1>5. r = Strip(chain, 1, h)
  BY DEF LeftOf
<1> HIDE DEF base, strong, i, chain, h, r
<1>6. chain.base = base /\ chain.levels[i] = Level(n, base, strong, i) /\ Chained(n, chain, H)
  BY <1>1, <1>2, <1>3, <1>4, RebuiltIs
<1>7. DOMAIN SchreierAt(n, s) \subseteq Nat /\ \A t \in DOMAIN SchreierAt(n, s) :
         SchreierAt(n, s)[t] \in H /\ Fixes(SchreierAt(n, s)[t], base, i + 1)
  BY <1>1, <1>2, <1>3, <1>4, <1>6, SchreierIs
<1>8. k \in Nat /\ h \in H /\ Fixes(h, base, i + 1)
  BY <1>7 DEF h
<1>9. h \in Mappings(n)
  BY <1>8 DEF IsGroup, Symmetric
<1>10. r = Strip(chain, i + 1, h)
  BY <1>2, <1>5, <1>6, <1>8, <1>9, StripPasses
<1>11. /\ r.level \in i + 1 .. Len(base) + 1
       /\ r.residue \in H
       /\ Fixes(r.residue, base, r.level)
       /\ Leaves(chain, r.level, r.residue)
  BY <1>2, <1>6, <1>8, <1>10, StripKeeps
<1> QED
  BY <1>8, <1>10, <1>11 DEF base, strong, i, chain, h, r

(* The first Schreier generator of which something is left. *)
LEMMA FirstLeftIs ==
    ASSUME NEW n \in Nat, NEW s \in Progress(n), s.level # 0, NEW H, IsGroup(n, H),
           \A j \in DOMAIN s.strong : s.strong[j] \in H, LeftAt(n, s) # {}
    PROVE  LET r == FirstLeft(n, s)
           IN  /\ r.level \in s.level + 1 .. Len(s.base) + 1
               /\ r.residue \in H
               /\ r.residue \in Symmetric(n)
               /\ Fixes(r.residue, s.base, r.level)
               /\ Leaves(ChainAt(n, s), r.level, r.residue)
               /\ Moved(r.residue) # {}
<1> DEFINE k == Lowest(LeftAt(n, s))
<1>1. LeftAt(n, s) \in SUBSET Nat
  <2>1. \A j \in DOMAIN SchreierAt(n, s) : j \in Nat
    BY LeftIs
  <2> QED
    BY <2>1 DEF LeftAt
<1>2. k \in LeftAt(n, s)
  BY <1>1, LowestIs
<1>3. k \in DOMAIN SchreierAt(n, s) /\ Moved(LeftOf(n, s, k).residue) # {}
  BY <1>2 DEF LeftAt
<1>4. FirstLeft(n, s) = LeftOf(n, s, k)
  BY DEF FirstLeft
<1> HIDE DEF k
<1>5. H \subseteq Symmetric(n)
  BY DEF IsGroup
<1> QED
  BY <1>3, <1>4, <1>5, LeftIs

(* The verification stays among its states. *)
LEMMA NextProgress ==
    ASSUME NEW n \in Nat, NEW s \in Progress(n), s.level # 0
    PROVE  NextAt(n, s) \in Progress(n)
<1> DEFINE base == s.base
           strong == s.strong
           m == Len(base)
<1>1. /\ base \in Seq(Points(n)) /\ strong \in Seq(Symmetric(n)) /\ s.level \in Nat /\ s.level <= m
      /\ s = [base |-> base, strong |-> strong, level |-> s.level] /\ m \in Nat
  BY DEF Progress
<1>2. CASE LeftAt(n, s) = {}
  <2>1. NextAt(n, s) = [base |-> base, strong |-> strong, level |-> s.level - 1]
    BY <1>1, <1>2 DEF NextAt
  <2>2. s.level - 1 \in Nat /\ s.level - 1 <= m
    BY <1>1
  <2> HIDE DEF base, strong
  <2> QED
    BY <1>1, <2>1, <2>2 DEF Progress, m
<1>3. CASE LeftAt(n, s) # {}
  <2> DEFINE r == FirstLeft(n, s).residue
             l == FirstLeft(n, s).level
             b == AddStrong(base, strong, r).base
             g == AddStrong(base, strong, r).strong
  <2>1. \A j \in DOMAIN strong : strong[j] \in Symmetric(n)
    BY <1>1
  <2>2. /\ l \in s.level + 1 .. m + 1 /\ r \in Symmetric(n) /\ Fixes(r, base, l) /\ Moved(r) # {}
    BY <1>3, <2>1, SymmetricIsGroup, FirstLeftIs
  <2>3. NextAt(n, s) = [base |-> b, strong |-> g, level |-> l]
    BY <1>3 DEF NextAt
  <2>4. g = Append(strong, r) /\ b = IF \E t \in DOMAIN base : r[base[t]] # base[t] THEN base
                                     ELSE Append(base, Lowest(Moved(r)))
    BY DEF AddStrong
  <2>5. r \in Mappings(n)
    BY <2>2 DEF Symmetric
  <2>6. Lowest(Moved(r)) \in Points(n)
    <3>1. Moved(r) \in SUBSET Nat /\ Moved(r) \subseteq Points(n)
      BY <2>5, MovedIs, PointsAre
    <3>2. Lowest(Moved(r)) \in Moved(r)
      BY <2>2, <3>1, LowestIs
    <3> QED
      BY <3>1, <3>2
  <2> HIDE DEF r, l, b, g, base, strong
  <2>7. g \in Seq(Symmetric(n))
    BY <1>1, <2>2, <2>4
  <2>8. CASE \E t \in DOMAIN base : r[base[t]] # base[t]
    <3>1. PICK t \in 1 .. m : r[base[t]] # base[t]
      BY <1>1, <2>8 DEF m
    <3>2. l <= m
      <4> SUFFICES ASSUME l = m + 1 PROVE FALSE
        BY <1>1, <2>2
      <4>1. t \in 1 .. l - 1
        BY <1>1
      <4> QED
        BY <2>2, <3>1, <4>1 DEF Fixes
    <3> QED
      BY <1>1, <2>2, <2>3, <2>4, <2>7, <2>8, <3>2 DEF Progress, m
  <2>9. CASE ~\E t \in DOMAIN base : r[base[t]] # base[t]
    <3>1. b = Append(base, Lowest(Moved(r)))
      BY <2>4, <2>9
    <3>2. b \in Seq(Points(n)) /\ Len(b) = m + 1
      BY <1>1, <2>6, <3>1 DEF m
    <3>3. l \in Nat /\ l <= Len(b)
      BY <1>1, <2>2, <3>2
    <3> QED
      BY <2>3, <2>7, <3>2, <3>3 DEF Progress
  <2> QED
    BY <2>8, <2>9
<1> QED
  BY <1>2, <1>3

(* A residue is a new strong generator: it moves the base point of the level where it leaves *)
(* the chain, or it fixes the whole base.                                                   *)
LEMMA ResidueIsNew ==
    ASSUME NEW n \in Nat, NEW base, NEW strong, Based(n, base, strong), NEW r \in Symmetric(n),
           NEW l \in 1 .. Len(base) + 1, Fixes(r, base, l), Leaves(Rebuilt(n, base, strong), l, r)
    PROVE  /\ \A j \in DOMAIN strong : strong[j] # r
           /\ l <= Len(base) => r[base[l]] # base[l]
           /\ l > Len(base) => ~\E t \in DOMAIN base : r[base[t]] # base[t]
<1> DEFINE m == Len(base)
           chain == Rebuilt(n, base, strong)
<1>1. /\ base \in Seq(Points(n)) /\ strong \in Seq(Symmetric(n)) /\ m \in Nat /\ DOMAIN base = 1 .. m
      /\ \A j \in DOMAIN strong : \E t \in DOMAIN base : strong[j][base[t]] # base[t]
  BY DEF Based
<1>2. CASE l > m
  <2>1. \A t \in DOMAIN base : t \in 1 .. l - 1
    BY <1>1, <1>2
  <2>2. \A t \in DOMAIN base : r[base[t]] = base[t]
    BY <2>1 DEF Fixes
  <2> QED
    BY <1>1, <1>2, <2>2
<1>3. CASE l <= m
  <2> DEFINE lev == Level(n, base, strong, l)
             gens == LevelGenerators(base, strong, l)
  <2>1. l \in 1 .. m
    BY <1>1, <1>3
  <2>2. \A j \in DOMAIN strong : strong[j] \in Symmetric(n)
    BY <1>1
  <2>3. chain.base = base /\ chain.levels[l] = lev
    BY <1>1, <2>1, <2>2, SymmetricIsGroup, RebuiltIs
  <2>0. /\ gens \in Seq(Symmetric(n))
        /\ \A j \in DOMAIN strong : Fixes(strong[j], base, l) => \E i \in DOMAIN gens : gens[i] = strong[j]
    <3>1. strong \in Seq(Symmetric(n))
      BY <1>1
    <3>2. gens \in Seq(Symmetric(n))
      BY <3>1, LevelGeneratorsAre
    <3>3. \A j \in DOMAIN strong : Fixes(strong[j], base, l) => \E i \in DOMAIN gens : gens[i] = strong[j]
      BY <3>1, LevelGeneratorsAre
    <3> HIDE DEF gens
    <3> QED
      BY <3>2, <3>3
  <2>4. \A j \in DOMAIN gens : gens[j] \in Symmetric(n)
    BY <2>0
  <2>5. Generated(n, gens, Symmetric(n))
    BY <2>4, SymmetricIsGroup, GroupIsGenerated
  <2>6. /\ lev.gens = gens /\ base[l] \in DOMAIN lev.reps
        /\ \A x \in DOMAIN lev.reps, j \in DOMAIN lev.gens : lev.gens[j][x] \in DOMAIN lev.reps
    <3> HIDE DEF lev
    <3> QED
      BY <1>1, <2>1, <2>5, LevelIs DEF lev
  <2> HIDE DEF lev, gens, chain
  <2>7. r[base[l]] \notin DOMAIN lev.reps
    BY <1>1, <1>3, <2>1, <2>3 DEF Leaves, chain
  <2>8. ASSUME NEW j \in DOMAIN strong, strong[j] = r PROVE FALSE
    <3>1. \E i \in DOMAIN gens : gens[i] = r
      BY <2>0, <2>8
    <3> QED
      BY <2>6, <2>7, <3>1
  <2> QED
    BY <1>1, <1>3, <2>1, <2>6, <2>7, <2>8
<1> QED
  BY <1>1, <1>2, <1>3

\* Nothing is left of the Schreier generators of a level.
LevelVerified(n, base, strong, i) ==
    LET chain    == Rebuilt(n, base, strong)
        schreier == SchreierGenerators(chain.levels[i])
    IN  \A k \in DOMAIN schreier : Strip(chain, i + 1, schreier[k]).residue = Identity(n)

(* A level stays verified when a generator becomes strong that moves the base before it. *)
LEMMA StillVerified ==
    ASSUME NEW n \in Nat, NEW base \in Seq(Points(n)), NEW strong \in Seq(Symmetric(n)),
           NEW r \in Symmetric(n), NEW l \in 1 .. Len(base), r[base[l]] # base[l],
           NEW i \in l + 1 .. Len(base), LevelVerified(n, base, strong, i)
    PROVE  LevelVerified(n, base, Append(strong, r), i)
<1> DEFINE m == Len(base)
           more == Append(strong, r)
           chain == Rebuilt(n, base, strong)
           other == Rebuilt(n, base, more)
           H == Symmetric(n)
<1>1. m \in Nat /\ l \in 1 .. m /\ i \in 1 .. m /\ i + 1 \in 1 .. m + 1
  OBVIOUS
<1>2. /\ more \in Seq(Symmetric(n)) /\ Len(more) = Len(strong) + 1 /\ Len(strong) \in Nat
      /\ more[Len(strong) + 1] = r /\ \A j \in 1 .. Len(strong) : more[j] = strong[j]
  OBVIOUS
<1>3. /\ \A j \in DOMAIN strong : strong[j] \in H
      /\ \A j \in DOMAIN more : more[j] \in H
  BY <1>2
<1> HIDE DEF more
<1>4. ASSUME NEW j \in i .. m PROVE Level(n, base, more, j) = Level(n, base, strong, j)
  <2>1. l \in 1 .. j - 1
    BY <1>1
  <2>2. ~Fixes(r, base, j)
    BY <2>1 DEF Fixes
  <2>3. \A t \in Len(strong) + 1 .. Len(more) : ~Fixes(more[t], base, j)
    BY <1>2, <2>2
  <2>4. \A t \in 1 .. Len(strong) : Fixes(strong[t], base, j) <=> Fixes(strong[t], base, j)
    OBVIOUS
  <2>5. LevelGenerators(base, more, j) = LevelGenerators(base, strong, j)
    BY <1>2, <2>3, <2>4, SameLevelGenerators
  <2> QED
    BY <2>5 DEF Level
<1> HIDE DEF H
<1>5. IsGroup(n, H)
  BY SymmetricIsGroup DEF H
<1>6. /\ chain.base = base /\ Chained(n, chain, H)
      /\ \A j \in 1 .. m : chain.levels[j] = Level(n, base, strong, j)
  BY <1>3, <1>5, RebuiltIs
<1>7. /\ other.base = base /\ Chained(n, other, H)
      /\ \A j \in 1 .. m : other.levels[j] = Level(n, base, more, j)
  BY <1>2, <1>3, <1>5, RebuiltIs
<1>8. \A j \in i .. m : other.levels[j] = chain.levels[j]
  <2>1. \A j \in i .. m : j \in 1 .. m
    BY <1>1
  <2> HIDE DEF chain, other, m
  <2> QED
    BY <1>4, <1>6, <1>7, <2>1
<1> DEFINE schreier == SchreierGenerators(chain.levels[i])
<1>9. SchreierGenerators(other.levels[i]) = schreier
  BY <1>1, <1>8
<1>10. \A k \in DOMAIN schreier : schreier[k] \in Mappings(n)
  <2>1. chain.levels[i] = Level(n, base, strong, i)
    BY <1>1, <1>6
  <2>2. \A k \in DOMAIN SchreierGenerators(Level(n, base, strong, i)) :
            SchreierGenerators(Level(n, base, strong, i))[k] \in H
    BY <1>1, <1>3, <1>5, SchreierIs
  <2> QED
    BY <2>1, <2>2 DEF H, Symmetric
<1>11. \A k \in DOMAIN schreier : Strip(chain, i + 1, schreier[k]).residue = Identity(n)
  BY DEF LevelVerified
<1> HIDE DEF chain, other, schreier
<1>12. \A h \in Mappings(n) : Strip(other, i + 1, h) = Strip(chain, i + 1, h)
  <2>1. \A j \in i + 1 .. m : other.levels[j] = chain.levels[j]
    BY <1>1, <1>8
  <2> DEFINE v == i + 1
  <2>2. other.base = chain.base /\ v \in 1 .. Len(chain.base) + 1 /\ Len(chain.base) = m
    BY <1>1, <1>6, <1>7
  <2> HIDE DEF v
  <2>3. \A j \in v .. Len(chain.base) : other.levels[j] = chain.levels[j]
    BY <2>1, <2>2 DEF v
  <2>4. Chained(n, chain, H) /\ Chained(n, other, H)
    BY <1>6, <1>7
  <2>5. \A h \in Mappings(n) : Strip(other, v, h) = Strip(chain, v, h)
    BY <2>2, <2>3, <2>4, SameStrip
  <2> QED
    BY <2>5 DEF v
<1>13. \A k \in DOMAIN schreier : Strip(other, i + 1, schreier[k]).residue = Identity(n)
  BY <1>10, <1>11, <1>12
<1> QED
  BY <1>9, <1>13 DEF LevelVerified, more, other

\* What holds at every state of the verification, and what makes it end: there are only so many
\* permutations that may become strong, and a round for a level in between.
VerificationInv(n, gens, s) ==
    /\ s \in Progress(n)
    /\ Based(n, s.base, s.strong)
    /\ Strong(n, gens, s.strong)
    /\ \A i \in s.level + 1 .. Len(s.base) : LevelVerified(n, s.base, s.strong, i)
NotStrong(n, strong) == Symmetric(n) \ {strong[j] : j \in DOMAIN strong}
ToVerify(n, s) == Cardinality(NotStrong(n, s.strong)) * (n + 1) + s.level

(* The measure is a number. *)
LEMMA ToVerifyIs ==
    ASSUME NEW n \in Nat, NEW s \in Progress(n)
    PROVE  ToVerify(n, s) \in Nat /\ IsFiniteSet(NotStrong(n, s.strong))
           /\ Cardinality(NotStrong(n, s.strong)) \in Nat
<1> DEFINE N == NotStrong(n, s.strong)
<1>1. IsFiniteSet(N)
  BY MappingsFinite, FS_Difference DEF NotStrong
<1> HIDE DEF N
<1>2. Cardinality(N) \in Nat
  BY <1>1, FS_CardinalityType
<1>3. s.level \in Nat
  BY DEF Progress
<1>4. Cardinality(N) * (n + 1) \in Nat
  BY <1>2
<1> QED
  BY <1>1, <1>2, <1>3, <1>4 DEF ToVerify, N

(* A step of the verification keeps what holds, and comes nearer to its end. *)
LEMMA NextKeeps ==
    ASSUME NEW n \in Nat, NEW gens \in Seq(Symmetric(n)), NEW s, VerificationInv(n, gens, s), s.level # 0
    PROVE  /\ VerificationInv(n, gens, NextAt(n, s))
           /\ ToVerify(n, NextAt(n, s)) < ToVerify(n, s)
<1> DEFINE base == s.base
           strong == s.strong
           v == s.level
           m == Len(base)
           H == Closure(n, gens)
           next == NextAt(n, s)
<1>1. /\ s \in Progress(n) /\ base \in Seq(Points(n)) /\ strong \in Seq(Symmetric(n)) /\ v \in Nat
      /\ v <= m /\ m \in Nat /\ v # 0
      /\ s = [base |-> base, strong |-> strong, level |-> v]
  BY DEF VerificationInv, Progress
<1>2. Based(n, base, strong) /\ Strong(n, gens, strong)
  BY DEF VerificationInv
<1>3. \A i \in v + 1 .. m : LevelVerified(n, base, strong, i)
  BY DEF VerificationInv
<1>4. IsGroup(n, H) /\ \A j \in DOMAIN strong : strong[j] \in H
  BY <1>2, ClosureIsGroup DEF Strong
<1>5. next \in Progress(n)
  BY <1>1, NextProgress
<1>6. m <= n
  BY <1>2, BaseLength
<1> DEFINE chain == ChainAt(n, s)
<1>7. chain = Rebuilt(n, base, strong)
  BY DEF ChainAt
<1>8. CASE LeftAt(n, s) = {}
  <2>1. next = [base |-> base, strong |-> strong, level |-> v - 1]
    BY <1>1, <1>8 DEF NextAt
  <2>2. next.base = base /\ next.strong = strong /\ next.level = v - 1
    BY <2>1
  <2>3. LevelVerified(n, base, strong, v)
    <3> DEFINE schreier == SchreierAt(n, s)
    <3>1. schreier = SchreierGenerators(Rebuilt(n, base, strong).levels[v])
      BY <1>7 DEF SchreierAt
    <3>2. ASSUME NEW k \in DOMAIN schreier
          PROVE  Strip(chain, v + 1, schreier[k]).residue = Identity(n)
      <4>1. Moved(LeftOf(n, s, k).residue) = {}
        BY <1>8 DEF LeftAt
      <4>2. LeftOf(n, s, k).residue \in H /\ LeftOf(n, s, k) = Strip(chain, v + 1, schreier[k])
        BY <1>1, <1>4, LeftIs
      <4>3. LeftOf(n, s, k).residue \in Mappings(n)
        BY <1>4, <4>2 DEF IsGroup, Symmetric
      <4>4. LeftOf(n, s, k).residue = Identity(n)
        BY <4>1, <4>3, MovedIs
      <4> QED
        BY <4>2, <4>4
    <3> HIDE DEF schreier, chain
    <3> QED
      BY <1>7, <3>1, <3>2 DEF LevelVerified
  <2>4. \A i \in (v - 1) + 1 .. m : i = v \/ i \in v + 1 .. m
    BY <1>1
  <2> HIDE DEF next, base, strong, v, H, chain
  <2>5. \A i \in (v - 1) + 1 .. m : LevelVerified(n, base, strong, i)
    BY <1>3, <2>3, <2>4
  <2>6. VerificationInv(n, gens, next)
    BY <1>2, <1>5, <2>2, <2>5 DEF VerificationInv, m
  <2>7. ToVerify(n, next) < ToVerify(n, s)
    <3> DEFINE c == Cardinality(NotStrong(n, strong)) * (n + 1)
    <3>1. c \in Nat
      <4>1. Cardinality(NotStrong(n, strong)) \in Nat
        BY <1>1, ToVerifyIs DEF strong
      <4> QED
        BY <4>1
    <3>2. ToVerify(n, next) = c + (v - 1)
      BY <2>2 DEF ToVerify
    <3>3. ToVerify(n, s) = c + v
      BY DEF ToVerify, strong, v
    <3> HIDE DEF c
    <3> QED
      BY <1>1, <3>1, <3>2, <3>3
  <2> QED
    BY <2>6, <2>7 DEF next
<1>9. CASE LeftAt(n, s) # {}
  <2> DEFINE r == FirstLeft(n, s).residue
             l == FirstLeft(n, s).level
             b == AddStrong(base, strong, r).base
             g == AddStrong(base, strong, r).strong
  <2>1. /\ l \in v + 1 .. m + 1 /\ r \in H /\ r \in Symmetric(n) /\ Fixes(r, base, l)
        /\ Leaves(chain, l, r) /\ Moved(r) # {}
    BY <1>1, <1>4, <1>9, FirstLeftIs
  <2>2. next = [base |-> b, strong |-> g, level |-> l]
    BY <1>9 DEF NextAt
  <2>3. next.base = b /\ next.strong = g /\ next.level = l
    BY <2>2
  <2> HIDE DEF r, l, base, strong, next, chain, H, v
  <2>4. l \in 1 .. m + 1 /\ l \in Nat
    BY <1>1, <2>1
  <2>5. /\ \A j \in DOMAIN strong : strong[j] # r
        /\ l <= m => r[base[l]] # base[l]
        /\ l > m => ~\E t \in DOMAIN base : r[base[t]] # base[t]
    BY <1>2, <1>7, <2>1, <2>4, ResidueIsNew
  <2>6. /\ Based(n, b, g) /\ g = Append(strong, r)
        /\ (\E t \in DOMAIN base : r[base[t]] # base[t]) => b = base
        /\ ~(\E t \in DOMAIN base : r[base[t]] # base[t]) => Len(b) = m + 1
    BY <1>2, <2>1, AddStrongIs
  <2> HIDE DEF b, g
  <2> DEFINE w == Len(strong)
  <2>7. /\ w \in Nat /\ DOMAIN strong = 1 .. w /\ DOMAIN g = 1 .. w + 1
        /\ g[w + 1] = r /\ \A j \in 1 .. w : g[j] = strong[j]
    BY <1>1, <2>1, <2>6
  <2>8. /\ \A j \in 1 .. w + 1 : j \in 1 .. w \/ j = w + 1
        /\ w + 1 \in 1 .. w + 1 /\ \A j \in 1 .. w : j \in 1 .. w + 1
    BY <2>7
  <2> HIDE DEF w
  <2>9. Strong(n, gens, g)
    <3>1. \A j \in DOMAIN g : g[j] \in H
      BY <1>4, <2>1, <2>7, <2>8
    <3>2. ASSUME NEW j \in DOMAIN gens PROVE gens[j] = Identity(n) \/ \E k \in DOMAIN g : g[k] = gens[j]
      <4>1. gens[j] = Identity(n) \/ \E k \in DOMAIN strong : strong[k] = gens[j]
        BY <1>2 DEF Strong
      <4> QED
        BY <2>7, <2>8, <4>1
    <3> QED
      BY <3>1, <3>2 DEF Strong, H
  <2>10. \A i \in l + 1 .. Len(b) : LevelVerified(n, b, g, i)
    <3>1. CASE l <= m
      <4>1. l \in 1 .. m /\ DOMAIN base = 1 .. m
        BY <1>1, <2>4, <3>1
      <4>2. r[base[l]] # base[l] /\ b = base
        BY <2>5, <2>6, <3>1, <4>1
      <4>3. ASSUME NEW i \in l + 1 .. m PROVE LevelVerified(n, base, g, i)
        <5>1. i \in v + 1 .. m
          BY <1>1, <2>1, <2>4
        <5>2. LevelVerified(n, base, strong, i)
          BY <1>3, <5>1
        <5> QED
          BY <1>1, <2>1, <2>6, <4>1, <4>2, <5>2, StillVerified
      <4> QED
        BY <4>2, <4>3
    <3>2. CASE l > m
      <4>1. Len(b) = m + 1
        BY <2>5, <2>6, <3>2
      <4>2. l + 1 .. Len(b) = {}
        BY <1>1, <2>4, <3>2, <4>1
      <4> QED
        BY <4>2
    <3> QED
      BY <1>1, <2>4, <3>1, <3>2
  <2>11. VerificationInv(n, gens, next)
    BY <1>5, <2>3, <2>6, <2>9, <2>10 DEF VerificationInv
  <2>12. ToVerify(n, next) < ToVerify(n, s)
    <3> DEFINE A == NotStrong(n, strong)
               B == NotStrong(n, g)
               c == Cardinality(A)
               d == Cardinality(B)
    <3>1. B \in SUBSET A /\ r \in A /\ r \notin B
      BY <2>1, <2>5, <2>7, <2>8 DEF NotStrong
    <3>2. IsFiniteSet(A) /\ c \in Nat
      BY <1>1, ToVerifyIs DEF strong
    <3> HIDE DEF A, B
    <3>3. IsFiniteSet(B) /\ Cardinality(B) <= Cardinality(A) /\ Cardinality(B) # Cardinality(A)
      BY <3>1, <3>2, FS_Subset
    <3>4. d \in Nat
      BY <3>3, FS_CardinalityType
    <3> HIDE DEF c, d
    <3>5. d + 1 <= c
      BY <3>2, <3>3, <3>4 DEF c, d
    <3>6. l <= n
      <4>1. Len(b) \in Nat /\ Len(b) <= n
        BY <2>6, BaseLength
      <4>2. l <= Len(b)
        BY <1>5, <2>3 DEF Progress
      <4> QED
        BY <2>4, <4>1, <4>2
    <3>7. (d + 1) * (n + 1) <= c * (n + 1)
      BY <3>2, <3>4, <3>5
    <3>8. (d + 1) * (n + 1) = d * (n + 1) + (n + 1)
      BY <3>4
    <3>9. ToVerify(n, next) = d * (n + 1) + l
      BY <2>3 DEF ToVerify, B, d
    <3>10. ToVerify(n, s) = c * (n + 1) + v
      BY DEF ToVerify, A, c, strong, v
    <3>11. d * (n + 1) \in Nat /\ c * (n + 1) \in Nat
      BY <3>2, <3>4
    <3> QED
      BY <1>1, <2>4, <3>6, <3>7, <3>8, <3>9, <3>10, <3>11
  <2> QED
    BY <2>11, <2>12 DEF next
<1> QED
  BY <1>8, <1>9

-----------------------------------------------------------------------------
(* The verification. *)

\* The recursion of Verified.
Verifying(f, n) ==
    f = [s \in Progress(n) |->
            LET chain    == Rebuilt(n, s.base, s.strong)
                schreier == SchreierGenerators(chain.levels[s.level])
                stripped == [k \in DOMAIN schreier |-> Strip(chain, 1, schreier[k])]
                left     == {k \in DOMAIN schreier : Moved(stripped[k].residue) # {}}
                first    == stripped[Lowest(left)]
                after    == AddStrong(s.base, s.strong, first.residue)
            IN  IF s.level = 0 THEN chain
                ELSE IF left = {} THEN f[[s EXCEPT !.level = s.level - 1]]
                ELSE f[[base |-> after.base, strong |-> after.strong, level |-> first.level]]]

(* The recursion of Verified is a loop over the states of the verification. *)
LEMMA VerifyingIs ==
    ASSUME NEW n \in Nat, NEW f
    PROVE  Verifying(f, n) <=>
               f = [s \in Progress(n) |-> IF s.level = 0 THEN ChainAt(n, s) ELSE f[NextAt(n, s)]]
<1> DEFINE Body(s) ==
               LET chain    == Rebuilt(n, s.base, s.strong)
                   schreier == SchreierGenerators(chain.levels[s.level])
                   stripped == [k \in DOMAIN schreier |-> Strip(chain, 1, schreier[k])]
                   left     == {k \in DOMAIN schreier : Moved(stripped[k].residue) # {}}
                   first    == stripped[Lowest(left)]
                   after    == AddStrong(s.base, s.strong, first.residue)
               IN  IF s.level = 0 THEN chain
                   ELSE IF left = {} THEN f[[s EXCEPT !.level = s.level - 1]]
                   ELSE f[[base |-> after.base, strong |-> after.strong, level |-> first.level]]
           Short(s) == IF s.level = 0 THEN ChainAt(n, s) ELSE f[NextAt(n, s)]
<1>1. Verifying(f, n) <=> f = [s \in Progress(n) |-> Body(s)]
  BY DEF Verifying
<1>2. ASSUME NEW s \in Progress(n) PROVE Body(s) = Short(s)
  <2> DEFINE stripped == [k \in DOMAIN SchreierAt(n, s) |-> LeftOf(n, s, k)]
             left == {k \in DOMAIN SchreierAt(n, s) : Moved(stripped[k].residue) # {}}
             first == stripped[Lowest(left)]
             after == AddStrong(s.base, s.strong, first.residue)
  <2>1. Body(s) = IF s.level = 0 THEN ChainAt(n, s)
                  ELSE IF left = {} THEN f[[s EXCEPT !.level = s.level - 1]]
                  ELSE f[[base |-> after.base, strong |-> after.strong, level |-> first.level]]
    BY DEF ChainAt, SchreierAt, LeftOf
  <2>2. left = LeftAt(n, s)
    BY DEF LeftAt
  <2> HIDE DEF Body, left
  <2>3. CASE s.level = 0
    <3> HIDE DEF after, first
    <3> QED
      BY <2>1, <2>3
  <2>4. CASE s.level # 0 /\ left = {}
    <3>1. NextAt(n, s) = [s EXCEPT !.level = s.level - 1]
      BY <2>2, <2>4 DEF NextAt
    <3> HIDE DEF after, first
    <3> QED
      BY <2>1, <2>4, <3>1
  <2>5. CASE s.level # 0 /\ left # {}
    <3>1. \A j \in DOMAIN s.strong : s.strong[j] \in Symmetric(n)
      BY DEF Progress
    <3>2. \A k \in DOMAIN SchreierAt(n, s) : k \in Nat
      BY <2>5, <3>1, SymmetricIsGroup, LeftIs
    <3>3. left \in SUBSET Nat
      BY <3>2 DEF left
    <3>4. Lowest(left) \in left
      BY <2>5, <3>3, LowestIs
    <3>5. Lowest(left) \in DOMAIN SchreierAt(n, s)
      BY <3>4 DEF left
    <3>6. first = FirstLeft(n, s)
      BY <2>2, <3>5 DEF FirstLeft
    <3> HIDE DEF first
    <3>7. NextAt(n, s) = [base |-> after.base, strong |-> after.strong, level |-> first.level]
      BY <2>2, <2>5, <3>6 DEF NextAt
    <3> HIDE DEF after
    <3> QED
      BY <2>1, <2>5, <3>7
  <2> QED
    BY <2>3, <2>4, <2>5
<1> HIDE DEF Body, Short
<1>3. [s \in Progress(n) |-> Body(s)] = [s \in Progress(n) |-> Short(s)]
  BY <1>2
<1>4. Verifying(f, n) <=> f = [s \in Progress(n) |-> Short(s)]
  BY <1>1, <1>3
<1> QED
  BY <1>4 DEF Short

(* The chain that is built: its base and its strong generators are what they should be, and *)
(* every level is verified.                                                                 *)
LEMMA BuildIs ==
    ASSUME NEW n \in Nat, NEW gens \in Seq(Symmetric(n))
    PROVE  \E base, strong :
               /\ Build(n, gens) = Rebuilt(n, base, strong)
               /\ Based(n, base, strong)
               /\ Strong(n, gens, strong)
               /\ \A i \in 1 .. Len(base) : LevelVerified(n, base, strong, i)
<1> DEFINE D == Progress(n)
           Stops == {s \in D : s.level = 0}
           out == [s \in D |-> ChainAt(n, s)]
           next == [s \in D |-> NextAt(n, s)]
           measure == [s \in D |-> ToVerify(n, s)]
           Inv == {s \in D : VerificationInv(n, gens, s)}
           start == Started(gens)
           first == [base |-> start.base, strong |-> start.strong, level |-> Len(start.base)]
           verified == CHOOSE f : Verifying(f, n)
<1>1. Build(n, gens) = verified[first]
  BY DEF Build, Verified, Verifying
<1>2. \A s \in D \ Stops : next[s] \in D
  BY NextProgress
<1>3. ASSUME NEW f PROVE Looping(f, D, Stops, out, next) <=> Verifying(f, n)
  <2> DEFINE g == [s \in D |-> IF s \in Stops THEN out[s] ELSE f[next[s]]]
             h == [s \in D |-> IF s.level = 0 THEN ChainAt(n, s) ELSE f[NextAt(n, s)]]
  <2>1. \A s \in D : g[s] = h[s]
    OBVIOUS
  <2>2. g = [s \in D |-> g[s]] /\ h = [s \in D |-> h[s]]
    OBVIOUS
  <2>3. Looping(f, D, Stops, out, next) <=> f = g
    BY DEF Looping
  <2>4. Verifying(f, n) <=> f = h
    BY VerifyingIs
  <2> HIDE DEF D, Stops, out, next, g, h
  <2>5. g = h
    BY <2>1, <2>2
  <2> QED
    BY <2>3, <2>4, <2>5
<1>4. Looping(verified, D, Stops, out, next)
  <2>1. \E f : Verifying(f, n)
    <3> HIDE DEF D, Stops, out, next
    <3> QED
      BY <1>2, <1>3, LoopExists
  <2>2. Verifying(verified, n)
    BY <2>1
  <2> HIDE DEF D, Stops, out, next, verified
  <2> QED
    BY <1>3, <2>2
<1>5. first \in Inv
  <2>1. Based(n, start.base, start.strong) /\ Strong(n, gens, start.strong)
    BY StartedIs
  <2> HIDE DEF start
  <2>2. start.base \in Seq(Points(n)) /\ start.strong \in Seq(Symmetric(n)) /\ Len(start.base) \in Nat
    BY <2>1 DEF Based
  <2>3. first \in D
    BY <2>2 DEF Progress
  <2>4. first.base = start.base /\ first.strong = start.strong /\ first.level = Len(start.base)
    OBVIOUS
  <2>5. first.level + 1 .. Len(first.base) = {}
    BY <2>2
  <2> HIDE DEF first, D
  <2> QED
    BY <2>1, <2>3, <2>4, <2>5 DEF VerificationInv, D
<1>6. \A s \in Inv \ Stops : next[s] \in Inv /\ measure[next[s]] < measure[s]
  <2> SUFFICES ASSUME NEW s \in D, VerificationInv(n, gens, s), s.level # 0
               PROVE  next[s] \in Inv /\ measure[next[s]] < measure[s]
    OBVIOUS
  <2>1. next[s] = NextAt(n, s) /\ measure[s] = ToVerify(n, s)
    OBVIOUS
  <2>2. VerificationInv(n, gens, NextAt(n, s)) /\ ToVerify(n, NextAt(n, s)) < ToVerify(n, s)
    BY NextKeeps
  <2>3. NextAt(n, s) \in D
    BY <2>2 DEF VerificationInv
  <2>4. measure[NextAt(n, s)] = ToVerify(n, NextAt(n, s))
    BY <2>3
  <2> HIDE DEF D, next, measure
  <2> QED
    BY <2>1, <2>2, <2>3, <2>4
<1>7. \A s \in Inv : measure[s] \in Nat
  BY ToVerifyIs
<1>8. Inv \subseteq D
  OBVIOUS
<1>9. PICK e \in Inv \cap Stops : verified[first] = out[e]
  <2> HIDE DEF D, Stops, out, next, measure, Inv, verified, first
  <2> QED
    BY <1>4, <1>5, <1>6, <1>7, <1>8, LoopEnds
<1>10. VerificationInv(n, gens, e) /\ e.level = 0 /\ out[e] = ChainAt(n, e)
  BY <1>9
<1>11. /\ Based(n, e.base, e.strong) /\ Strong(n, gens, e.strong)
       /\ \A i \in 0 + 1 .. Len(e.base) : LevelVerified(n, e.base, e.strong, i)
  BY <1>10 DEF VerificationInv
<1> HIDE DEF verified, first, out
<1>12. Build(n, gens) = Rebuilt(n, e.base, e.strong)
  BY <1>1, <1>9, <1>10 DEF ChainAt
<1> QED
  BY <1>11, <1>12

-----------------------------------------------------------------------------
(* The groups of the levels. *)

\* What the strong generators of a level generate.
GroupAt(n, base, strong, i) == Closure(n, LevelGenerators(base, strong, i))

(* The group of a level fixes the base before it, has the group of the next level in it and *)
(* the representatives of its orbit.                                                       *)
LEMMA GroupAtIs ==
    ASSUME NEW n \in Nat, NEW base \in Seq(Points(n)), NEW strong \in Seq(Symmetric(n)),
           NEW i \in 1 .. Len(base) + 1
    PROVE  LET G == GroupAt(n, base, strong, i)
           IN  /\ IsGroup(n, G) /\ IsFiniteSet(G) /\ Cardinality(G) \in Nat
               /\ Generated(n, LevelGenerators(base, strong, i), G)
               /\ \A S : Generated(n, LevelGenerators(base, strong, i), S) => G \subseteq S
               /\ \A g \in G : Fixes(g, base, i)
               /\ \A j \in DOMAIN strong : Fixes(strong[j], base, i) => strong[j] \in G
<1> DEFINE gens == LevelGenerators(base, strong, i)
           G == GroupAt(n, base, strong, i)
           S == {g \in Symmetric(n) : Fixes(g, base, i)}
<1>1. gens \in Seq(Symmetric(n))
  BY LevelGeneratorsAre
<1>2. ASSUME NEW j \in DOMAIN strong, Fixes(strong[j], base, i)
      PROVE  \E k \in DOMAIN gens : gens[k] = strong[j]
  <2> HIDE DEF G, S
  <2>1. strong \in Seq(Symmetric(n))
    OBVIOUS
  <2> QED
    BY <1>2, <2>1, LevelGeneratorsAre
<1>3. Generated(n, gens, S)
  <2>1. \A j \in DOMAIN strong : strong[j] \in Symmetric(n)
    OBVIOUS
  <2> QED
    BY <2>1, SymmetricIsGroup, LevelWithin
<1>4. G = Closure(n, gens)
  BY DEF GroupAt
<1> HIDE DEF gens, G, S
<1>5. /\ IsGroup(n, G) /\ IsFiniteSet(G) /\ Cardinality(G) \in Nat
      /\ \A k \in DOMAIN gens : gens[k] \in G
  BY <1>1, <1>4, ClosureIsGroup
<1>6. Generated(n, gens, G) /\ \A T : Generated(n, gens, T) => G \subseteq T
  BY <1>1, <1>4, ClosureIs
<1>7. \A g \in G : Fixes(g, base, i)
  BY <1>3, <1>6 DEF S
<1>8. \A j \in DOMAIN strong : Fixes(strong[j], base, i) => strong[j] \in G
  BY <1>2, <1>5
<1> QED
  BY <1>5, <1>6, <1>7, <1>8 DEF gens, G

(* The group of the next level is in that of a level. *)
LEMMA GroupsNest ==
    ASSUME NEW n \in Nat, NEW base \in Seq(Points(n)), NEW strong \in Seq(Symmetric(n)),
           NEW i \in 1 .. Len(base)
    PROVE  GroupAt(n, base, strong, i + 1) \subseteq GroupAt(n, base, strong, i)
<1> DEFINE v == i + 1
           gens == LevelGenerators(base, strong, v)
           G == GroupAt(n, base, strong, i)
<1>1. v \in 1 .. Len(base) + 1 /\ i \in 1 .. Len(base) + 1
  OBVIOUS
<1>2. \A t \in 1 .. i - 1 : t \in 1 .. v - 1
  OBVIOUS
<1> HIDE DEF v, G
<1>3. IsGroup(n, G) /\ \A j \in DOMAIN strong : Fixes(strong[j], base, i) => strong[j] \in G
  BY <1>1, GroupAtIs DEF G
<1>4. ASSUME NEW k \in DOMAIN gens PROVE gens[k] \in G
  <2>1. PICK j \in DOMAIN strong : gens[k] = strong[j] /\ Fixes(strong[j], base, v)
    BY LevelGeneratorsAre
  <2>2. Fixes(strong[j], base, i)
    BY <1>2, <2>1 DEF Fixes
  <2> QED
    BY <1>3, <2>1, <2>2
<1> HIDE DEF gens
<1>5. Generated(n, gens, G)
  BY <1>3, <1>4, GroupIsGenerated
<1>6. GroupAt(n, base, strong, v) \subseteq G
  BY <1>1, <1>5, GroupAtIs DEF gens
<1> QED
  BY <1>6 DEF v, G

(* No strong generator is left at the end of the base: the group is trivial. *)
LEMMA LastGroup ==
    ASSUME NEW n \in Nat, NEW base, NEW strong, Based(n, base, strong)
    PROVE  GroupAt(n, base, strong, Len(base) + 1) = {Identity(n)}
<1> DEFINE v == Len(base) + 1
           gens == LevelGenerators(base, strong, v)
           G == GroupAt(n, base, strong, v)
           T == {Identity(n)}
<1>1. /\ base \in Seq(Points(n)) /\ strong \in Seq(Symmetric(n)) /\ v \in 1 .. Len(base) + 1
      /\ v - 1 = Len(base) /\ DOMAIN base = 1 .. Len(base)
  BY DEF Based
<1>2. ASSUME NEW k \in DOMAIN gens PROVE FALSE
  <2>1. PICK j \in DOMAIN strong : gens[k] = strong[j] /\ Fixes(strong[j], base, v)
    BY <1>1, LevelGeneratorsAre
  <2>2. PICK t \in DOMAIN base : strong[j][base[t]] # base[t]
    BY DEF Based
  <2> QED
    BY <1>1, <2>1, <2>2 DEF Fixes
<1>3. Generated(n, gens, T)
  BY <1>2, IdentityIs DEF Generated
<1>4. IsGroup(n, G) /\ (Generated(n, gens, T) => G \subseteq T)
  <2> HIDE DEF T
  <2> QED
    BY <1>1, GroupAtIs
<1>5. Identity(n) \in G
  BY <1>4 DEF IsGroup
<1> QED
  BY <1>3, <1>4, <1>5

\* What strips to the identity from a level on.
Stripped(n, chain, i) == {h \in Symmetric(n) : Strip(chain, i, h).residue = Identity(n)}

(* What a level of the chain is, with its representatives in the group of the level. *)
LEMMA LevelOfChain ==
    ASSUME NEW n \in Nat, NEW base \in Seq(Points(n)), NEW strong \in Seq(Symmetric(n)),
           NEW i \in 1 .. Len(base)
    PROVE  LET chain == Rebuilt(n, base, strong)
               l     == chain.levels[i]
           IN  /\ chain.base = base /\ Chained(n, chain, Symmetric(n))
               /\ l = Level(n, base, strong, i)
               /\ l.gens = LevelGenerators(base, strong, i) /\ l.gens \in Seq(Symmetric(n))
               /\ DOMAIN l.reps \subseteq Points(n) /\ base[i] \in Points(n) /\ base[i] \in DOMAIN l.reps
               /\ l.reps[base[i]] = Identity(n)
               /\ \A x \in DOMAIN l.reps :
                     /\ l.reps[x] \in GroupAt(n, base, strong, i) /\ l.reps[x] \in Symmetric(n)
                     /\ l.reps[x][base[i]] = x
               /\ \A x \in DOMAIN l.reps, j \in DOMAIN l.gens : l.gens[j][x] \in DOMAIN l.reps
<1> DEFINE chain == Rebuilt(n, base, strong)
           lev == Level(n, base, strong, i)
           G == GroupAt(n, base, strong, i)
<1>1. \A j \in DOMAIN strong : strong[j] \in Symmetric(n)
  OBVIOUS
<1>2. chain.base = base /\ Chained(n, chain, Symmetric(n)) /\ chain.levels[i] = lev
  BY <1>1, SymmetricIsGroup, RebuiltIs
<1>3. Generated(n, LevelGenerators(base, strong, i), G)
  <2>1. i \in 1 .. Len(base) + 1
    OBVIOUS
  <2> QED
    BY <2>1, GroupAtIs
<1> HIDE DEF chain, lev, G
<1>4. /\ lev.gens = LevelGenerators(base, strong, i) /\ lev.gens \in Seq(Symmetric(n))
      /\ DOMAIN lev.reps \subseteq Points(n) /\ base[i] \in Points(n) /\ base[i] \in DOMAIN lev.reps
      /\ lev.reps[base[i]] = Identity(n)
      /\ \A x \in DOMAIN lev.reps :
            lev.reps[x] \in G /\ lev.reps[x] \in Symmetric(n) /\ lev.reps[x][base[i]] = x
      /\ \A x \in DOMAIN lev.reps, j \in DOMAIN lev.gens : lev.gens[j][x] \in DOMAIN lev.reps
  BY <1>3, LevelIs DEF lev
<1> QED
  BY <1>2, <1>4 DEF chain, lev, G

(* What does not leave a level strips like what is left of it. *)
LEMMA StrippedFurther ==
    ASSUME NEW n \in Nat, NEW base \in Seq(Points(n)), NEW strong \in Seq(Symmetric(n)),
           NEW i \in 1 .. Len(base), NEW h \in Symmetric(n)
    PROVE  LET chain == Rebuilt(n, base, strong)
               reps  == chain.levels[i].reps
               x     == h[base[i]]
               s     == StripStep(chain, i, h)
           IN  /\ h \in Stripped(n, chain, i) => x \in DOMAIN reps
               /\ x \in DOMAIN reps =>
                     /\ s \in Symmetric(n) /\ s = Compose(Undone(reps[x]), h)
                     /\ h = Compose(reps[x], s)
                     /\ h \in Stripped(n, chain, i) <=> s \in Stripped(n, chain, i + 1)
<1> DEFINE chain == Rebuilt(n, base, strong)
           reps == chain.levels[i].reps
           x == h[base[i]]
           s == StripStep(chain, i, h)
<1>1. /\ chain.base = base /\ Chained(n, chain, Symmetric(n))
      /\ base[i] \in Points(n) /\ base[i] \in DOMAIN reps
      /\ \A y \in DOMAIN reps : reps[y] \in Symmetric(n)
  BY LevelOfChain
<1>2. h \in Mappings(n) /\ i \in 1 .. Len(base) + 1 /\ ~(i > Len(base))
  BY DEF Symmetric
<1> HIDE DEF chain
<1>3. Leaves(chain, i, h) <=> x \notin DOMAIN reps
  BY <1>1, <1>2 DEF Leaves
<1>4. Strip(chain, i, h) = IF Leaves(chain, i, h) THEN [level |-> i, residue |-> h]
                           ELSE Strip(chain, i + 1, s)
  <2>1. i \in 1 .. Len(chain.base) + 1
    BY <1>1, <1>2
  <2> QED
    BY <1>1, <1>2, <2>1, StripIs
<1>5. ASSUME h \in Stripped(n, chain, i), x \notin DOMAIN reps PROVE FALSE
  <2>1. h = Identity(n)
    BY <1>3, <1>4, <1>5 DEF Stripped
  <2>2. x = base[i]
    BY <1>1, <2>1, IdentityIs
  <2> QED
    BY <1>1, <1>5, <2>2
<1>6. ASSUME x \in DOMAIN reps
      PROVE  /\ s \in Symmetric(n) /\ s = Compose(Undone(reps[x]), h)
             /\ h = Compose(reps[x], s)
             /\ h \in Stripped(n, chain, i) <=> s \in Stripped(n, chain, i + 1)
  <2>1. s = Compose(Undone(reps[x]), h)
    BY <1>1 DEF StripStep
  <2>2. reps[x] \in Symmetric(n) /\ Undone(reps[x]) \in Symmetric(n)
    BY <1>1, <1>6, UndoneIs
  <2>3. s \in Symmetric(n)
    BY <2>1, <2>2, ComposeSymmetric
  <2>4. Compose(reps[x], Compose(Undone(reps[x]), h)) = h
    BY <1>2, <2>2, ComposeUndone
  <2>5. Strip(chain, i, h) = Strip(chain, i + 1, s)
    BY <1>3, <1>4, <1>6
  <2> HIDE DEF s
  <2>6. h \in Stripped(n, chain, i) <=> s \in Stripped(n, chain, i + 1)
    BY <2>3, <2>5 DEF Stripped
  <2> QED
    BY <2>1, <2>3, <2>4, <2>6
<1> QED
  BY <1>5, <1>6 DEF chain

-----------------------------------------------------------------------------
(* What the chain recognises, and its order. *)

(* A level more: when the next level recognises its group and nothing is left of the         *)
(* Schreier generators of a level, the level recognises its group.                          *)
LEMMA LevelRecognises ==
    ASSUME NEW n \in Nat, NEW base \in Seq(Points(n)), NEW strong \in Seq(Symmetric(n)),
           NEW i \in 1 .. Len(base), LevelVerified(n, base, strong, i),
           Stripped(n, Rebuilt(n, base, strong), i + 1) = GroupAt(n, base, strong, i + 1)
    PROVE  Stripped(n, Rebuilt(n, base, strong), i) = GroupAt(n, base, strong, i)
<1> DEFINE chain == Rebuilt(n, base, strong)
           l == chain.levels[i]
           reps == l.reps
           G == GroupAt(n, base, strong, i)
           M == Stripped(n, chain, i)
           G2 == GroupAt(n, base, strong, i + 1)
           M2 == Stripped(n, chain, i + 1)
           gens == LevelGenerators(base, strong, i)
           schreier == SchreierGenerators(l)
<1>1. /\ l.gens = gens /\ gens \in Seq(Symmetric(n))
      /\ base[i] \in Points(n) /\ base[i] \in DOMAIN reps
      /\ reps[base[i]] = Identity(n)
      /\ \A x \in DOMAIN reps : reps[x] \in G /\ reps[x] \in Symmetric(n) /\ reps[x][base[i]] = x
      /\ \A x \in DOMAIN reps, j \in DOMAIN gens : gens[j][x] \in DOMAIN reps
  BY LevelOfChain
<1>2. i \in 1 .. Len(base) + 1 /\ i + 1 \in 1 .. Len(base) + 1
  OBVIOUS
<1>3. IsGroup(n, G) /\ Generated(n, gens, G) /\ \A S : Generated(n, gens, S) => G \subseteq S
  BY <1>2, GroupAtIs
<1>4. IsGroup(n, G2) /\ M2 = G2 /\ G2 \subseteq G
  BY <1>2, GroupAtIs, GroupsNest
<1>5. \A h \in Symmetric(n) :
         /\ h \in M => h[base[i]] \in DOMAIN reps
         /\ h[base[i]] \in DOMAIN reps =>
               LET s == StripStep(chain, i, h)
               IN  /\ s \in Symmetric(n) /\ s = Compose(Undone(reps[h[base[i]]]), h)
                   /\ h = Compose(reps[h[base[i]]], s)
                   /\ h \in M <=> s \in M2
  BY StrippedFurther
<1>6. M \subseteq Symmetric(n) /\ G \subseteq Symmetric(n) /\ G2 \subseteq Symmetric(n)
  BY <1>3, <1>4 DEF Stripped, IsGroup
<1>7. ASSUME NEW x \in DOMAIN reps, NEW j \in DOMAIN gens
      PROVE  Compose(Undone(reps[gens[j][x]]), Compose(gens[j], reps[x])) \in M2
  <2>1. l = Level(n, base, strong, i)
    BY LevelOfChain
  <2>2. \A t \in DOMAIN strong : strong[t] \in Symmetric(n)
    OBVIOUS
  <2>3. /\ \A k \in DOMAIN schreier : schreier[k] \in Symmetric(n)
        /\ \A y \in DOMAIN reps, t \in DOMAIN l.gens : \E k \in DOMAIN schreier :
              schreier[k] = Compose(Undone(reps[l.gens[t][y]]), Compose(l.gens[t], reps[y]))
    <3> DEFINE lev == Level(n, base, strong, i)
               sch == SchreierGenerators(lev)
    <3>1. /\ \A k \in DOMAIN sch : sch[k] \in Symmetric(n)
          /\ \A y \in DOMAIN lev.reps, t \in DOMAIN lev.gens : \E k \in DOMAIN sch :
                sch[k] = Compose(Undone(lev.reps[lev.gens[t][y]]), Compose(lev.gens[t], lev.reps[y]))
      BY <2>2, SymmetricIsGroup, SchreierIs
    <3>2. l = lev /\ schreier = sch /\ reps = lev.reps
      BY <2>1
    <3> HIDE DEF l, lev, schreier, sch, reps
    <3> QED
      BY <3>1, <3>2
  <2> HIDE DEF l, reps, schreier, gens
  <2>4. PICK k \in DOMAIN schreier : schreier[k] = Compose(Undone(reps[gens[j][x]]), Compose(gens[j], reps[x]))
    BY <1>1, <2>3
  <2>5. Strip(chain, i + 1, schreier[k]).residue = Identity(n)
    BY DEF LevelVerified, schreier, l
  <2>6. schreier[k] \in M2
    BY <2>3, <2>5 DEF Stripped
  <2> QED
    BY <2>4, <2>6
<1> HIDE DEF chain, l, reps, G, M, G2, M2, gens, schreier
<1>8. ASSUME NEW h \in M PROVE h \in G
  <2> DEFINE r == reps[h[base[i]]]
             s == StripStep(chain, i, h)
  <2>1. h \in Symmetric(n) /\ h[base[i]] \in DOMAIN reps
    BY <1>5, <1>6
  <2>2. h = Compose(r, s) /\ s \in M2
    BY <1>5, <2>1
  <2>3. r \in G /\ s \in G
    BY <1>1, <1>4, <2>1, <2>2
  <2> HIDE DEF r, s
  <2> QED
    BY <1>3, <2>2, <2>3 DEF IsGroup
<1>9. Identity(n) \in M
  <2> DEFINE e == Identity(n)
  <2>1. e \in Symmetric(n) /\ e[base[i]] = base[i] /\ e \in Mappings(n)
    BY <1>1, IdentityIs
  <2>2. Compose(Undone(e), e) = e
    BY UndoneIdentity, ComposeIdentity, IdentityIs
  <2>3. e \in M2
    BY <1>4 DEF IsGroup
  <2> HIDE DEF e
  <2>4. reps[e[base[i]]] = e /\ e[base[i]] \in DOMAIN reps
    BY <1>1, <2>1 DEF e
  <2>5. StripStep(chain, i, e) = e
    BY <1>5, <2>1, <2>2, <2>4
  <2>6. e \in M
    BY <1>5, <2>1, <2>3, <2>4, <2>5
  <2> QED
    BY <2>6 DEF e
<1>10. ASSUME NEW j \in DOMAIN gens, NEW h \in M PROVE Compose(gens[j], h) \in M
  <2> DEFINE g == gens[j]
             p == Compose(g, h)
             x == h[base[i]]
             y == g[x]
             r == reps[x]
             u == reps[y]
             s == StripStep(chain, i, h)
             t == Compose(Undone(u), Compose(g, r))
  <2>1. h \in Symmetric(n) /\ g \in Symmetric(n) /\ x \in DOMAIN reps
    BY <1>1, <1>5, <1>6
  <2>2. y \in DOMAIN reps /\ p \in Symmetric(n) /\ p[base[i]] = y
    <3>1. y \in DOMAIN reps
      BY <1>1, <2>1
    <3>2. p \in Symmetric(n) /\ p[base[i]] = g[h[base[i]]]
      BY <1>1, <2>1, ComposeSymmetric
    <3> QED
      BY <3>1, <3>2
  <2>3. h = Compose(r, s) /\ s \in M2 /\ s \in Symmetric(n)
    BY <1>5, <2>1
  <2>4. t \in M2
    BY <1>7, <2>1
  <2>5. StripStep(chain, i, p) = Compose(Undone(u), p)
    BY <1>5, <2>2
  <2>6. r \in Mappings(n) /\ u \in Symmetric(n) /\ Undone(u) \in Mappings(n) /\ g \in Mappings(n) /\ s \in Mappings(n)
    <3>1. r \in Symmetric(n) /\ u \in Symmetric(n)
      BY <1>1, <2>1, <2>2
    <3> QED
      BY <2>1, <2>3, <3>1, UndoneIs DEF Symmetric
  <2> HIDE DEF g, x, y, r, u, s
  <2>7. Compose(Undone(u), p) = Compose(t, s)
    <3>1. p = Compose(Compose(g, r), s)
      BY <2>3, <2>6, ComposeAssociative
    <3>2. Compose(g, r) \in Mappings(n)
      BY <2>6, ComposeIs
    <3> DEFINE w == Compose(g, r)
    <3> HIDE DEF w
    <3>3. Compose(Undone(u), Compose(w, s)) = Compose(Compose(Undone(u), w), s)
      BY <2>6, <3>2, ComposeAssociative DEF w
    <3> QED
      BY <3>1, <3>3 DEF w
  <2> HIDE DEF t, p
  <2>8. Compose(t, s) \in M2
    BY <1>4, <2>3, <2>4 DEF IsGroup
  <2>9. StripStep(chain, i, p) \in M2
    BY <2>5, <2>7, <2>8
  <2>10. p \in M
    BY <1>5, <2>2, <2>9
  <2> QED
    BY <2>10 DEF p, g
<1>11. Generated(n, gens, M)
  BY <1>6, <1>9, <1>10 DEF Generated
<1>12. M = G
  BY <1>3, <1>8, <1>11
<1> QED
  BY <1>12 DEF M, G, chain

(* A verified chain recognises at every level exactly the group of the level. *)
LEMMA ChainRecognises ==
    ASSUME NEW n \in Nat, NEW base, NEW strong, Based(n, base, strong),
           \A i \in 1 .. Len(base) : LevelVerified(n, base, strong, i)
    PROVE  \A i \in 1 .. Len(base) + 1 :
               Stripped(n, Rebuilt(n, base, strong), i) = GroupAt(n, base, strong, i)
<1> DEFINE m == Len(base)
           chain == Rebuilt(n, base, strong)
           P == {i \in 1 .. m + 1 : Stripped(n, chain, i) = GroupAt(n, base, strong, i)}
<1>1. base \in Seq(Points(n)) /\ strong \in Seq(Symmetric(n)) /\ m \in Nat
  BY DEF Based
<1>2. m + 1 \in P
  <2> DEFINE v == m + 1
  <2>1. v \in 1 .. m + 1 /\ v > m
    BY <1>1
  <2>2. chain.base = base /\ Chained(n, chain, Symmetric(n))
    <3>1. \A j \in DOMAIN strong : strong[j] \in Symmetric(n)
      BY <1>1
    <3> QED
      BY <1>1, <3>1, SymmetricIsGroup, RebuiltIs
  <2>3. GroupAt(n, base, strong, v) = {Identity(n)}
    BY LastGroup
  <2> HIDE DEF v, chain
  <2>4. ASSUME NEW h \in Symmetric(n) PROVE Strip(chain, v, h).residue = h
    <3>1. h \in Mappings(n) /\ v \in 1 .. Len(chain.base) + 1
      BY <2>1, <2>2 DEF Symmetric
    <3>2. Leaves(chain, v, h)
      BY <2>1, <2>2 DEF Leaves
    <3>3. Strip(chain, v, h) = [level |-> v, residue |-> h]
      BY <2>2, <3>1, <3>2, StripIs
    <3> QED
      BY <3>3
  <2>5. Stripped(n, chain, v) = {Identity(n)}
    BY <2>4, IdentityIs DEF Stripped
  <2>6. v \in P
    BY <2>1, <2>3, <2>5
  <2> QED
    BY <2>6 DEF v
<1>3. ASSUME NEW i \in 1 .. m, i + 1 \in P PROVE i \in P
  <2>1. Stripped(n, chain, i + 1) = GroupAt(n, base, strong, i + 1)
    BY <1>3
  <2>2. Stripped(n, chain, i) = GroupAt(n, base, strong, i)
    BY <1>1, <2>1, LevelRecognises
  <2>3. i \in 1 .. m + 1
    BY <1>1
  <2> HIDE DEF chain
  <2> QED
    BY <2>2, <2>3
<1> HIDE DEF P
<1>4. 1 .. m + 1 \subseteq P
  <2> HIDE DEF m
  <2> QED
    BY <1>1, <1>2, <1>3, DownInduction
<1> QED
  BY <1>4 DEF P

(* The group of a level has as many members as its orbit has points for each member of the *)
(* group of the next level.                                                                *)
LEMMA GroupAtOrder ==
    ASSUME NEW n \in Nat, NEW base, NEW strong, Based(n, base, strong),
           \A i \in 1 .. Len(base) : LevelVerified(n, base, strong, i), NEW i \in 1 .. Len(base)
    PROVE  LET reps == Rebuilt(n, base, strong).levels[i].reps
           IN  /\ Cardinality(DOMAIN reps) \in Nat
               /\ Cardinality(GroupAt(n, base, strong, i)) =
                      Cardinality(DOMAIN reps) * Cardinality(GroupAt(n, base, strong, i + 1))
<1> DEFINE chain == Rebuilt(n, base, strong)
           reps == chain.levels[i].reps
           G == GroupAt(n, base, strong, i)
           G2 == GroupAt(n, base, strong, i + 1)
           T == DOMAIN reps
           F == [q \in T \X G2 |-> Compose(reps[q[1]], q[2])]
<1>1. base \in Seq(Points(n)) /\ strong \in Seq(Symmetric(n))
  BY DEF Based
<1>2. /\ i \in 1 .. Len(base) + 1 /\ i + 1 \in 1 .. Len(base) + 1 /\ i \in 1 .. (i + 1) - 1
  OBVIOUS
<1>3. /\ T \subseteq Points(n) /\ base[i] \in Points(n)
      /\ \A x \in T : reps[x] \in G /\ reps[x] \in Symmetric(n) /\ reps[x][base[i]] = x
  BY <1>1, LevelOfChain
<1>4. IsGroup(n, G) /\ IsFiniteSet(G)
  BY <1>1, <1>2, GroupAtIs
<1>5. IsGroup(n, G2) /\ IsFiniteSet(G2) /\ \A g \in G2 : Fixes(g, base, i + 1)
  BY <1>1, <1>2, GroupAtIs
<1>6. G2 \subseteq G
  BY <1>1, GroupsNest
<1>7. G = Stripped(n, chain, i) /\ G2 = Stripped(n, chain, i + 1)
  BY <1>2, ChainRecognises
<1>8. \A h \in Symmetric(n) :
         /\ h \in Stripped(n, chain, i) => h[base[i]] \in T
         /\ h[base[i]] \in T =>
               LET s == StripStep(chain, i, h)
               IN  /\ h = Compose(reps[h[base[i]]], s)
                   /\ h \in Stripped(n, chain, i) <=> s \in Stripped(n, chain, i + 1)
  BY <1>1, StrippedFurther
<1>9. IsFiniteSet(T) /\ Cardinality(T) \in Nat
  <2>1. IsFiniteSet(Points(n))
    BY PointsAre
  <2> HIDE DEF T
  <2>2. IsFiniteSet(T)
    BY <1>3, <2>1, FS_Subset
  <2> QED
    BY <2>2, FS_CardinalityType
<1> HIDE DEF chain, reps, G, G2, T
<1>10. G \subseteq Symmetric(n) /\ G2 \subseteq Symmetric(n) /\ \A g \in G2 : g[base[i]] = base[i]
  BY <1>2, <1>4, <1>5 DEF IsGroup, Fixes
<1>11. F \in [T \X G2 -> G]
  <2>1. \A q \in T \X G2 : q[1] \in T /\ q[2] \in G2 /\ Compose(reps[q[1]], q[2]) \in G
    BY <1>3, <1>4, <1>6 DEF IsGroup
  <2> QED
    BY <2>1
<1>12. ASSUME NEW q \in T \X G2, NEW w \in T \X G2, F[q] = F[w] PROVE q = w
  <2> DEFINE x == q[1]
             k == q[2]
             y == w[1]
             l == w[2]
  <2>1. /\ q = <<x, k>> /\ w = <<y, l>> /\ x \in T /\ y \in T /\ k \in G2 /\ l \in G2
        /\ F[q] = Compose(reps[x], k) /\ F[w] = Compose(reps[y], l)
    OBVIOUS
  <2> HIDE DEF x, k, y, l, F
  <2>2. /\ reps[x] \in Symmetric(n) /\ reps[y] \in Symmetric(n) /\ k \in Symmetric(n) /\ l \in Symmetric(n)
        /\ reps[x][base[i]] = x /\ reps[y][base[i]] = y /\ k[base[i]] = base[i] /\ l[base[i]] = base[i]
    BY <1>3, <1>10, <2>1
  <2>3. Compose(reps[x], k)[base[i]] = x /\ Compose(reps[y], l)[base[i]] = y
    BY <1>3, <2>2, ComposeSymmetric
  <2>4. x = y
    BY <1>12, <2>1, <2>3
  <2>5. k \in Mappings(n) /\ l \in Mappings(n)
    BY <2>2 DEF Symmetric
  <2>6. Compose(Undone(reps[x]), Compose(reps[x], k)) = k /\ Compose(Undone(reps[x]), Compose(reps[x], l)) = l
    BY <2>2, <2>5, ComposeUndone
  <2>7. k = l
    BY <1>12, <2>1, <2>4, <2>6
  <2> QED
    BY <2>1, <2>4, <2>7
<1>13. ASSUME NEW h \in G PROVE \E q \in T \X G2 : F[q] = h
  <2> DEFINE x == h[base[i]]
             s == StripStep(chain, i, h)
  <2>1. x \in T /\ h = Compose(reps[x], s) /\ s \in G2
    BY <1>7, <1>8, <1>10
  <2> HIDE DEF x, s
  <2>2. <<x, s>> \in T \X G2 /\ F[<<x, s>>] = h
    BY <2>1
  <2> QED
    BY <2>2
<1> DEFINE A == T \X G2
<1>14. IsFiniteSet(A) /\ Cardinality(A) = Cardinality(T) * Cardinality(G2)
  BY <1>5, <1>9, FS_Product
<1> HIDE DEF F, A
<1>15. F \in Bijection(A, G)
  <2>1. F \in [A -> G] /\ \A a, b \in A : F[a] = F[b] => a = b
    BY <1>11, <1>12 DEF A
  <2>2. \A h \in G : \E q \in A : F[q] = h
    BY <1>13 DEF A
  <2>3. F \in Injection(A, G)
    BY <2>1, Fun_IsInj
  <2>4. F \in Surjection(A, G)
    BY <2>1, <2>2, Fun_IsSurj
  <2> QED
    BY <2>3, <2>4 DEF Bijection
<1>16. Cardinality(A) = Cardinality(G)
  <2>1. ExistsBijection(A, G)
    BY <1>15 DEF ExistsBijection
  <2> QED
    BY <1>14, <2>1, FS_Bijection
<1> QED
  BY <1>9, <1>14, <1>16 DEF T, reps, chain, G, G2

(* The order of the chain is that of the first level's group. *)
LEMMA OrderIs ==
    ASSUME NEW n \in Nat, NEW base, NEW strong, Based(n, base, strong),
           \A i \in 1 .. Len(base) : LevelVerified(n, base, strong, i)
    PROVE  Order(Rebuilt(n, base, strong)) = Cardinality(GroupAt(n, base, strong, 1))
<1> DEFINE m == Len(base)
           chain == Rebuilt(n, base, strong)
           c == [i \in 1 .. m |-> Cardinality(DOMAIN chain.levels[i].reps)]
           g == [i \in 1 .. m + 1 |-> Cardinality(GroupAt(n, base, strong, i))]
           step == [q \in (1 .. m) \X Nat |-> q[2] * c[q[1]]]
           Multiplying(f) ==
               f = [i \in 0 .. m |->
                       IF i = 0 THEN 1 ELSE f[i - 1] * Cardinality(DOMAIN chain.levels[i].reps)]
           product == CHOOSE f : Multiplying(f)
<1>1. base \in Seq(Points(n)) /\ strong \in Seq(Symmetric(n)) /\ m \in Nat
  BY DEF Based
<1>2. chain.base = base
  BY DEF Rebuilt
<1>3. Order(chain) = product[m]
  <2>1. Len(chain.base) = m
    BY <1>2
  <2> QED
    BY <2>1 DEF Order
<1>4. ASSUME NEW i \in 1 .. m PROVE c[i] \in Nat /\ g[i] = c[i] * g[i + 1]
  <2>1. /\ Cardinality(DOMAIN chain.levels[i].reps) \in Nat
        /\ Cardinality(GroupAt(n, base, strong, i)) =
               Cardinality(DOMAIN chain.levels[i].reps) * Cardinality(GroupAt(n, base, strong, i + 1))
    BY GroupAtOrder
  <2>2. i \in 1 .. m + 1 /\ i + 1 \in 1 .. m + 1
    BY <1>1
  <2> QED
    BY <2>1, <2>2
<1>5. ASSUME NEW i \in 1 .. m + 1 PROVE g[i] \in Nat
  <2>1. Cardinality(GroupAt(n, base, strong, i)) \in Nat
    BY <1>1, GroupAtIs
  <2> QED
    BY <2>1
<1>6. g[m + 1] = 1
  <2>1. GroupAt(n, base, strong, m + 1) = {Identity(n)}
    BY LastGroup
  <2>2. Cardinality({Identity(n)}) = 1
    BY FS_Singleton
  <2>3. m + 1 \in 1 .. m + 1
    BY <1>1
  <2> QED
    BY <2>1, <2>2, <2>3
<1>7. \A i \in 1 .. m, x \in Nat : step[<<i, x>>] = x * c[i] /\ step[<<i, x>>] \in Nat
  <2> SUFFICES ASSUME NEW i \in 1 .. m, NEW x \in Nat
               PROVE  step[<<i, x>>] = x * c[i] /\ step[<<i, x>>] \in Nat
    OBVIOUS
  <2>1. c[i] \in Nat
    BY <1>4
  <2> HIDE DEF c
  <2>2. step[<<i, x>>] = x * c[i]
    OBVIOUS
  <2>3. x * c[i] \in Nat
    BY <2>1
  <2> QED
    BY <2>2, <2>3
<1>8. \E f : Multiplying(f)
  <2>1. \A i \in 1 .. m : c[i] = Cardinality(DOMAIN chain.levels[i].reps)
    OBVIOUS
  <2> HIDE DEF step, c, g, m, chain
  <2>2. PICK f : Repeating(f, m, 1, step) /\ \A i \in 0 .. m : f[i] \in Nat
    BY <1>1, <1>7, RepetitionExists
  <2>3. ASSUME NEW i \in 0 .. m, i # 0
        PROVE  step[<<i, f[i - 1]>>] = f[i - 1] * Cardinality(DOMAIN chain.levels[i].reps)
    <3>1. i \in 1 .. m /\ i - 1 \in 0 .. m
      BY <1>1, <2>3
    <3>2. f[i - 1] \in Nat
      BY <2>2, <3>1
    <3> QED
      BY <1>7, <2>1, <3>1, <3>2
  <2>4. f = [i \in 0 .. m |-> IF i = 0 THEN 1 ELSE f[i - 1] * Cardinality(DOMAIN chain.levels[i].reps)]
    BY <2>2, <2>3 DEF Repeating
  <2> QED
    BY <2>4
<1>9. Multiplying(product)
  BY <1>8
<1>10. \A i \in 1 .. m : c[i] = Cardinality(DOMAIN chain.levels[i].reps)
  OBVIOUS
<1> HIDE DEF product, c, g, step
<1>11. \A i \in 0 .. m : product[i] = IF i = 0 THEN 1 ELSE product[i - 1] * Cardinality(DOMAIN chain.levels[i].reps)
  BY <1>9
<1>12. 0 \in 0 .. m /\ \A i \in 1 .. m : i \in 0 .. m /\ i # 0
  BY <1>1
<1> HIDE DEF chain
<1>13. product[0] = 1 /\ \A i \in 1 .. m : product[i] = product[i - 1] * c[i]
  BY <1>10, <1>11, <1>12
<1> DEFINE P == {i \in 0 .. m : product[i] \in Nat /\ product[i] * g[i + 1] = g[1]}
<1>14. 0 \in P
  <2>1. 1 \in 1 .. m + 1
    BY <1>1
  <2>2. g[1] \in Nat
    BY <1>5, <2>1
  <2>3. 1 * g[1] = g[1]
    BY <2>2
  <2> QED
    BY <1>12, <1>13, <2>3
<1>15. ASSUME NEW i \in 1 .. m, i - 1 \in P PROVE i \in P
  <2>1. i - 1 \in 0 .. m /\ product[i - 1] \in Nat /\ product[i - 1] * g[(i - 1) + 1] = g[1]
    BY <1>15
  <2>2. i \in 1 .. m + 1 /\ i + 1 \in 1 .. m + 1 /\ (i - 1) + 1 = i
    BY <1>1
  <2>3. c[i] \in Nat /\ g[i] = c[i] * g[i + 1] /\ g[i + 1] \in Nat
    BY <1>4, <1>5, <2>2
  <2>4. product[i] = product[i - 1] * c[i]
    BY <1>13
  <2>5. \A a, x, y \in Nat : (a * x) * y = a * (x * y) /\ a * x \in Nat
    OBVIOUS
  <2>6. /\ product[i - 1] * c[i] \in Nat
        /\ (product[i - 1] * c[i]) * g[i + 1] = product[i - 1] * (c[i] * g[i + 1])
    BY <2>1, <2>3, <2>5, Zenon
  <2>7. product[i] \in Nat /\ product[i] * g[i + 1] = g[1]
    <3>1. product[i - 1] * g[i] = g[1]
      BY <2>1, <2>2, Zenon
    <3> QED
      BY <2>3, <2>4, <2>6, <3>1, Zenon
  <2> QED
    BY <1>12, <2>7
<1> HIDE DEF P
<1>16. 0 .. m \subseteq P
  BY <1>1, <1>14, <1>15, RangeInduction
<1>17. m \in P
  <2>1. m \in 0 .. m
    BY <1>1
  <2> QED
    BY <1>16, <2>1
<1>18. product[m] \in Nat /\ product[m] * 1 = g[1]
  BY <1>6, <1>17 DEF P
<1>19. product[m] = g[1]
  BY <1>18
<1>20. g[1] = Cardinality(GroupAt(n, base, strong, 1))
  <2>1. 1 \in 1 .. m + 1
    BY <1>1
  <2> QED
    BY <2>1 DEF g
<1> QED
  BY <1>3, <1>19, <1>20 DEF chain

(* The chain of some generators has the order of the group they generate, and recognises its *)
(* members among all permutations of the degree.                                            *)
LEMMA ChainIs ==
    ASSUME NEW n \in Nat, NEW gens \in Seq(Symmetric(n))
    PROVE  /\ Order(Build(n, gens)) = Cardinality(Closure(n, gens))
           /\ \A p \in Symmetric(n) : HasMember(Build(n, gens), p) <=> p \in Closure(n, gens)
<1> DEFINE C == Closure(n, gens)
<1>1. PICK base, strong : /\ Build(n, gens) = Rebuilt(n, base, strong)
                          /\ Based(n, base, strong)
                          /\ Strong(n, gens, strong)
                          /\ \A i \in 1 .. Len(base) : LevelVerified(n, base, strong, i)
  BY BuildIs
<1> DEFINE chain == Rebuilt(n, base, strong)
           G == GroupAt(n, base, strong, 1)
<1>2. base \in Seq(Points(n)) /\ strong \in Seq(Symmetric(n)) /\ Len(base) \in Nat
  BY <1>1 DEF Based
<1>3. 1 \in 1 .. Len(base) + 1
  BY <1>2
<1>4. \A h : Fixes(h, base, 1)
  BY DEF Fixes
<1>5. G = C
  <2>1. IsGroup(n, C) /\ \A S : Generated(n, gens, S) => C \subseteq S
    BY ClosureIs, ClosureIsGroup
  <2>2. /\ IsGroup(n, G)
        /\ \A S : Generated(n, LevelGenerators(base, strong, 1), S) => G \subseteq S
        /\ \A j \in DOMAIN strong : strong[j] \in G
    BY <1>2, <1>3, <1>4, GroupAtIs
  <2>3. \A j \in DOMAIN strong : strong[j] \in C
    BY <1>1 DEF Strong
  <2>4. Generated(n, gens, G)
    <3>1. Identity(n) \in G
      BY <2>2 DEF IsGroup
    <3>2. \A j \in DOMAIN gens : gens[j] \in G
      BY <1>1, <2>2, <3>1 DEF Strong
    <3> HIDE DEF G
    <3> QED
      BY <2>2, <3>2, GroupIsGenerated
  <2>5. Generated(n, LevelGenerators(base, strong, 1), C)
    <3>1. ASSUME NEW k \in DOMAIN LevelGenerators(base, strong, 1)
          PROVE  LevelGenerators(base, strong, 1)[k] \in C
      <4>0. strong \in Seq(Symmetric(n))
        BY <1>2
      <4> HIDE DEF C, G, chain
      <4>1. PICK j \in DOMAIN strong :
               LevelGenerators(base, strong, 1)[k] = strong[j] /\ Fixes(strong[j], base, 1)
        BY <4>0, LevelGeneratorsAre
      <4> QED
        BY <2>3, <4>1
    <3> HIDE DEF C
    <3> QED
      BY <2>1, <3>1, GroupIsGenerated
  <2> HIDE DEF G, C
  <2> QED
    BY <2>1, <2>2, <2>4, <2>5
<1>6. Order(chain) = Cardinality(G)
  BY <1>1, OrderIs
<1>7. Stripped(n, chain, 1) = G
  BY <1>1, <1>3, ChainRecognises
<1>8. ASSUME NEW p \in Symmetric(n) PROVE HasMember(chain, p) <=> p \in G
  <2>1. chain.base = base /\ Chained(n, chain, Symmetric(n))
    <3>1. \A j \in DOMAIN strong : strong[j] \in Symmetric(n)
      BY <1>2
    <3> QED
      BY <1>2, <3>1, SymmetricIsGroup, RebuiltIs
  <2> HIDE DEF chain, G
  <2>2. Strip(chain, 1, p).residue \in Symmetric(n)
    BY <1>3, <1>4, <2>1, StripKeeps
  <2>3. Moved(Strip(chain, 1, p).residue) = {} <=> Strip(chain, 1, p).residue = Identity(n)
    BY <2>2, MovedIs DEF Symmetric
  <2> QED
    BY <1>7, <2>3 DEF HasMember, Stripped
<1> QED
  BY <1>1, <1>5, <1>6, <1>8

(* BsgsGroup builds for every list of generators, whatever its degree, a chain with the     *)
(* order of the group they generate that recognises exactly the members of that group.      *)
THEOREM ChainIsExactAlways == GSpec => []ChainIsExact
<1>1. GInv => ChainIsExact
  <2> SUFFICES ASSUME GInv, generators # <<>> PROVE ChainIsExact
    BY DEF ChainIsExact
  <2> DEFINE n == Degree
  <2>1. n \in Nat /\ generators \in Seq(Symmetric(n)) /\ DOMAIN generators[1] = Points(n)
    BY DegreeIs
  <2> HIDE DEF n
  <2>2. /\ Order(Build(n, generators)) = Cardinality(Closure(n, generators))
        /\ \A p \in Symmetric(n) : HasMember(Build(n, generators), p) <=> p \in Closure(n, generators)
    BY <2>1, ChainIs
  <2>3. ASSUME NEW p \in Candidates, DOMAIN p = DOMAIN generators[1] PROVE p \in Symmetric(n)
    <3>1. DOMAIN p = Points(n) /\ p \in Symmetric(Cardinality(DOMAIN p))
      BY <2>1, <2>3, CandidatesAssumption
    <3>2. Cardinality(DOMAIN p) = n
      BY <2>1, <3>1, PointsAre
    <3> QED
      BY <3>1, <3>2
  <2> QED
    BY <2>2, <2>3 DEF ChainIsExact, n
<1> QED
  BY <1>1, GInvAlways, PTL
=============================================================================
