--------------------------- MODULE LruCache_proofs ---------------------------
(***************************************************************************)
(* Proofs about the memo caches, for every set of keys and every limit:    *)
(* the map and the list describe the same entries, the limit is kept, the  *)
(* list is the order of use, and the container implements LruPolicy.       *)
(***************************************************************************)
EXTENDS LruCache, FiniteSetTheorems, TLAPS

(* A map m and a list l of the same entries, l sorted by the times of use at. *)
Consistent(m, l, at, c) ==
    /\ m \in [Keys -> Values \cup {None}] /\ l \in Seq(Keys) /\ at \in [Keys -> 0 .. c]
    /\ \A i \in 1 .. Len(l) : m[l[i]] # None
    /\ \A k \in Keys : m[k] # None => \E i \in 1 .. Len(l) : l[i] = k
    /\ \A i, j \in 1 .. Len(l) : i < j => at[l[i]] > at[l[j]]
    /\ \A k \in Keys : m[k] = None => at[k] = 0

(* The strengthening of the invariants that every step keeps. *)
IInv == TypeOK /\ Consistent(map, list, used, clock) /\ WithinLimit

(* A list without repetition has as many elements as its map has keys. *)
LEMMA ListCardinality ==
    ASSUME NEW m, NEW l, NEW at, NEW c \in Nat, Consistent(m, l, at, c)
    PROVE  /\ IsFiniteSet(Present(m)) /\ Cardinality(Present(m)) = Len(l)
           /\ Len(l) \in Nat
<1>1. Len(l) \in Nat /\ l \in [1 .. Len(l) -> Keys]
  BY DEF Consistent
<1>2. l \in [1 .. Len(l) -> Present(m)]
  BY <1>1 DEF Consistent, Present
<1>3. \A i, j \in 1 .. Len(l) : l[i] = l[j] => i = j
  <2> SUFFICES ASSUME NEW i \in 1 .. Len(l), NEW j \in 1 .. Len(l), l[i] = l[j], i # j
               PROVE  FALSE
    OBVIOUS
  <2>1. i < j \/ j < i
    BY <1>1
  <2>2. at[l[i]] \in Int
    BY <1>1 DEF Consistent
  <2> QED
    BY <2>1, <2>2 DEF Consistent
<1>4. \A k \in Present(m) : \E i \in 1 .. Len(l) : l[i] = k
  BY DEF Consistent, Present
<1>5. l \in Bijection(1 .. Len(l), Present(m))
  BY <1>2, <1>3, <1>4 DEF Bijection, Injection, Surjection, IsInjective
<1>6. ExistsBijection(1 .. Len(l), Present(m))
  BY <1>5 DEF ExistsBijection
<1>7. IsFiniteSet(1 .. Len(l)) /\ Cardinality(1 .. Len(l)) = Len(l)
  <2>1. \A n \in Nat : IsFiniteSet(1 .. n) /\ Cardinality(1 .. n) = n
    BY FS_Interval
  <2> QED
    BY <1>1, <2>1
<1> QED
  BY <1>1, <1>6, <1>7, FS_Bijection

(* Conversely, what the invariants of LruCache say is Consistent. *)
LEMMA ConsistentIsBoth ==
    ASSUME TypeOK
    PROVE  Consistent(map, list, used, clock) <=> MapMatchesList /\ ListIsRecency
<1>1. list \in [1 .. Len(list) -> Keys] /\ Len(list) \in Nat
  BY DEF TypeOK
<1>2. ASSUME Consistent(map, list, used, clock) PROVE MapMatchesList /\ ListIsRecency
  <2>1. {list[i] : i \in 1 .. Len(list)} = Present(map)
    BY <1>1, <1>2 DEF Consistent, Present
  <2>2. ASSUME NEW i \in 1 .. Len(list), NEW j \in 1 .. Len(list), list[i] = list[j] PROVE i = j
    <3>1. used[list[i]] \in Int
      BY <1>1 DEF TypeOK
    <3> QED
      BY <1>1, <1>2, <2>2, <3>1 DEF Consistent
  <2> QED
    BY <1>2, <2>1, <2>2 DEF Consistent, MapMatchesList, ListIsRecency
<1>3. ASSUME MapMatchesList, ListIsRecency PROVE Consistent(map, list, used, clock)
  BY <1>1, <1>3 DEF TypeOK, MapMatchesList, ListIsRecency, Consistent, Present
<1> QED
  BY <1>2, <1>3

(* What evict_if_needed leaves: the first entries of the list, as many as allowed. *)
LEMMA EvictKeepsTheRecent ==
    ASSUME NEW STATE m, NEW STATE l, NEW STATE at, NEW STATE c, c \in Nat, Consistent(m, l, at, c),
           NEW STATE n, n \in Nat, metrics \in [hits : Nat, misses : Nat, evictions : Nat],
           Evict(m, l, n, at)
    PROVE  /\ Consistent(map', list', used', c)
           /\ metrics' \in [hits : Nat, misses : Nat, evictions : Nat]
           /\ Cardinality(Present(map')) = IF Len(l) < n THEN Len(l) ELSE n
           /\ \A k \in Keys : map'[k] \in {m[k], None}
           /\ \A k \in Present(map'), d \in Present(m) \ Present(map') : at[d] < at[k]
           /\ used' = [k \in Keys |-> IF map'[k] = None THEN 0 ELSE at[k]]
<1> DEFINE rest == IF Len(l) < n THEN Len(l) ELSE n
           gone == {l[i] : i \in rest + 1 .. Len(l)}
<1>0. Cardinality(Present(m)) = Len(l) /\ Len(l) \in Nat
  BY ListCardinality
<1>1. Cardinality(Present(m)) = Len(l) /\ Len(l) \in Nat /\ l \in [1 .. Len(l) -> Keys]
  BY <1>0 DEF Consistent
<1>2. rest \in 0 .. Len(l)
  BY <1>1
<1>3. /\ list' = SubSeq(l, 1, rest)
      /\ map' = [k \in Keys |-> IF k \in gone THEN None ELSE m[k]]
      /\ used' = [k \in Keys |-> IF k \in gone THEN 0 ELSE at[k]]
      /\ metrics' = [metrics EXCEPT !.evictions = @ + (Len(l) - rest)]
  <2>0. Overfull(m, n) = IF Len(l) > n THEN Len(l) - n ELSE 0
    BY <1>0 DEF Overfull
  <2>1. Overfull(m, n) \in Nat /\ Overfull(m, n) <= Len(l) /\ rest = Len(l) - Overfull(m, n)
    <3>1. CASE Len(l) > n
      <4>1. Overfull(m, n) = Len(l) - n /\ rest = n
        BY <1>0, <2>0, <3>1
      <4> QED
        BY <1>0, <3>1, <4>1
    <3>2. CASE Len(l) <= n
      <4>1. Overfull(m, n) = 0 /\ rest = Len(l)
        BY <1>0, <2>0, <3>2
      <4> QED
        BY <1>0, <3>2, <4>1
    <3> QED
      BY <1>0, <3>1, <3>2
  <2>2. (IF Overfull(m, n) < Len(l) THEN Overfull(m, n) ELSE Len(l)) = Len(l) - rest
    BY <1>0, <2>1
  <2>3. Len(l) - (Len(l) - rest) = rest
    BY <1>1, <1>2
  <2> QED
    BY <2>2, <2>3 DEF Evict
<1>4. \A i \in 1 .. Len(l) : l[i] \in gone <=> i > rest
  <2> SUFFICES ASSUME NEW i \in 1 .. Len(l), NEW j \in rest + 1 .. Len(l), l[i] = l[j], i <= rest
               PROVE  FALSE
    BY <1>1, <1>2
  <2>1. i < j /\ j \in 1 .. Len(l)
    BY <1>1, <1>2
  <2>2. at[l[i]] \in Int
    BY <1>1 DEF Consistent
  <2> QED
    BY <2>1, <2>2 DEF Consistent
<1>5. /\ list' \in Seq(Keys) /\ Len(list') = rest
      /\ \A i \in 1 .. rest : list'[i] = l[i] /\ i \in 1 .. Len(l) /\ l[i] \in Keys
  BY <1>1, <1>2, <1>3
<1>6. map' \in [Keys -> Values \cup {None}] /\ used' \in [Keys -> 0 .. c]
  BY <1>3 DEF Consistent
<1>7. \A k \in Keys : map'[k] # None => m[k] # None /\ k \notin gone /\ used'[k] = at[k]
  BY <1>3
<1>8. ASSUME NEW i \in 1 .. rest PROVE map'[list'[i]] # None /\ used'[list'[i]] = at[l[i]]
  <2>1. i \in 1 .. Len(l) /\ l[i] \notin gone /\ l[i] \in Keys /\ list'[i] = l[i]
    BY <1>1, <1>2, <1>4, <1>5
  <2>2. m[l[i]] # None
    BY <2>1 DEF Consistent
  <2> QED
    BY <1>3, <2>1, <2>2
<1>9. \A k \in Keys : map'[k] # None => \E i \in 1 .. rest : list'[i] = k
  <2> SUFFICES ASSUME NEW k \in Keys, map'[k] # None
               PROVE  \E i \in 1 .. rest : list'[i] = k
    OBVIOUS
  <2>1. PICK i \in 1 .. Len(l) : l[i] = k
    BY <1>7 DEF Consistent
  <2>2. i \in 1 .. rest
    BY <1>1, <1>2, <1>4, <1>7, <2>1
  <2> QED
    BY <1>5, <2>1, <2>2
<1>10. \A i, j \in 1 .. rest : i < j => used'[list'[i]] > used'[list'[j]]
  BY <1>5, <1>8 DEF Consistent
<1>11. \A k \in Keys : map'[k] = None => used'[k] = 0
  BY <1>3 DEF Consistent
<1>12. Consistent(map', list', used', c)
  BY <1>5, <1>6, <1>8, <1>9, <1>10, <1>11 DEF Consistent
<1>13. Cardinality(Present(map')) = rest
  BY <1>5, <1>12, ListCardinality
<1>14. metrics' \in [hits : Nat, misses : Nat, evictions : Nat]
  <2>1. Len(l) - rest \in Nat
    BY <1>1, <1>2
  <2>2. metrics.evictions + (Len(l) - rest) \in Nat
    BY <2>1
  <2> QED
    BY <1>3, <2>2
<1>15. ASSUME NEW k \in Present(map'), NEW d \in Present(m) \ Present(map') PROVE at[d] < at[k]
  <2>1. PICK i \in 1 .. rest : l[i] = k
    BY <1>5, <1>9 DEF Present
  <2>2. PICK j \in 1 .. Len(l) : l[j] = d
    BY DEF Consistent, Present
  <2>3. map'[d] = None /\ m[d] # None /\ d \in Keys
    BY DEF Present
  <2>4. d \in gone
    BY <1>3, <2>3
  <2>5. j > rest /\ i < j /\ i \in 1 .. Len(l)
    BY <1>1, <1>2, <1>4, <2>2, <2>4
  <2>6. at[k] \in Int /\ at[d] \in Int
    BY <2>3 DEF Consistent, Present
  <2> QED
    BY <2>1, <2>2, <2>5, <2>6 DEF Consistent
<1>16. used' = [k \in Keys |-> IF map'[k] = None THEN 0 ELSE at[k]]
  BY <1>3 DEF Consistent
<1>17. \A k \in Keys : map'[k] \in {m[k], None}
  BY <1>3
<1> QED
  BY <1>12, <1>13, <1>14, <1>15, <1>16, <1>17

(* A key that is used moves to the front; the order of the others is kept. *)
LEMMA SpliceKeepsTheOrder ==
    ASSUME IInv, NEW k \in Keys, map[k] # None,
           NEW m \in [Keys -> Values \cup {None}], \A x \in Keys : m[x] = None <=> map[x] = None
    PROVE  Consistent(m, Spliced(k), Touched(k), clock + 1)
<1> DEFINE n == Len(list)
           p == Position(k)
           l == Spliced(k)
           src(i) == IF i = 1 THEN p ELSE IF i <= p THEN i - 1 ELSE i
<1>1. n \in Nat /\ list \in [1 .. n -> Keys] /\ clock \in Nat /\ used \in [Keys -> 0 .. clock]
  BY DEF IInv, TypeOK
<1>2. p \in 1 .. n /\ list[p] = k
  <2>1. \E i \in 1 .. n : list[i] = k
    BY DEF IInv, Consistent
  <2> QED
    BY <2>1 DEF Position
<1>3. \A i, j \in 1 .. n : i < j => used[list[i]] > used[list[j]]
  BY DEF IInv, Consistent
<1>4. \A i \in 1 .. n : i # p => list[i] # k
  <2> SUFFICES ASSUME NEW i \in 1 .. n, i # p, list[i] = k PROVE FALSE
    OBVIOUS
  <2>1. i < p \/ p < i
    BY <1>1, <1>2
  <2>2. used[k] \in Int
    BY <1>1
  <2> QED
    BY <1>2, <1>3, <2>1, <2>2
<1>5. ASSUME NEW i \in 1 .. n
      PROVE  /\ src(i) \in 1 .. n /\ (src(i) = p <=> i = 1)
             /\ l[i] = list[src(i)]
  <2>1. src(i) \in 1 .. n /\ (src(i) = p <=> i = 1)
    BY <1>1, <1>2
  <2>2. l[i] = IF i = 1 THEN k ELSE IF i <= p THEN list[i - 1] ELSE list[i]
    BY DEF Spliced
  <2> QED
    BY <1>1, <1>2, <2>1, <2>2
<1>6. l \in [1 .. n -> Keys]
  BY <1>1, <1>5 DEF Spliced
<1>7. l \in Seq(Keys) /\ Len(l) = n
  BY <1>1, <1>6
<1>8. \A i, j \in 1 .. n : i < j /\ i # 1 => src(i) < src(j)
  BY <1>1, <1>2
<1>9. Touched(k) \in [Keys -> 0 .. clock + 1] /\ Touched(k)[k] = clock + 1
      /\ \A x \in Keys \ {k} : Touched(k)[x] = used[x]
  BY <1>1 DEF Touched
<1>10. \A i \in 1 .. n : m[l[i]] # None
  <2> SUFFICES ASSUME NEW i \in 1 .. n PROVE m[l[i]] # None
    OBVIOUS
  <2>1. map[list[src(i)]] # None /\ list[src(i)] \in Keys
    BY <1>1, <1>5 DEF IInv, Consistent
  <2> QED
    BY <1>5, <2>1
<1>11. \A x \in Keys : m[x] # None => \E i \in 1 .. n : l[i] = x
  <2> SUFFICES ASSUME NEW x \in Keys, m[x] # None PROVE \E i \in 1 .. n : l[i] = x
    OBVIOUS
  <2>1. PICK i \in 1 .. n : list[i] = x
    BY DEF IInv, Consistent
  <2>2. CASE i = p
    BY <1>2, <1>1, <1>5, <2>1, <2>2
  <2>3. CASE i < p
    <3>1. i + 1 \in 1 .. n /\ src(i + 1) = i
      BY <1>1, <1>2, <2>3
    <3> QED
      BY <1>5, <2>1, <3>1
  <2>4. CASE i > p
    <3>1. src(i) = i
      BY <1>1, <1>2, <2>4
    <3> QED
      BY <1>5, <2>1, <3>1
  <2> QED
    BY <1>1, <1>2, <2>2, <2>3, <2>4
<1>12. ASSUME NEW i \in 1 .. n, NEW j \in 1 .. n, i < j
       PROVE  Touched(k)[l[i]] > Touched(k)[l[j]]
  <2>0. j # 1 /\ src(j) # p /\ src(j) \in 1 .. n /\ l[j] = list[src(j)]
    BY <1>1, <1>5, <1>12
  <2>1. j # 1 /\ l[j] # k /\ l[j] \in Keys /\ Touched(k)[l[j]] = used[list[src(j)]]
    BY <1>1, <1>4, <1>9, <2>0
  <2>2. used[list[src(j)]] \in 0 .. clock
    BY <1>1, <1>5
  <2>3. CASE i = 1
    BY <1>1, <1>2, <1>5, <1>9, <2>1, <2>2, <2>3
  <2>4. CASE i # 1
    <3>0. src(i) # p /\ src(i) \in 1 .. n /\ l[i] = list[src(i)]
      BY <1>1, <1>5, <2>4
    <3>1. l[i] # k /\ l[i] \in Keys /\ Touched(k)[l[i]] = used[list[src(i)]]
      BY <1>1, <1>4, <1>9, <3>0
    <3>2. src(i) < src(j) /\ src(i) \in 1 .. n /\ src(j) \in 1 .. n
      BY <1>5, <1>8, <1>12, <2>4
    <3> QED
      BY <1>3, <2>1, <3>1, <3>2
  <2> QED
    BY <2>3, <2>4
<1>13. \A x \in Keys : m[x] = None => Touched(k)[x] = 0
  BY <1>9 DEF IInv, Consistent
<1> QED
  BY <1>7, <1>9, <1>10, <1>11, <1>12, <1>13 DEF Consistent

(* An entry for a new key is put before all others. *)
LEMMA PushedInFront ==
    ASSUME IInv, NEW k \in Keys, map[k] = None, NEW v \in Values
    PROVE  Consistent([map EXCEPT ![k] = v], <<k>> \o list, Touched(k), clock + 1)
<1> DEFINE n == Len(list)
           m == [map EXCEPT ![k] = v]
           l == <<k>> \o list
<1>1. n \in Nat /\ list \in Seq(Keys) /\ list \in [1 .. n -> Keys]
      /\ clock \in Nat /\ used \in [Keys -> 0 .. clock] /\ map \in [Keys -> Values \cup {None}]
  BY DEF IInv, TypeOK
<1>2. l \in Seq(Keys) /\ Len(l) = n + 1 /\ l[1] = k /\ \A i \in 1 .. n : l[i + 1] = list[i]
  BY <1>1
<1>3. \A i \in 1 .. n : list[i] # k /\ list[i] \in Keys /\ map[list[i]] # None
  BY <1>1 DEF IInv, Consistent
<1>4. Touched(k) \in [Keys -> 0 .. clock + 1] /\ Touched(k)[k] = clock + 1
      /\ \A x \in Keys \ {k} : Touched(k)[x] = used[x]
  BY <1>1 DEF Touched
<1>5. m \in [Keys -> Values \cup {None}] /\ m[k] = v /\ v # None
      /\ \A x \in Keys \ {k} : m[x] = map[x]
  BY <1>1, CacheAssumption
<1>6. \A i \in 1 .. n + 1 : i = 1 \/ (i - 1 \in 1 .. n /\ l[i] = list[i - 1])
  BY <1>1, <1>2
<1>7. \A i \in 1 .. n + 1 : m[l[i]] # None
  BY <1>2, <1>3, <1>5, <1>6
<1>8. \A x \in Keys : m[x] # None => \E i \in 1 .. n + 1 : l[i] = x
  <2> SUFFICES ASSUME NEW x \in Keys \ {k}, map[x] # None
               PROVE  \E i \in 1 .. n + 1 : l[i] = x
    BY <1>1, <1>2, <1>5
  <2>1. PICK i \in 1 .. n : list[i] = x
    BY DEF IInv, Consistent
  <2>2. i + 1 \in 1 .. n + 1 /\ l[i + 1] = x
    BY <1>1, <1>2, <2>1
  <2> QED
    BY <2>2
<1>9. ASSUME NEW i \in 1 .. n + 1, NEW j \in 1 .. n + 1, i < j
      PROVE  Touched(k)[l[i]] > Touched(k)[l[j]]
  <2>1. j - 1 \in 1 .. n /\ l[j] = list[j - 1] /\ Touched(k)[l[j]] = used[list[j - 1]]
        /\ used[list[j - 1]] \in 0 .. clock
    BY <1>1, <1>3, <1>4, <1>6, <1>9
  <2>2. CASE i = 1
    BY <1>1, <1>2, <1>4, <2>1, <2>2
  <2>3. CASE i # 1
    <3>1. i - 1 \in 1 .. n /\ Touched(k)[l[i]] = used[list[i - 1]]
      BY <1>1, <1>3, <1>4, <1>6, <2>3
    <3>2. i - 1 < j - 1
      BY <1>1, <1>9
    <3>3. used[list[i - 1]] > used[list[j - 1]]
      BY <2>1, <3>1, <3>2 DEF IInv, Consistent
    <3> QED
      BY <2>1, <3>1, <3>3
  <2> QED
    BY <2>2, <2>3
<1>10. \A x \in Keys : m[x] = None => Touched(k)[x] = 0
  BY <1>4, <1>5 DEF IInv, Consistent
<1> QED
  BY <1>2, <1>4, <1>5, <1>7, <1>8, <1>9, <1>10 DEF Consistent

(* A collection fills the new container in any order: each key once. *)
LEMMA RebuiltConsistent ==
    ASSUME IInv, Rebuild, clock' = clock + Cardinality(Present(map))
    PROVE  Consistent(map', list', used', clock')
<1> DEFINE n == Cardinality(Present(map))
<1>1. n = Len(list) /\ n \in Nat /\ IsFiniteSet(Present(map))
  BY ListCardinality DEF IInv, TypeOK
<1>2. clock \in Nat /\ map \in [Keys -> Values \cup {None}]
  BY DEF IInv, TypeOK
<1>3. PICK order \in [1 .. n -> Present(map)] :
        /\ \A k \in Present(map) : \E i \in 1 .. n : order[i] = k
        /\ list' = order
        /\ used' = [k \in Keys |->
               IF map[k] = None THEN 0
               ELSE clock + n + 1 - (CHOOSE i \in 1 .. n : order[i] = k)]
        /\ UNCHANGED <<max_size, map, metrics>>
  BY DEF Rebuild
<1>4. order \in Surjection(1 .. n, Present(map))
  BY <1>3 DEF Surjection
<1>5. IsFiniteSet(1 .. n) /\ Cardinality(1 .. n) = n
  <2>1. \A b \in Nat : IsFiniteSet(1 .. b) /\ Cardinality(1 .. b) = b
    BY FS_Interval
  <2> QED
    BY <1>1, <2>1
<1>6. order \in Injection(1 .. n, Present(map))
  BY <1>1, <1>4, <1>5, FS_SurjSameCardinalityImpliesInj
<1>7. \A i, j \in 1 .. n : order[i] = order[j] => i = j
  BY <1>6 DEF Injection, IsInjective
<1>8. \A i \in 1 .. n : order[i] \in Keys /\ map[order[i]] # None
  BY <1>3 DEF Present
<1>9. list' \in Seq(Keys) /\ Len(list') = n
  <2>1. order \in [1 .. n -> Keys]
    BY <1>3, <1>8
  <2> QED
    BY <1>1, <1>3, <2>1
<1>10. \A i \in 1 .. n : used'[order[i]] = clock + n + 1 - i
  <2> SUFFICES ASSUME NEW i \in 1 .. n PROVE used'[order[i]] = clock + n + 1 - i
    OBVIOUS
  <2>1. (CHOOSE j \in 1 .. n : order[j] = order[i]) = i
    BY <1>7
  <2> QED
    BY <1>3, <1>8, <2>1
<1>11. used' \in [Keys -> 0 .. clock']
  <2>1. clock' \in Nat /\ used' = [k \in Keys |-> used'[k]]
    BY <1>1, <1>2, <1>3
  <2>2. ASSUME NEW k \in Keys PROVE used'[k] \in 0 .. clock'
    <3>1. CASE map[k] = None
      BY <1>3, <2>1, <3>1
    <3>2. CASE map[k] # None
      <4>1. PICK i \in 1 .. n : order[i] = k
        BY <1>3, <3>2 DEF Present
      <4>2. used'[k] = clock + n + 1 - i
        BY <1>10, <4>1
      <4> QED
        BY <1>1, <1>2, <4>1, <4>2
    <3> QED
      BY <3>1, <3>2
  <2> QED
    BY <2>1, <2>2
<1>12. \A k \in Keys : map'[k] # None => \E i \in 1 .. n : list'[i] = k
  BY <1>3 DEF Present
<1>13. ASSUME NEW i \in 1 .. n, NEW j \in 1 .. n, i < j
       PROVE  used'[list'[i]] > used'[list'[j]]
  <2>1. used'[list'[i]] = clock + n + 1 - i /\ used'[list'[j]] = clock + n + 1 - j
    BY <1>3, <1>10
  <2> QED
    BY <1>1, <1>2, <1>13, <2>1
<1>14. \A k \in Keys : map'[k] = None => used'[k] = 0
  BY <1>3
<1>15. \A i \in 1 .. n : map'[list'[i]] # None
  BY <1>3, <1>8
<1>16. map' \in [Keys -> Values \cup {None}]
  BY <1>2, <1>3
<1> QED
  BY <1>9, <1>11, <1>12, <1>13, <1>14, <1>15, <1>16 DEF Consistent

LEMMA InitInv == Init => IInv
<1> SUFFICES ASSUME Init PROVE IInv
  OBVIOUS
<1>1. TypeOK
  BY CacheAssumption DEF Init, TypeOK, NoEntries
<1>2. Consistent(map, list, used, clock)
  BY <1>1 DEF Init, NoEntries, Consistent, TypeOK
<1>3. Cardinality(Present(map)) = 0
  BY FS_EmptySet DEF Init, NoEntries, Present
<1> QED
  BY <1>1, <1>2, <1>3, CacheAssumption DEF Init, WithinLimit, IInv

-----------------------------------------------------------------------------
(* Each step keeps the invariant and is a step of the policy. *)

(* The policy counts as the container does. *)
LEMMA SameCardinality == \A S : Policy!Cardinality(S) = Cardinality(S)
BY DEF Policy!Cardinality, Cardinality

(* When the policy calls a cache trimmed, in terms of the container. *)
LEMMA TrimmedBy ==
    ASSUME NEW STATE m, NEW STATE at, NEW STATE n,
           \A x \in Keys : map'[x] \in {m[x], None},
           Cardinality(Present(map')) = IF Cardinality(Present(m)) < n THEN Cardinality(Present(m)) ELSE n,
           \A x \in Present(map'), d \in Present(m) \ Present(map') : at[d] < at[x]
    PROVE  Policy!Trimmed(m, map', at, n)
BY SameCardinality DEF Policy!Trimmed, Policy!Present, Policy!Least, Present

(* A get, a hit or a miss. *)
LEMMA GetStep ==
    ASSUME IInv, NEW k \in Keys, clock' = clock + 1, Get(k)
    PROVE  IInv' /\ [Policy!Next]_(Policy!vars)
<1>1. /\ clock \in Nat /\ map \in [Keys -> Values \cup {None}] /\ max_size \in 0 .. MaxLimit
      /\ list \in Seq(Keys) /\ used \in [Keys -> 0 .. clock]
      /\ metrics \in [hits : Nat, misses : Nat, evictions : Nat]
  BY DEF IInv, TypeOK
<1>2. CASE map[k] = None /\ metrics' = [metrics EXCEPT !.misses = @ + 1]
           /\ UNCHANGED <<max_size, map, list, used>>
  <2>0. metrics' \in [hits : Nat, misses : Nat, evictions : Nat] /\ clock' \in Nat
        /\ used' \in [Keys -> 0 .. clock']
    BY <1>1, <1>2
  <2>1. TypeOK'
    BY <1>1, <1>2, <2>0 DEF TypeOK
  <2>2. Consistent(map', list', used', clock')
    BY <1>1, <1>2 DEF IInv, Consistent
  <2> QED
    BY <1>2, <2>1, <2>2 DEF IInv, WithinLimit, Present, Policy!vars
<1>3. CASE map[k] # None /\ metrics' = [metrics EXCEPT !.hits = @ + 1]
           /\ list' = Spliced(k) /\ used' = Touched(k) /\ UNCHANGED <<max_size, map>>
  <2>1. Consistent(map', list', used', clock')
    BY <1>1, <1>3, SpliceKeepsTheOrder
  <2>0. metrics' \in [hits : Nat, misses : Nat, evictions : Nat] /\ clock' \in Nat
    BY <1>1, <1>3
  <2>2. TypeOK'
    BY <1>1, <1>3, <2>0, <2>1 DEF TypeOK, Consistent
  <2>3. used'[k] = clock + 1 /\ \A m \in Keys \ {k} : used[m] < clock + 1
    BY <1>1, <1>3 DEF Touched
  <2>4. used' = [used EXCEPT ![k] = used'[k]]
    BY <1>1, <1>3 DEF Touched
  <2>5. Policy!Hit(k)
    BY <1>1, <1>3, <2>3, <2>4 DEF Policy!Hit, Policy!Later, Policy!Touched
  <2> QED
    BY <1>3, <2>1, <2>2, <2>5 DEF IInv, WithinLimit, Present, Policy!Next
<1> QED
  BY <1>2, <1>3 DEF Get

(* Storing a value: an overwrite, or a new entry and what it pushes out. *)
LEMMA PutStep ==
    ASSUME IInv, NEW k \in Keys, NEW v \in Values, clock' = clock + 1, Put(k, v)
    PROVE  IInv' /\ [Policy!Next]_(Policy!vars)
<1> DEFINE m == [map EXCEPT ![k] = v]
           at == Touched(k)
<1>1. /\ clock \in Nat /\ map \in [Keys -> Values \cup {None}] /\ max_size \in 0 .. MaxLimit
      /\ list \in Seq(Keys) /\ used \in [Keys -> 0 .. clock] /\ max_size \in Nat
      /\ metrics \in [hits : Nat, misses : Nat, evictions : Nat] /\ v # None
      /\ m \in [Keys -> Values \cup {None}] /\ m[k] = v /\ clock' \in Nat
  BY CacheAssumption DEF IInv, TypeOK
<1>2. at[k] = clock + 1 /\ at = [used EXCEPT ![k] = at[k]] /\ \A x \in Keys \ {k} : used[x] < clock + 1
  BY <1>1 DEF Touched
<1>3. Cardinality(Present(map)) = Len(list) /\ Len(list) \in Nat /\ Len(list) <= max_size
  BY <1>1, ListCardinality DEF IInv, WithinLimit
<1>4. CASE max_size # 0 /\ map[k] # None /\ map' = m /\ list' = Spliced(k) /\ used' = at
           /\ UNCHANGED <<max_size, metrics>>
  <2>1. Consistent(map', list', used', clock')
    BY <1>1, <1>4, SpliceKeepsTheOrder
  <2>2. TypeOK'
    BY <1>1, <1>4, <2>1 DEF TypeOK, Consistent
  <2>3. Present(map') = Present(map)
    BY <1>1, <1>4 DEF Present
  <2>4. Policy!Trimmed(m, map', Policy!Touched(k, used'[k]), max_size)
    <3>1. Present(map') = Present(m) /\ \A x \in Keys : map'[x] \in {m[x], None}
      BY <1>4
    <3>2. Cardinality(Present(m)) = Len(list)
      BY <1>3, <1>4, <2>3
    <3>3. Len(list) = IF Len(list) < max_size THEN Len(list) ELSE max_size
      BY <1>1, <1>3
    <3> HIDE DEF m
    <3> QED
      BY <3>1, <3>2, <3>3, TrimmedBy
  <2>5. Policy!Forgotten(Policy!Touched(k, used'[k]))
    BY <1>1, <1>2, <1>4, <2>1 DEF Policy!Forgotten, Policy!Touched, Consistent
  <2>6. Policy!Later(k, used'[k])
    BY <1>1, <1>2, <1>4 DEF Policy!Later
  <2>7. Policy!Put(k, v)
    BY <1>4, <2>4, <2>5, <2>6 DEF Policy!Put
  <2> QED
    BY <1>4, <2>1, <2>2, <2>3, <2>7 DEF IInv, WithinLimit, Policy!Next
<1>5. CASE max_size # 0 /\ map[k] = None /\ Evict(m, <<k>> \o list, max_size, at)
           /\ UNCHANGED max_size
  <2> DEFINE l == <<k>> \o list
  <2>1. Consistent(m, l, at, clock + 1) /\ clock + 1 \in Nat
    BY <1>1, <1>5, PushedInFront
  <2>2. Len(l) = Len(list) + 1 /\ Cardinality(Present(m)) = Len(l)
    <3>1. Len(l) = Len(list) + 1
      BY <1>1
    <3>2. Cardinality(Present(m)) = Len(l)
      BY <2>1, ListCardinality
    <3> QED
      BY <3>1, <3>2
  <2>3. /\ Consistent(map', list', used', clock')
        /\ metrics' \in [hits : Nat, misses : Nat, evictions : Nat]
        /\ Cardinality(Present(map')) = IF Len(l) < max_size THEN Len(l) ELSE max_size
        /\ \A x \in Keys : map'[x] \in {m[x], None}
        /\ \A x \in Present(map'), d \in Present(m) \ Present(map') : at[d] < at[x]
        /\ used' = [x \in Keys |-> IF map'[x] = None THEN 0 ELSE at[x]]
    <3>1. Evict(m, l, max_size, at)
      BY <1>5
    <3>2. /\ Consistent(map', list', used', clock + 1)
          /\ metrics' \in [hits : Nat, misses : Nat, evictions : Nat]
          /\ Cardinality(Present(map')) = IF Len(l) < max_size THEN Len(l) ELSE max_size
          /\ \A x \in Keys : map'[x] \in {m[x], None}
          /\ \A x \in Present(map'), d \in Present(m) \ Present(map') : at[d] < at[x]
          /\ used' = [x \in Keys |-> IF map'[x] = None THEN 0 ELSE at[x]]
      <4> HIDE DEF m, l, at
      <4> QED
        BY <1>1, <2>1, <3>1, EvictKeepsTheRecent
    <3> QED
      BY <3>2
  <2>4. TypeOK'
    BY <1>1, <1>5, <2>3 DEF TypeOK, Consistent
  <2>5. Cardinality(Present(map')) <= max_size
    BY <1>1, <1>3, <2>2, <2>3
  <2>6. map'[k] # None
    <3>1. SUFFICES ASSUME map'[k] = None PROVE FALSE
      OBVIOUS
    <3>2. k \in Present(m) \ Present(map')
      BY <1>1, <3>1 DEF Present
    <3>3. \A x \in Present(map') : at[k] < at[x] /\ at[x] \in Int
      BY <2>1, <2>3, <3>2 DEF Present, Consistent
    <3>4. \A x \in Present(map') : x \in Keys /\ at[x] <= at[k]
      BY <1>1, <1>2, <2>1 DEF Present, Consistent
    <3>5. Present(map') = {}
      BY <1>1, <1>2, <3>3, <3>4
    <3>6. Cardinality(Present(map')) = 0
      BY <3>5, FS_EmptySet
    <3> QED
      BY <1>1, <1>3, <1>5, <2>2, <2>3, <3>6
  <2>7. used'[k] = at[k] /\ Policy!Touched(k, used'[k]) = at
    BY <1>2, <2>3, <2>6 DEF Policy!Touched
  <2>8. Policy!Trimmed(m, map', at, max_size)
    <3> HIDE DEF m, at
    <3> QED
      BY <2>2, <2>3, TrimmedBy
  <2>9. Policy!Put(k, v)
    BY <1>1, <1>2, <1>5, <2>3, <2>7, <2>8 DEF Policy!Put, Policy!Later, Policy!Forgotten
  <2> QED
    BY <1>5, <2>3, <2>4, <2>5, <2>9 DEF IInv, WithinLimit, Policy!Next
<1> QED
  BY <1>4, <1>5 DEF Put

(* A new limit. *)
LEMMA LimitStep ==
    ASSUME IInv, NEW n \in 0 .. MaxLimit, clock' = clock, SetMaxSize(n)
    PROVE  IInv' /\ [Policy!Next]_(Policy!vars)
<1>1. /\ clock \in Nat /\ max_size' = n /\ n \in Nat
      /\ metrics \in [hits : Nat, misses : Nat, evictions : Nat]
      /\ Consistent(map, list, used, clock) /\ Evict(map, list, n, used)
  BY CacheAssumption DEF IInv, TypeOK, SetMaxSize
<1>2. Cardinality(Present(map)) = Len(list) /\ Len(list) \in Nat
  BY <1>1, ListCardinality
<1>3. /\ Consistent(map', list', used', clock)
      /\ metrics' \in [hits : Nat, misses : Nat, evictions : Nat]
      /\ Cardinality(Present(map')) = IF Len(list) < n THEN Len(list) ELSE n
      /\ \A x \in Keys : map'[x] \in {map[x], None}
      /\ \A x \in Present(map'), d \in Present(map) \ Present(map') : used[d] < used[x]
      /\ used' = [x \in Keys |-> IF map'[x] = None THEN 0 ELSE used[x]]
  BY <1>1, EvictKeepsTheRecent
<1>4. TypeOK' /\ WithinLimit'
  BY <1>1, <1>2, <1>3 DEF TypeOK, Consistent, WithinLimit
<1>5. Policy!Trimmed(map, map', used, max_size')
  BY <1>1, <1>2, <1>3, TrimmedBy
<1>6. Policy!SetLimit
  BY <1>1, <1>3, <1>5 DEF Policy!SetLimit, Policy!Forgotten
<1>7. IInv'
  BY <1>1, <1>3, <1>4 DEF IInv
<1> QED
  BY <1>6, <1>7 DEF Policy!Next

LEMMA ClearStep ==
    ASSUME IInv, clock' = clock, Clear
    PROVE  IInv' /\ [Policy!Next]_(Policy!vars)
<1>1. TypeOK'
  BY CacheAssumption DEF IInv, TypeOK, Clear, NoEntries
<1>2. Consistent(map', list', used', clock')
  BY <1>1 DEF Clear, NoEntries, Consistent, TypeOK
<1>3. Present(map') = {}
  BY DEF Clear, NoEntries, Present
<1>4. Cardinality(Present(map')) = 0
  BY <1>3, FS_EmptySet
<1>5. WithinLimit'
  BY <1>1, <1>4 DEF WithinLimit, TypeOK
<1>6. Policy!Clear
  BY DEF Clear, NoEntries, Policy!Clear
<1> QED
  BY <1>1, <1>2, <1>5, <1>6 DEF IInv, Policy!Next

LEMMA RebuildStep ==
    ASSUME IInv, Tick(Cardinality(Present(map))), Rebuild
    PROVE  IInv' /\ [Policy!Next]_(Policy!vars)
<1>1. clock' = clock + Cardinality(Present(map)) /\ UNCHANGED <<max_size, map, metrics>>
  BY DEF Tick, Rebuild
<1>2. Consistent(map', list', used', clock')
  BY <1>1, RebuiltConsistent
<1>3. Cardinality(Present(map)) \in Nat /\ clock \in Nat
  BY ListCardinality DEF IInv, TypeOK
<1>4. TypeOK'
  BY <1>1, <1>2, <1>3 DEF IInv, TypeOK, Consistent
<1>5. WithinLimit'
  BY <1>1 DEF IInv, WithinLimit, Present
<1>6. \A x \in Keys : used'[x] \in Nat
  BY <1>1, <1>2, <1>3 DEF Consistent
<1>7. used' \in [Keys -> Nat]
  BY <1>2, <1>6 DEF Consistent
<1>8. Policy!Rebuild
  BY <1>1, <1>7 DEF Policy!Rebuild
<1> QED
  BY <1>2, <1>4, <1>5, <1>8 DEF IInv, Policy!Next

(* Every step keeps the invariant and is a step of the policy, or none. *)
LEMMA EveryStep ==
    ASSUME IInv, [Next]_vars
    PROVE  IInv' /\ [Policy!Next]_(Policy!vars)
<1>1. CASE \E k \in Keys : clock < MaxUses /\ Tick(1) /\ Get(k)
  <2>1. PICK k \in Keys : Tick(1) /\ Get(k)
    BY <1>1
  <2> QED
    BY <2>1, GetStep DEF Tick
<1>2. CASE \E k \in Keys : clock < MaxUses /\ Tick(1) /\ \E v \in Values : Put(k, v)
  <2>1. PICK k \in Keys, v \in Values : Tick(1) /\ Put(k, v)
    BY <1>2
  <2> QED
    BY <2>1, PutStep DEF Tick
<1>3. CASE Tick(0) /\ \E n \in 0 .. MaxLimit : SetMaxSize(n)
  <2>1. PICK n \in 0 .. MaxLimit : SetMaxSize(n)
    BY <1>3
  <2>2. clock' = clock
    BY <1>3 DEF Tick, IInv, TypeOK
  <2> QED
    BY <2>1, <2>2, LimitStep
<1>4. CASE Tick(0) /\ Clear
  <2>1. clock' = clock
    BY <1>4 DEF Tick, IInv, TypeOK
  <2> QED
    BY <1>4, <2>1, ClearStep
<1>5. CASE Tick(Cardinality(Present(map))) /\ Rebuild
  BY <1>5, RebuildStep
<1>6. CASE UNCHANGED vars
  BY <1>6 DEF vars, IInv, TypeOK, Consistent, WithinLimit, Present, Policy!vars
<1> QED
  BY <1>1, <1>2, <1>3, <1>4, <1>5, <1>6 DEF Next

-----------------------------------------------------------------------------
(* The theorems. *)

LEMMA Inductive == Spec => []IInv
<1>1. IInv /\ [Next]_vars => IInv'
  BY EveryStep
<1> QED
  BY <1>1, InitInv, PTL DEF Spec

(* The fields of the container keep their types. *)
THEOREM TypeCorrect == Spec => []TypeOK
<1>1. IInv => TypeOK
  BY DEF IInv
<1> QED
  BY <1>1, Inductive, PTL

(* Map and list always hold the same keys, in the order of their use: no iterator
   dangles, and an eviction erases what was used least recently. *)
THEOREM ListAndMapAgree == Spec => []ListAgreesWithMap
<1>1. IInv => ListAgreesWithMap
  BY ConsistentIsBoth DEF IInv, ListAgreesWithMap
<1> QED
  BY <1>1, Inductive, PTL

(* The limit is never exceeded, whatever the client does to it. *)
THEOREM LimitKept == Spec => []WithinLimit
<1>1. IInv => WithinLimit
  BY DEF IInv
<1> QED
  BY <1>1, Inductive, PTL

(* The container implements the policy. *)
THEOREM CacheImplementsPolicy == Spec => ImplementsPolicy
<1>1. Init => Policy!Init
  BY CacheAssumption DEF Init, NoEntries, Policy!Init
<1>2. IInv /\ [Next]_vars => [Policy!Next]_(Policy!vars)
  BY EveryStep
<1> QED
  BY <1>1, <1>2, Inductive, PTL DEF Spec, ImplementsPolicy, Policy!Spec
=============================================================================
