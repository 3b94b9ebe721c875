------------------------------ MODULE LruCache ------------------------------
(***************************************************************************)
(* A memo cache of the session (cas::symbolic::CacheContainer): a hash map *)
(* from the keys to their values and a list of the keys, most recent       *)
(* first.  The two are updated by separate statements; every operation has *)
(* to leave them describing the same entries.  A collection replaces the   *)
(* container by a new one, filled in the order of the old map.             *)
(***************************************************************************)
EXTENDS Integers, Sequences, FiniteSets

CONSTANTS
    Keys, Values,
    MaxLimit,        \* bound: the largest limit a client sets
    MaxUses,         \* bound: the uses and puts of a behaviour
    None             \* a key without an entry

ASSUME CacheAssumption ==
    /\ MaxLimit \in Nat /\ MaxUses \in Nat
    /\ IsFiniteSet(Keys) /\ None \notin Values

VARIABLES
    max_size, map, list,     \* max_size_, map_, list_
    metrics,                 \* hits, misses, evictions
    clock, used              \* history: when each key was last used

vars == <<max_size, map, list, metrics, clock, used>>

Present(m) == {k \in Keys : m[k] # None}
NoEntries  == [k \in Keys |-> None]

Init ==
    /\ max_size \in 0 .. MaxLimit
    /\ map = NoEntries /\ list = <<>>
    /\ metrics = [hits |-> 0, misses |-> 0, evictions |-> 0]
    /\ clock = 0 /\ used = [k \in Keys |-> 0]

Position(k) == CHOOSE i \in 1 .. Len(list) : list[i] = k

\* Fault: the entry that is used stays where it is in the list.
SplicedNowhere(k) == list

\* list_.splice: the element moves to the front, the others keep their order.
Spliced(k) ==
    LET p == Position(k)
    IN  [i \in 1 .. Len(list) |-> IF i = 1 THEN k ELSE IF i <= p THEN list[i - 1] ELSE list[i]]

\* Fault: the limit itself is one entry too many.
OverfullAtLimit(m, n) == IF Cardinality(Present(m)) >= n THEN Cardinality(Present(m)) - n + 1 ELSE 0

\* The entries above the limit n.
Overfull(m, n) == IF Cardinality(Present(m)) > n THEN Cardinality(Present(m)) - n ELSE 0

\* evict_if_needed on the map m and the list l with the limit n: the keys at the
\* back go, one at a time, while there are too many and the list is not empty.
Evict(m, l, n, at) ==
    LET evicted == IF Overfull(m, n) < Len(l) THEN Overfull(m, n) ELSE Len(l)
        rest    == Len(l) - evicted
        gone    == {l[i] : i \in rest + 1 .. Len(l)}
    IN  /\ list' = SubSeq(l, 1, rest)
        /\ map' = [k \in Keys |-> IF k \in gone THEN None ELSE m[k]]
        /\ metrics' = [metrics EXCEPT !.evictions = @ + evicted]
        /\ used' = [k \in Keys |-> IF k \in gone THEN 0 ELSE at[k]]

Touched(k) == [used EXCEPT ![k] = clock + 1]

Get(k) ==
    \/ /\ map[k] = None
       /\ metrics' = [metrics EXCEPT !.misses = @ + 1]
       /\ UNCHANGED <<max_size, map, list, used>>
    \/ /\ map[k] # None
       /\ metrics' = [metrics EXCEPT !.hits = @ + 1]
       /\ list' = Spliced(k)
       /\ used' = Touched(k)
       /\ UNCHANGED <<max_size, map>>

Put(k, v) ==
    \/ /\ max_size # 0 /\ map[k] # None
       /\ map' = [map EXCEPT ![k] = v]
       /\ list' = Spliced(k)
       /\ used' = Touched(k)
       /\ UNCHANGED <<max_size, metrics>>
    \/ /\ max_size # 0 /\ map[k] = None
       /\ Evict([map EXCEPT ![k] = v], <<k>> \o list, max_size, Touched(k))
       /\ UNCHANGED max_size

\* Fault: the limit that is stored is one less.
LimitOneLess(n) == max_size' = n - 1 /\ Evict(map, list, n, used)

\* Fault: a lower limit evicts nothing before the next put.
LimitOnly(n) == max_size' = n /\ Evict(map, list, MaxLimit, used)

SetMaxSize(n) == max_size' = n /\ Evict(map, list, n, used)

\* clear() keeps the limit and the metrics.
Clear ==
    /\ map' = NoEntries /\ list' = <<>> /\ used' = [k \in Keys |-> 0]
    /\ UNCHANGED <<max_size, metrics>>

\* collect_garbage: the entries are put into a new container in the order of the
\* map, which is any; the limit and the metrics are carried over.
Rebuild ==
    LET n == Cardinality(Present(map))
    IN  \E order \in [1 .. n -> Present(map)] :
            /\ n > 0
            /\ \A k \in Present(map) : \E i \in 1 .. n : order[i] = k
            /\ list' = order
            /\ used' = [k \in Keys |->
                   IF map[k] = None THEN 0
                   ELSE clock + n + 1 - (CHOOSE i \in 1 .. n : order[i] = k)]
            /\ UNCHANGED <<max_size, map, metrics>>

Tick(n) == clock' = clock + n

Next ==
    \/ \E k \in Keys : /\ clock < MaxUses /\ Tick(1)
                       /\ Get(k) \/ \E v \in Values : Put(k, v)
    \/ /\ Tick(0)
       /\ \/ \E n \in 0 .. MaxLimit : SetMaxSize(n)
          \/ Clear
    \/ /\ clock + Cardinality(Present(map)) <= MaxUses /\ Tick(Cardinality(Present(map)))
       /\ Rebuild

Spec == Init /\ [][Next]_vars

-----------------------------------------------------------------------------
(* Properties. *)

\* The container's fields have their types.
TypeOK ==
    /\ max_size \in 0 .. MaxLimit
    /\ map \in [Keys -> Values \cup {None}] /\ list \in Seq(Keys)
    /\ metrics \in [hits : Nat, misses : Nat, evictions : Nat]
    /\ clock \in Nat /\ used \in [Keys -> 0 .. clock]

\* The list holds each key of the map once and no other: an iterator kept in the
\* map never dangles and an eviction always finds a key to erase.
MapMatchesList ==
    /\ {list[i] : i \in 1 .. Len(list)} = Present(map)
    /\ \A i, j \in 1 .. Len(list) : list[i] = list[j] => i = j

\* No operation, rebuild or change of the limit leaves more entries than allowed.
WithinLimit == Cardinality(Present(map)) <= max_size

\* The list is the order of use, most recent first, so the back is what to evict.
ListIsRecency ==
    /\ \A i, j \in 1 .. Len(list) : i < j => used[list[i]] > used[list[j]]
    /\ \A k \in Keys : map[k] = None => used[k] = 0

\* The list and the map describe the same entries, in the order an eviction needs.
ListAgreesWithMap == MapMatchesList /\ ListIsRecency

\* The container implements the policy: nothing is forgotten that the limit allows
\* to keep, and what is forgotten is what was used least recently.
Policy == INSTANCE LruPolicy WITH limit <- max_size, held <- map
ImplementsPolicy == Policy!Spec
=============================================================================
