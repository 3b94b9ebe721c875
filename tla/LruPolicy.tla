----------------------------- MODULE LruPolicy -----------------------------
(***************************************************************************)
(* What a memo cache of the session promises: a lookup finds the value     *)
(* last stored for its key or nothing, there are never more entries than   *)
(* the limit, and when entries must go the least recently used ones go and *)
(* no more of them than needed.  How recency is kept is left open.         *)
(***************************************************************************)
EXTENDS Naturals, FiniteSets

CONSTANTS Keys, Values, None

VARIABLES limit,  \* the number of entries allowed
          held,   \* the value held for each key, or None
          used    \* when each key was last used, zero if it holds nothing

vars == <<limit, held, used>>

Present(h) == {k \in Keys : h[k] # None}
Least(m, n) == IF m < n THEN m ELSE n

Init == limit \in Nat /\ held = [k \in Keys |-> None] /\ used \in [Keys -> {0}]

\* after keeps of before as many entries as n allows, the most recent ones.
Trimmed(before, after, at, n) ==
    /\ \A k \in Keys : after[k] \in {before[k], None}
    /\ Cardinality(Present(after)) = Least(Cardinality(Present(before)), n)
    /\ \A k \in Present(after), d \in Present(before) \ Present(after) : at[d] < at[k]

\* The times of use once k has been used at a time after every other.
Touched(k, time) == [used EXCEPT ![k] = time]
Later(k, time) == time \in Nat /\ \A m \in Keys \ {k} : used[m] < time

\* What is no longer held is no longer used.
Forgotten(at) == used' = [k \in Keys |-> IF held'[k] = None THEN 0 ELSE at[k]]

Hit(k) ==
    /\ held[k] # None
    /\ Later(k, used'[k]) /\ used' = Touched(k, used'[k])
    /\ UNCHANGED <<limit, held>>

Put(k, v) ==
    /\ limit # 0
    /\ Later(k, used'[k])
    /\ Trimmed([held EXCEPT ![k] = v], held', Touched(k, used'[k]), limit)
    /\ Forgotten(Touched(k, used'[k]))
    /\ UNCHANGED limit

SetLimit ==
    /\ limit' \in Nat
    /\ Trimmed(held, held', used, limit')
    /\ Forgotten(used)

Clear == held' = [k \in Keys |-> None] /\ used' = [k \in Keys |-> 0] /\ UNCHANGED limit

\* A collection keeps every entry but not the order of their use.
Rebuild == used' \in [Keys -> Nat] /\ UNCHANGED <<limit, held>>

Next ==
    \/ \E k \in Keys : Hit(k) \/ \E v \in Values : Put(k, v)
    \/ SetLimit \/ Clear \/ Rebuild

Spec == Init /\ [][Next]_vars
=============================================================================
