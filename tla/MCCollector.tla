---------------------------- MODULE MCCollector ----------------------------
(***************************************************************************)
(* A small session: two symbols, memory for one of them or both, and       *)
(* caches of two entries, of one or none.  The session is explored while   *)
(* it and the client keep at most MaxKept things at once: a definition, an *)
(* assumption, a condition, a cache entry; any two kinds meet in one.  One *)
(* thing less is kept by a session that cannot cache anything, by one that *)
(* a collection has left a null, and after the second collection.          *)
(***************************************************************************)
EXTENDS Collector, TLC

CONSTANTS MaxKept, e1, e2

MCSymmetry == Permutations(Exprs)

MCThings ==
    Cardinality(Named) + Cardinality({s \in Symbols : ranges[s] # None}) + Cardinality(relations)
    + Cardinality(trace) + Cardinality(roots) + Cardinality(side_conditions)
    + Cardinality(simplify_cache) + Cardinality(diff_cache) + Cardinality(integrate_cache)

MCWholly ==
    /\ caching_enabled /\ limit > 0 /\ arena < 2
    /\ Null \notin Named \cup Bounds \cup trace \cup roots \cup side_conditions
                   \cup PointersIn(simplify_cache) \cup PointersIn(diff_cache) \cup PointersIn(integrate_cache)

MCKept == MCThings <= IF MCWholly THEN MaxKept ELSE MaxKept - 1
=============================================================================
