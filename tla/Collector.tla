----------------------------- MODULE Collector -----------------------------
(***************************************************************************)
(* The memory of a session (cas::symbolic::CASContext) and its collector.  *)
(* Every expression is a pointer into the arena of the session; a          *)
(* collection copies what the session and the client still reach into a    *)
(* new arena and destroys the old one, so each pointer the session keeps   *)
(* (variables, assumptions, trace, accumulator, three memo caches) has to  *)
(* be replaced.  A pointer is the expression it stands for and the arena   *)
(* it points into; the relations may also hold a symbol of the client's    *)
(* own, which no arena owns.  The new arena may refuse a copy: null stands *)
(* in its place from then on.  A cache is what LruPolicy says of it: at    *)
(* the limit it gives up entries; LruCache is the container.  The client   *)
(* collects between operations.                                            *)
(***************************************************************************)
EXTENDS Naturals, FiniteSets

CONSTANTS
    Exprs,            \* expressions up to structural equality
    Symbols,          \* those that are symbols
    Names,            \* names the client defines
    Limits,           \* the cache limits the client sets
    Budget,           \* bound: max_memory_budget_bytes, in nodes
    MaxCollections,   \* bound: the collections of a behaviour
    MaxChain,         \* MAX_COLLISION_CHAIN
    Client,           \* where the client keeps Symbol objects of its own
    Nothing, Nowhere, \* what null points at, and where
    None              \* no definition

Null    == [expr |-> Nothing, arena |-> Nowhere]     \* ExprPtr{}; in a relation it stands for zero
Pointer == [expr : Exprs, arena : Nat \cup {Client}] \cup {Null}

ASSUME CollectorAssumption ==
    /\ None \notin Pointer \cup (Pointer \X Pointer)
    /\ Client \notin Nat /\ Nowhere \notin Nat \cup {Client} /\ Nothing \notin Exprs
    /\ IsFiniteSet(Exprs) /\ Symbols \subseteq Exprs /\ Limits \subseteq Nat /\ Limits # {}
    /\ Budget \in Nat /\ MaxCollections \in Nat /\ MaxChain \in Nat

VARIABLES
    arena,            \* which arena arena_ is: the collections before it
    interned,         \* the expressions with a node in it
    uncharged,        \* history: those that nothing was charged for
    counted,          \* bytes_allocated_, in nodes
    exhausted,        \* budget_exhausted_
    variables,        \* variables_
    ranges,           \* range_symbols_: lower and upper bound
    relations,        \* relations_, as pairs of a key and one of its targets
    discarded,        \* the client's symbols that it destroyed although a relation points at them
    revised,          \* their revision is not the one the last simplify saw
    trace_enabled, trace,
    caching_enabled, limit,
    simplify_cache, diff_cache, integrate_cache,
    side_conditions,  \* the subjects in the accumulator
    roots             \* the pointers the client registers with a collection

memoryVars == <<arena, interned, uncharged, counted, exhausted>>
factVars   == <<variables, ranges, relations, discarded, roots>>
modeVars   == <<trace_enabled, caching_enabled, limit>>
cacheVars  == <<simplify_cache, diff_cache, integrate_cache>>
vars == <<memoryVars, factVars, modeVars, cacheVars, trace, side_conditions, revised>>

Node(e)     == [expr |-> e, arena |-> arena]
Live        == {Node(e) : e \in interned}      \* the pointers an operation may be given
Borrowed(s) == [expr |-> s, arena |-> Client]

Entry == [key : Pointer, value : Pointer, conditions : SUBSET Pointer]

Init ==
    /\ arena = 0 /\ interned = {} /\ uncharged = {} /\ counted = 0 /\ exhausted = FALSE
    /\ variables = [n \in Names |-> None] /\ roots = {}
    /\ ranges = [s \in Symbols |-> None] /\ relations = {} /\ discarded = {} /\ revised = FALSE
    /\ trace_enabled = FALSE /\ trace = {}
    /\ caching_enabled = TRUE /\ limit \in Limits
    /\ simplify_cache = {} /\ diff_cache = {} /\ integrate_cache = {}
    /\ side_conditions = {}

-----------------------------------------------------------------------------
(* Memory and caches. *)

\* Nodes for the expressions es are found or allocated.
Make(es) ==
    LET new == es \ interned
    IN  /\ new # {} => ~exhausted /\ counted + Cardinality(new) <= Budget
        /\ interned' = interned \cup new
        /\ counted' = counted + Cardinality(new)
        /\ UNCHANGED <<arena, uncharged, exhausted>>

\* The budget does not allow them: some are allocated and the flag goes up.
OutOfMemory(es) ==
    /\ es \ interned # {}
    /\ \E part \in SUBSET (es \ interned) :
         /\ Cardinality(part) = IF exhausted THEN 0 ELSE Budget - counted
         /\ part # es \ interned
         /\ interned' = interned \cup part
         /\ counted' = counted + Cardinality(part)
    /\ exhausted' = TRUE
    /\ UNCHANGED <<arena, uncharged>>

Cached(cache, h) == {e \in cache : e.key.expr = h.expr}

\* Fault: the limit is checked before the entry that is added is counted.
CutLate(cache, n) ==
    IF Cardinality(cache) <= n + 1 THEN {cache} ELSE {kept \in SUBSET cache : Cardinality(kept) = n}

\* What a limit of n entries may leave of a cache (which ones is up to LruPolicy).
Cut(cache, n) ==
    IF Cardinality(cache) <= n THEN {cache} ELSE {kept \in SUBSET cache : Cardinality(kept) = n}

\* put: the entry replaces one with its key; at the limit others may go.
Stored(cache, entry) ==
    IF limit = 0 THEN {cache}
    ELSE {kept \cup {entry} : kept \in Cut(cache \ Cached(cache, entry.key), limit - 1)}

-----------------------------------------------------------------------------
(* Operations.  An operation is one step; what it computes is left open.   *)

\* A step of the trace names the pointers before and after.
Traced(h, r) == IF trace_enabled THEN {h, r} ELSE {}

Usable == caching_enabled /\ ~trace_enabled

\* What a simplify finds of a cache: it clears all three once the assumptions are revised.
Current(cache) == IF revised THEN {} ELSE cache

\* simplify(h) yields r.  A top-level call starts a new trace and a new accumulator;
\* a nested one adds to the accumulator, and its entry holds what it added.
Simplifies(h, r, subjects, nested) ==
    LET before == IF nested THEN side_conditions ELSE {}
        taken  == {Node(s) : s \in subjects}
        hits   == IF Usable THEN Cached(Current(simplify_cache), h) ELSE {}
    IN  /\ revised' = FALSE
        /\ \/ \E e \in hits :
                /\ r = e.value /\ subjects = {}
                /\ side_conditions' = before \cup e.conditions
                /\ UNCHANGED <<trace, simplify_cache>>
           \/ /\ hits = {} /\ r # Null
              /\ side_conditions' = before \cup taken
              /\ trace' = Traced(h, r)
              /\ simplify_cache' \in
                     IF Usable
                     THEN Stored(Current(simplify_cache),
                                 [key |-> h, value |-> r, conditions |-> taken \ before])
                     ELSE {Current(simplify_cache)}

\* What an operation may return: a node, or the null that a collection left in a cache.
Results == {Node(e) : e \in Exprs} \cup {Null}

Simplify(h) ==
    \E r \in Results, subjects \in SUBSET Exprs :
        /\ Simplifies(h, r, subjects, FALSE)
        /\ Make(({r.expr} \cap Exprs) \cup subjects)
        /\ diff_cache' = Current(diff_cache) /\ integrate_cache' = Current(integrate_cache)
        /\ UNCHANGED <<modeVars, factVars>>

\* The calculus memo: a hit changes nothing but the order of use.
Computed(cache, h) == ~caching_enabled \/ Cached(cache, h) = {}

Memo(cache, h, r) ==
    IF caching_enabled
    THEN Stored(cache, [key |-> h, value |-> r, conditions |-> {}])
    ELSE {cache}

\* diff: the raw derivative d of h is simplified at top level and the result kept.
Diff(h) ==
    /\ Computed(diff_cache, h)
    /\ \E d \in Exprs, r \in Results, subjects \in SUBSET Exprs :
         /\ Simplifies(Node(d), r, subjects, FALSE)
         /\ Make({d} \cup ({r.expr} \cap Exprs) \cup subjects)
         /\ diff_cache' \in Memo(Current(diff_cache), h, r)
    /\ integrate_cache' = Current(integrate_cache)
    /\ UNCHANGED <<modeVars, factVars>>

\* integrate: one operation, under which the simplify of a part d is nested.  A null it
\* yields is refused before it is kept.
Integrate(h) ==
    /\ Computed(integrate_cache, h)
    /\ \E d \in Exprs, r \in Results, subjects \in SUBSET Exprs :
         /\ Simplifies(Node(d), r, subjects, TRUE)
         /\ Make({d} \cup ({r.expr} \cap Exprs) \cup subjects)
         /\ integrate_cache' \in IF r = Null THEN {Current(integrate_cache)}
                                ELSE Memo(Current(integrate_cache), h, r)
    /\ diff_cache' = Current(diff_cache)
    /\ UNCHANGED <<modeVars, factVars>>

\* An operation that runs out of memory returns an error: it may have started a new
\* trace and accumulator and left something in them, and a simplify that succeeded
\* before the failure may have left its entry.
Fails ==
    \E es \in SUBSET Exprs :
        /\ OutOfMemory(es)
        /\ LET made == {Node(e) : e \in interned'} IN
             \/ UNCHANGED <<trace, side_conditions, cacheVars, revised>>
             \/ /\ side_conditions' \in SUBSET made
                /\ trace' \in IF trace_enabled THEN SUBSET made ELSE {{}}
                /\ revised' = FALSE
                /\ \/ simplify_cache' = Current(simplify_cache)
                   \/ /\ Usable
                      /\ \E h, r \in made, conditions \in SUBSET side_conditions' :
                           simplify_cache' \in
                               Stored(Current(simplify_cache),
                                      [key |-> h, value |-> r, conditions |-> conditions])
                /\ diff_cache' = Current(diff_cache) /\ integrate_cache' = Current(integrate_cache)
        /\ UNCHANGED <<modeVars, factVars>>

-----------------------------------------------------------------------------
(* The client. *)

Parse(e) == Make({e}) /\ UNCHANGED <<factVars, modeVars, cacheVars, trace, side_conditions, revised>>

Define(n, h) ==
    /\ variables' = [variables EXCEPT ![n] = h]
    /\ UNCHANGED <<ranges, relations, discarded, roots, memoryVars, modeVars, cacheVars, trace,
                   side_conditions, revised>>

ClearVariables ==
    /\ variables' = [n \in Names |-> None]
    /\ UNCHANGED <<ranges, relations, discarded, roots, memoryVars, modeVars, cacheVars, trace,
                   side_conditions, revised>>

\* The revision moves with every assumption; it restarts at zero with clear_assumptions,
\* so that it may be by chance the one the last simplify saw (Session counts it).
AssumeInRange(s, lower, upper) ==
    /\ ranges' = [ranges EXCEPT ![s] = <<lower, upper>>] /\ revised' \in BOOLEAN
    /\ UNCHANGED <<variables, relations, discarded, roots, memoryVars, modeVars, cacheVars, trace,
                   side_conditions>>

\* g > h or g >= h: the key is h, a zero of either side is stored as null.
Assume(h, g) ==
    /\ relations' = relations \cup {<<h, g>>} /\ revised' \in BOOLEAN
    /\ UNCHANGED <<variables, ranges, discarded, roots, memoryVars, modeVars, cacheVars, trace,
                   side_conditions>>

\* assume_domain(s, Natural): the relation keeps the address of the client's own symbol.
\* (Bound: no second object of a name while one that is gone is still pointed at.)
AssumeNatural(s) ==
    /\ s \notin discarded
    /\ relations' = relations \cup {<<Null, Borrowed(s)>>} /\ revised' \in BOOLEAN
    /\ UNCHANGED <<variables, ranges, discarded, roots, memoryVars, modeVars, cacheVars, trace,
                   side_conditions>>

\* The client's symbol goes out of scope.
Discard(s) ==
    /\ <<Null, Borrowed(s)>> \in relations
    /\ discarded' = discarded \cup {s}
    /\ UNCHANGED <<variables, ranges, relations, roots, memoryVars, modeVars, cacheVars, trace,
                   side_conditions, revised>>

ClearAssumptions ==
    /\ ranges' = [s \in Symbols |-> None] /\ relations' = {} /\ discarded' = {} /\ revised' \in BOOLEAN
    /\ UNCHANGED <<variables, roots, memoryVars, modeVars, cacheVars, trace, side_conditions>>

Register(h) ==
    /\ roots' = roots \cup {h}
    /\ UNCHANGED <<variables, ranges, relations, discarded, memoryVars, modeVars, cacheVars, trace,
                   side_conditions, revised>>

Release ==
    /\ roots' = {}
    /\ UNCHANGED <<variables, ranges, relations, discarded, memoryVars, modeVars, cacheVars, trace,
                   side_conditions, revised>>

\* Fault: the trace is only hidden, not emptied, when it is disabled.
EnableTraceKeeps(enabled) ==
    /\ trace_enabled' = enabled /\ UNCHANGED trace
    /\ UNCHANGED <<factVars, memoryVars, caching_enabled, limit, cacheVars, side_conditions, revised>>

EnableTrace(enabled) ==
    /\ trace_enabled' = enabled
    /\ trace' = IF enabled THEN trace ELSE {}
    /\ UNCHANGED <<factVars, memoryVars, caching_enabled, limit, cacheVars, side_conditions, revised>>

Emptied == simplify_cache' = {} /\ diff_cache' = {} /\ integrate_cache' = {}

ClearCaches == Emptied /\ UNCHANGED <<factVars, memoryVars, modeVars, trace, side_conditions, revised>>

SetCachingEnabled(enabled) ==
    /\ caching_enabled' = enabled
    /\ IF enabled THEN UNCHANGED cacheVars ELSE Emptied
    /\ UNCHANGED <<factVars, memoryVars, trace_enabled, limit, trace, side_conditions, revised>>

SetCacheLimit(n) ==
    /\ limit' = n
    /\ simplify_cache' \in Cut(simplify_cache, n)
    /\ diff_cache' \in Cut(diff_cache, n)
    /\ integrate_cache' \in Cut(integrate_cache, n)
    /\ UNCHANGED <<factVars, memoryVars, trace_enabled, caching_enabled, trace, side_conditions, revised>>

-----------------------------------------------------------------------------
(* The collector.  Clone copies the expression of a pointer into the new   *)
(* arena, which has no budget yet; the accounting of the old one is kept.  *)
(* Once a bucket of the new arena is too long, it refuses what it does not *)
(* hold by then (AstArena), and the clone is null.  A symbol the client    *)
(* has destroyed reads as anything, if it can be read at all.              *)

Named         == {variables[n] : n \in Names} \ {None}
Bounds        == UNION {{ranges[s][1], ranges[s][2]} : s \in {t \in Symbols : ranges[t] # None}}
Keys          == {p[1] : p \in relations}
Targets       == {p[2] : p \in relations}
PointersIn(c) == {e.key : e \in c} \cup {e.value : e \in c} \cup UNION {e.conditions : e \in c}

\* What the arenas the session and the client use must hold, and what is cloned of it.
Reached == Named \cup Bounds \cup Keys \cup Targets \cup trace \cup roots \cup side_conditions
           \cup PointersIn(simplify_cache) \cup PointersIn(diff_cache) \cup PointersIn(integrate_cache)
Cloned  == IF trace_enabled THEN Reached ELSE Reached \ trace

Reading(h, copy) == IF h.arena = Client /\ h.expr \in discarded THEN copy.ghosts[h.expr] ELSE h.expr

Wanted(copy) == {Reading(h, copy) : h \in Cloned \ {Null}}

Copies ==
    {copy \in [lost : SUBSET Exprs, ghosts : [discarded -> Exprs]] :
        copy.lost # {} => /\ copy.lost \subseteq Wanted(copy)
                          /\ Cardinality(Wanted(copy) \ copy.lost) > MaxChain}

\* Fault: the clone of a null is not null.
CloneUnguarded(h, copy) ==
    IF Reading(h, copy) \in copy.lost THEN Null ELSE [expr |-> Reading(h, copy), arena |-> arena + 1]

Clone(h, copy) ==
    IF h = Null \/ Reading(h, copy) \in copy.lost THEN Null
    ELSE [expr |-> Reading(h, copy), arena |-> arena + 1]

CloneAll(hs, copy) == {Clone(h, copy) : h \in hs}

\* A table is rebuilt key by key: of the keys that have become one, the last survives.
Survivors(keys, copy) ==
    {kept \in SUBSET keys : /\ \A k \in keys : \E m \in kept : Clone(k, copy) = Clone(m, copy)
                            /\ \A k, m \in kept : Clone(k, copy) = Clone(m, copy) => k = m}

CloneEntry(e, copy) ==
    [key |-> Clone(e.key, copy), value |-> Clone(e.value, copy), conditions |-> CloneAll(e.conditions, copy)]

\* Fault: the rebuilt entries have lost their conditions.
CloneBareCache(c, copy) ==
    {{[CloneEntry(e, copy) EXCEPT !.conditions = {}] : e \in {f \in c : f.key \in kept}} :
        kept \in Survivors({e.key : e \in c}, copy)}

CloneCache(c, copy) ==
    {{CloneEntry(e, copy) : e \in {f \in c : f.key \in kept}} : kept \in Survivors({e.key : e \in c}, copy)}

\* update_roots.
CloneRelations(copy) ==
    {{<<Clone(p[1], copy), Clone(p[2], copy)>> : p \in {q \in relations : q[1] \in kept}} :
        kept \in Survivors(Keys, copy)}

\* Fault: the nodes of the old arena are given back, the copies are not charged.
NodesGivenBack == counted' = counted - Cardinality(interned) /\ UNCHANGED exhausted

\* The move assignment of the arena does not touch the accounting.
AccountingKept == UNCHANGED <<counted, exhausted>>

CollectGarbage ==
    /\ arena < MaxCollections
    /\ \E copy \in Copies :
         /\ variables' = [n \in Names |-> IF variables[n] = None THEN None ELSE Clone(variables[n], copy)]
         /\ ranges' = [s \in Symbols |->
                IF ranges[s] = None THEN None ELSE <<Clone(ranges[s][1], copy), Clone(ranges[s][2], copy)>>]
         /\ relations' \in CloneRelations(copy)
         /\ trace' = IF trace_enabled THEN CloneAll(trace, copy) ELSE trace
         /\ roots' = CloneAll(roots, copy)
         /\ simplify_cache' \in CloneCache(simplify_cache, copy)
         /\ side_conditions' = CloneAll(side_conditions, copy)
         /\ diff_cache' \in CloneCache(diff_cache, copy)
         /\ integrate_cache' \in CloneCache(integrate_cache, copy)
         /\ interned' = Wanted(copy) \ copy.lost
    /\ arena' = arena + 1 /\ discarded' = {}
    /\ uncharged' = interned' \ (interned \ uncharged)
    /\ AccountingKept /\ UNCHANGED <<modeVars, revised>>

Next ==
    \/ \E h \in Live : Simplify(h) \/ Diff(h) \/ Integrate(h)
    \/ Fails
    \/ \E e \in Exprs : Parse(e)
    \/ \E h \in Live : \E n \in Names : Define(n, h)
    \/ \E s \in Symbols : AssumeNatural(s) \/ Discard(s) \/ \E h, g \in Live : AssumeInRange(s, h, g)
    \/ \E h, g \in Live \cup {Null} : Assume(h, g)
    \/ \E h \in Live : Register(h)
    \/ ClearVariables \/ ClearAssumptions \/ ClearCaches \/ Release
    \/ \E enabled \in BOOLEAN : EnableTrace(enabled) \/ SetCachingEnabled(enabled)
    \/ \E n \in Limits : SetCacheLimit(n)
    \/ CollectGarbage

Spec == Init /\ [][Next]_vars

-----------------------------------------------------------------------------
(* Properties. *)

\* The fields of the session have their types: a pointer is null or points at something.
TypeOK ==
    /\ arena \in 0 .. MaxCollections /\ interned \subseteq Exprs /\ uncharged \subseteq interned
    /\ counted \in Nat /\ exhausted \in BOOLEAN
    /\ variables \in [Names -> Pointer \cup {None}]
    /\ ranges \in [Symbols -> (Pointer \X Pointer) \cup {None}]
    /\ relations \subseteq Pointer \X Pointer /\ discarded \subseteq Symbols
    /\ trace \subseteq Pointer /\ roots \subseteq Pointer /\ side_conditions \subseteq Pointer
    /\ revised \in BOOLEAN /\ trace_enabled \in BOOLEAN /\ caching_enabled \in BOOLEAN /\ limit \in Limits
    /\ {simplify_cache, diff_cache, integrate_cache} \subseteq SUBSET Entry

\* No pointer of the session or of the client leads outside the current arena, but for
\* the targets of relations that assume_domain pointed at symbols of the client, which
\* dangle once the client has destroyed them: a collection replaces every pointer and no
\* operation brings an old one back.
NoDangling ==
    /\ Named \cup Bounds \cup Keys \cup trace \cup roots \cup side_conditions
       \cup PointersIn(simplify_cache) \cup PointersIn(diff_cache) \cup PointersIn(integrate_cache)
       \subseteq Live \cup {Null}
    /\ Targets \subseteq Live \cup {Null} \cup {Borrowed(s) : s \in Symbols}

\* The live arena stays within the budget although a collection fills its new arena
\* without one and keeps the accounting of the old; only the symbols it copies out of
\* the memory of the client come on top.
MemoryWithinBudget == Cardinality(interned \ uncharged) <= counted /\ counted <= Budget

\* No cache holds more entries than the limit, or two answers for one expression.
CachesWithinLimit ==
    \A c \in {simplify_cache, diff_cache, integrate_cache} :
        /\ Cardinality(c) <= limit
        /\ \A e, f \in c : e.key.expr = f.key.expr => e = f

\* What the client can ask of a session that concerns the expressions of S only, up to
\* where the expressions lie; the relations apart.
ExprsOf(hs) == {h.expr : h \in hs}

Defined(v, S) == {<<n, v[n].expr>> : n \in {m \in Names : v[m] # None /\ v[m].expr \in S}}
Bounded(r, S) == {<<s, r[s][1].expr, r[s][2].expr>> :
                     s \in {t \in Symbols : r[t] # None /\ r[t][1].expr \in S /\ r[t][2].expr \in S}}
Answers(c, S) == {<<e.key.expr, e.value.expr, ExprsOf(e.conditions)>> :
                     e \in {f \in c : /\ f.key.expr \in S /\ f.value.expr \in S
                                     /\ ExprsOf(f.conditions) \subseteq S}}

View(S) ==
    <<Defined(variables, S), Bounded(ranges, S),
      ExprsOf(trace) \cap S, ExprsOf(roots) \cap S, ExprsOf(side_conditions) \cap S,
      Answers(simplify_cache, S), Answers(diff_cache, S), Answers(integrate_cache, S)>>

Related(S) == {<<p[1].expr, p[2].expr>> : p \in relations} \cap (S \X S)

InUse   == {h.expr : h \in Reached \ {Null}}
Anything == Exprs \cup {Nothing}

\* A collection gives no answer it was not given: definitions, assumptions, trace,
\* conditions and memoised results that have no null in them afterwards are those it
\* has copied whole.  When the new arena takes everything in use, nothing changes at
\* all.  Of the relations neither can be said once they point at a destroyed symbol.
CollectionKeepsAnswers ==
    [][arena' # arena =>
         /\ Reached' \subseteq Live' \cup {Null}
         /\ View(Exprs)' = View(interned')
         /\ discarded = {} => Related(Exprs)' = Related(interned')
         /\ InUse \subseteq interned' => /\ View(Anything)' = View(Anything)
                                         /\ discarded = {} => Related(Anything)' = Related(Anything)]_vars
=============================================================================
