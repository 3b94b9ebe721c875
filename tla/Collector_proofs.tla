-------------------------- MODULE Collector_proofs --------------------------
(***************************************************************************)
(* Proofs about the collector of a session, for every set of expressions,  *)
(* names and limits and every budget: no pointer dangles, the arena stays  *)
(* within its budget, a collection changes no answer, and no cache exceeds *)
(* its limit.                                                              *)
(***************************************************************************)
EXTENDS Collector, FiniteSetTheorems, TLAPS

(* What the session keeps: live pointers and nulls, and symbols of the client. *)
Kept       == Live \cup {Null}
Borrowings == {Borrowed(s) : s \in Symbols}

(* Entries and caches that point into the arena or are null. *)
EntryKept(e) == e.key \in Kept /\ e.value \in Kept /\ e.conditions \subseteq Kept
CacheKept(c) == \A e \in c : EntryKept(e)

Facts ==
    /\ \A n \in Names : variables[n] \in Kept \cup {None}
    /\ \A s \in Symbols : ranges[s] \in (Kept \X Kept) \cup {None}
    /\ relations \subseteq Kept \X (Kept \cup Borrowings)
    /\ roots \subseteq Kept

Pieces ==
    /\ Facts
    /\ trace \subseteq Kept /\ side_conditions \subseteq Kept
    /\ CacheKept(simplify_cache) /\ CacheKept(diff_cache) /\ CacheKept(integrate_cache)

(* A disabled trace is empty, which is why a collection may pass over it. *)
HiddenTraceEmpty == ~trace_enabled => trace = {}

IInv == TypeOK /\ Pieces /\ HiddenTraceEmpty

(* The types of the facts. *)
FactsTyped ==
    /\ variables \in [Names -> Pointer \cup {None}]
    /\ ranges \in [Symbols -> (Pointer \X Pointer) \cup {None}]
    /\ relations \subseteq Pointer \X Pointer /\ discarded \subseteq Symbols /\ roots \subseteq Pointer

(* No piece of a session dangles. *)
LEMMA PiecesAreReached == IInv => NoDangling
<1> SUFFICES ASSUME IInv PROVE NoDangling
  OBVIOUS
<1>0. Kept = Live \cup {Null} /\ Borrowings = {Borrowed(s) : s \in Symbols}
  BY DEF Kept, Borrowings
<1>1. /\ \A n \in Names : variables[n] \in Kept \cup {None}
      /\ \A s \in Symbols : ranges[s] \in (Kept \X Kept) \cup {None}
      /\ relations \subseteq Kept \X (Kept \cup Borrowings)
      /\ roots \subseteq Kept /\ trace \subseteq Kept /\ side_conditions \subseteq Kept
      /\ CacheKept(simplify_cache) /\ CacheKept(diff_cache) /\ CacheKept(integrate_cache)
  BY DEF IInv, Pieces, Facts
<1>2. Named \subseteq Kept
  BY <1>1 DEF Named
<1>3. Bounds \subseteq Kept
  <2>1. \A s \in Symbols : ranges[s] # None => ranges[s][1] \in Kept /\ ranges[s][2] \in Kept
    BY <1>1
  <2> QED
    BY <2>1 DEF Bounds
<1>4. Keys \subseteq Kept /\ Targets \subseteq Kept \cup Borrowings
  BY <1>1 DEF Keys, Targets
<1>5. ASSUME NEW c, CacheKept(c) PROVE PointersIn(c) \subseteq Kept
  BY <1>5 DEF PointersIn, CacheKept, EntryKept
<1> QED
  BY <1>0, <1>1, <1>2, <1>3, <1>4, <1>5 DEF NoDangling

LEMMA InitInv == Init => IInv
<1> SUFFICES ASSUME Init PROVE IInv
  OBVIOUS
<1>1. TypeOK
  <2>1. arena \in 0 .. MaxCollections /\ counted \in Nat /\ limit \in Limits
    BY CollectorAssumption DEF Init
  <2>2. /\ variables \in [Names -> Pointer \cup {None}]
        /\ ranges \in [Symbols -> (Pointer \X Pointer) \cup {None}]
    BY DEF Init
  <2>3. {simplify_cache, diff_cache, integrate_cache} \subseteq SUBSET Entry
    BY DEF Init
  <2> QED
    BY <2>1, <2>2, <2>3 DEF Init, TypeOK
<1>2. Pieces /\ HiddenTraceEmpty
  BY DEF Init, Pieces, Facts, HiddenTraceEmpty, CacheKept
<1> QED
  BY <1>1, <1>2 DEF IInv

(* What may be kept in the next state, when its fields have their types. *)
LEMMA NextKept ==
    ASSUME arena' \in Nat, interned' \subseteq Exprs
    PROVE  Kept' \subseteq Pointer
BY DEF Kept, Live, Node, Pointer, Null

(* While the arena stays and no node goes, what was kept may be. *)
LEMMA KeptGrows ==
    ASSUME arena' = arena, interned \subseteq interned'
    PROVE  Kept \subseteq Kept' /\ Live \subseteq Live' /\ Live' \subseteq Kept' /\ Null \in Kept'
BY DEF Kept, Live, Node, Null

(* Making nodes: the arena grows and is typed, and the nodes are live. *)
LEMMA MakeStep ==
    ASSUME TypeOK, NEW es \in SUBSET Exprs, Make(es)
    PROVE  /\ arena' = arena /\ exhausted' = exhausted /\ interned' = interned \cup es
           /\ arena' \in 0 .. MaxCollections /\ interned' \subseteq Exprs /\ counted' \in Nat
           /\ uncharged' \subseteq interned'
           /\ Kept \subseteq Kept' /\ Live \subseteq Live' /\ Kept' \subseteq Pointer
           /\ Live' \subseteq Kept' /\ Null \in Kept'
           /\ \A e \in es : Node(e) \in Live'
<1>1. IsFiniteSet(es \ interned) /\ Cardinality(es \ interned) \in Nat
  BY CollectorAssumption, FS_Subset, FS_CardinalityType
<1>2. arena' = arena /\ exhausted' = exhausted /\ interned' = interned \cup es /\ uncharged' = uncharged
  BY DEF Make
<1>3. interned' \subseteq Exprs /\ counted' \in Nat /\ arena' \in 0 .. MaxCollections
      /\ uncharged' \subseteq interned'
  BY <1>1, <1>2 DEF Make, TypeOK
<1>4. /\ Kept \subseteq Kept' /\ Live \subseteq Live' /\ Kept' \subseteq Pointer
      /\ Live' \subseteq Kept' /\ Null \in Kept'
  BY <1>2, <1>3, KeptGrows, NextKept
<1>5. \A e \in es : Node(e) \in Live'
  BY <1>2 DEF Node, Live
<1> QED
  BY <1>2, <1>3, <1>4, <1>5

(* The nodes of an operation: its result too, unless that is null. *)
LEMMA ResultKept ==
    ASSUME TypeOK, NEW r \in Results, NEW es \in SUBSET Exprs, Make(({r.expr} \cap Exprs) \cup es)
    PROVE  r \in Kept'
<1>1. CASE r = Null
  BY <1>1 DEF Kept
<1>2. CASE r # Null
  <2>1. PICK e \in Exprs : r = Node(e)
    BY <1>2 DEF Results
  <2>2. e \in ({r.expr} \cap Exprs) \cup es /\ ({r.expr} \cap Exprs) \cup es \in SUBSET Exprs
    BY <2>1 DEF Node
  <2> QED
    BY <2>1, <2>2, MakeStep DEF Kept
<1> QED
  BY <1>1, <1>2

(* Running out of memory likewise. *)
LEMMA OutOfMemoryStep ==
    ASSUME TypeOK, NEW es \in SUBSET Exprs, OutOfMemory(es)
    PROVE  /\ arena' = arena /\ exhausted' \in BOOLEAN
           /\ arena' \in 0 .. MaxCollections /\ interned' \subseteq Exprs /\ counted' \in Nat
           /\ uncharged' \subseteq interned'
           /\ Kept \subseteq Kept' /\ Kept' \subseteq Pointer /\ Live' \subseteq Kept'
<1>1. PICK part \in SUBSET (es \ interned) :
        /\ interned' = interned \cup part
        /\ counted' = counted + Cardinality(part)
  BY DEF OutOfMemory
<1>2. IsFiniteSet(part) /\ Cardinality(part) \in Nat
  BY CollectorAssumption, FS_Subset, FS_CardinalityType
<1>3. arena' = arena /\ exhausted' \in BOOLEAN /\ interned' \subseteq Exprs /\ counted' \in Nat
      /\ arena' \in 0 .. MaxCollections /\ uncharged' \subseteq interned'
  BY <1>1, <1>2 DEF OutOfMemory, TypeOK
<1> QED
  BY <1>1, <1>3, KeptGrows, NextKept

(* A cache after a put holds entries it had, and the new one. *)
LEMMA StoredIsWithin ==
    ASSUME NEW cache, NEW entry, NEW next \in Stored(cache, entry)
    PROVE  next \subseteq cache \cup {entry}
BY DEF Stored, Cut, Cached

LEMMA StoredKept ==
    ASSUME NEW cache \in SUBSET Entry, CacheKept(cache), Kept \subseteq Kept',
           NEW entry \in Entry, entry.key \in Kept', entry.value \in Kept',
           entry.conditions \subseteq Kept', NEW next \in Stored(cache, entry)
    PROVE  next \subseteq Entry
           /\ \A e \in next : e.key \in Kept' /\ e.value \in Kept' /\ e.conditions \subseteq Kept'
BY StoredIsWithin DEF CacheKept, EntryKept

(* What a simplify finds of a cache is part of it. *)
LEMMA CurrentKept ==
    ASSUME NEW cache \in SUBSET Entry, CacheKept(cache)
    PROVE  Current(cache) \in SUBSET Entry /\ CacheKept(Current(cache))
BY DEF Current, CacheKept

(* A simplify leaves only pointers that may be kept. *)
LEMMA SimplifiesStep ==
    ASSUME IInv, NEW nested \in BOOLEAN, NEW h \in Live', NEW r \in Kept',
           NEW subjects \in SUBSET Exprs, \A s \in subjects : Node(s) \in Live',
           Kept \subseteq Kept', Kept' \subseteq Pointer, Live' \subseteq Kept',
           Simplifies(h, r, subjects, nested)
    PROVE  /\ simplify_cache' \subseteq Entry /\ CacheKept(simplify_cache)'
           /\ side_conditions' \subseteq Kept' /\ trace' \subseteq Kept'
           /\ (~trace_enabled => trace' = {}) /\ revised' = FALSE
<1> DEFINE before == IF nested THEN side_conditions ELSE {}
           taken  == {Node(s) : s \in subjects}
           cache  == Current(simplify_cache)
           hits   == IF Usable THEN Cached(cache, h) ELSE {}
<1>2. cache \subseteq Entry /\ CacheKept(cache) /\ side_conditions \subseteq Kept
      /\ trace \subseteq Kept /\ (~trace_enabled => trace = {})
      /\ simplify_cache \subseteq Entry /\ CacheKept(simplify_cache)
  BY CurrentKept DEF IInv, TypeOK, Pieces, HiddenTraceEmpty
<1>3. before \subseteq Kept' /\ taken \subseteq Kept'
  BY <1>2
<1>4. ASSUME \E c \in hits : /\ r = c.value /\ subjects = {}
                             /\ side_conditions' = before \cup c.conditions
                             /\ UNCHANGED <<trace, simplify_cache>>
      PROVE  /\ simplify_cache' \subseteq Entry /\ CacheKept(simplify_cache)'
             /\ side_conditions' \subseteq Kept' /\ trace' \subseteq Kept'
             /\ ~trace_enabled => trace' = {}
  <2>1. PICK c \in cache : side_conditions' = before \cup c.conditions
    BY <1>4 DEF Cached
  <2>2. c.conditions \subseteq Kept
    BY <1>2 DEF CacheKept, EntryKept
  <2>3. CacheKept(simplify_cache)'
    BY <1>2, <1>4 DEF CacheKept, EntryKept
  <2> QED
    BY <1>2, <1>3, <1>4, <2>1, <2>2, <2>3
<1>5. ASSUME /\ side_conditions' = before \cup taken
             /\ trace' = Traced(h, r)
             /\ simplify_cache' \in
                    IF Usable
                    THEN Stored(cache, [key |-> h, value |-> r, conditions |-> taken \ before])
                    ELSE {cache}
      PROVE  /\ simplify_cache' \subseteq Entry /\ CacheKept(simplify_cache)'
             /\ side_conditions' \subseteq Kept' /\ trace' \subseteq Kept'
             /\ ~trace_enabled => trace' = {}
  <2>0. side_conditions' \subseteq Kept'
    BY <1>3, <1>5
  <2>1. trace' \subseteq Kept' /\ (~trace_enabled => trace' = {})
    BY <1>5 DEF Traced
  <2>2. CASE Usable
    <3> DEFINE entry == [key |-> h, value |-> r, conditions |-> taken \ before]
    <3>1. entry \in Entry /\ entry.key \in Kept' /\ entry.value \in Kept' /\ entry.conditions \subseteq Kept'
      BY <1>3 DEF Entry
    <3>2. simplify_cache' \in Stored(cache, entry)
      BY <1>5, <2>2
    <3> HIDE DEF entry, cache
    <3>3. simplify_cache' \subseteq Entry /\ \A c \in simplify_cache' :
              c.key \in Kept' /\ c.value \in Kept' /\ c.conditions \subseteq Kept'
      BY <1>2, <3>1, <3>2, StoredKept
    <3> QED
      BY <2>0, <2>1, <3>3 DEF CacheKept, EntryKept
  <2>3. CASE ~Usable
    <3>1. simplify_cache' = cache
      BY <1>5, <2>3
    <3>2. CacheKept(simplify_cache)'
      BY <1>2, <3>1 DEF CacheKept, EntryKept
    <3> QED
      BY <1>2, <2>0, <2>1, <3>1, <3>2
  <2> QED
    BY <2>2, <2>3
<1> QED
  BY <1>4, <1>5 DEF Simplifies

(* What an operation leaves alone may be kept. *)
LEMMA FactsKept ==
    ASSUME IInv, Kept \subseteq Kept', UNCHANGED factVars
    PROVE  FactsTyped' /\ Facts'
<1>1. FactsTyped /\ Facts
  BY DEF IInv, TypeOK, Pieces, FactsTyped
<1>2. /\ variables' = variables /\ ranges' = ranges /\ relations' = relations
      /\ discarded' = discarded /\ roots' = roots
  BY DEF factVars
<1>3. FactsTyped'
  BY <1>1, <1>2 DEF FactsTyped
<1>4. Facts'
  <2>1. \A s \in Symbols : ranges'[s] \in (Kept' \X Kept') \cup {None}
    BY <1>1, <1>2 DEF Facts
  <2>2. relations' \subseteq Kept' \X (Kept' \cup Borrowings)
    BY <1>1, <1>2 DEF Facts
  <2>3. Borrowings' = Borrowings
    BY DEF Borrowings, Borrowed
  <2> QED
    BY <1>1, <1>2, <2>1, <2>2, <2>3 DEF Facts
<1> QED
  BY <1>3, <1>4

LEMMA CacheStays ==
    ASSUME NEW c, CacheKept(c), Kept \subseteq Kept'
    PROVE  \A e \in c : e.key \in Kept' /\ e.value \in Kept' /\ e.conditions \subseteq Kept'
BY DEF CacheKept, EntryKept

(* The invariant of the next state, piece by piece. *)
LEMMA Assemble ==
    ASSUME /\ arena' \in 0 .. MaxCollections /\ interned' \subseteq Exprs /\ uncharged' \subseteq interned'
           /\ counted' \in Nat /\ exhausted' \in BOOLEAN /\ Kept' \subseteq Pointer,
           FactsTyped', Facts',
           trace' \subseteq Kept' /\ side_conditions' \subseteq Kept',
           revised' \in BOOLEAN /\ trace_enabled' \in BOOLEAN /\ caching_enabled' \in BOOLEAN /\ limit' \in Limits,
           ~trace_enabled' => trace' = {},
           simplify_cache' \subseteq Entry /\ diff_cache' \subseteq Entry /\ integrate_cache' \subseteq Entry,
           CacheKept(simplify_cache)', CacheKept(diff_cache)', CacheKept(integrate_cache)'
    PROVE  IInv'
<1>1. TypeOK'
  BY DEF TypeOK, FactsTyped
<1>2. Pieces' /\ HiddenTraceEmpty'
  BY DEF Pieces, HiddenTraceEmpty
<1> QED
  BY <1>1, <1>2 DEF IInv

(* The operations that compute. *)
LEMMA SimplifyStep == ASSUME IInv, NEW h \in Live, Simplify(h) PROVE IInv'
<1>1. PICK r \in Results, subjects \in SUBSET Exprs :
        /\ Simplifies(h, r, subjects, FALSE) /\ Make(({r.expr} \cap Exprs) \cup subjects)
        /\ diff_cache' = Current(diff_cache) /\ integrate_cache' = Current(integrate_cache)
        /\ UNCHANGED <<modeVars, factVars>>
  BY DEF Simplify
<1>2. /\ arena' \in 0 .. MaxCollections /\ interned' \subseteq Exprs /\ counted' \in Nat
      /\ uncharged' \subseteq interned' /\ exhausted' = exhausted
      /\ Kept' \subseteq Pointer /\ Kept \subseteq Kept' /\ Live \subseteq Live' /\ Live' \subseteq Kept'
      /\ \A s \in subjects : Node(s) \in Live'
  <2>1. ({r.expr} \cap Exprs) \cup subjects \in SUBSET Exprs /\ TypeOK
    BY DEF IInv
  <2> QED
    BY <1>1, <2>1, MakeStep
<1>3. h \in Live' /\ r \in Kept'
  BY <1>1, <1>2, ResultKept DEF IInv
<1>4. /\ simplify_cache' \subseteq Entry /\ CacheKept(simplify_cache)'
      /\ side_conditions' \subseteq Kept' /\ trace' \subseteq Kept' /\ (~trace_enabled => trace' = {})
      /\ revised' = FALSE
  BY <1>1, <1>2, <1>3, SimplifiesStep
<1>5. diff_cache' = Current(diff_cache) /\ integrate_cache' = Current(integrate_cache) /\ UNCHANGED factVars
      /\ trace_enabled' = trace_enabled /\ caching_enabled' = caching_enabled /\ limit' = limit
  BY <1>1 DEF modeVars
<1>6. /\ CacheKept(diff_cache)' /\ CacheKept(integrate_cache)'
      /\ diff_cache' \subseteq Entry /\ integrate_cache' \subseteq Entry
  BY <1>2, <1>5, CurrentKept DEF IInv, TypeOK, Pieces, CacheKept, EntryKept
<1> QED
  BY <1>2, <1>4, <1>5, <1>6, FactsKept, Assemble DEF IInv, TypeOK

(* The calculus caches after a miss. *)
LEMMA MemoStep ==
    ASSUME TypeOK, NEW cache \in SUBSET Entry, CacheKept(cache), Kept \subseteq Kept', Kept' \subseteq Pointer,
           NEW h \in Kept', NEW r \in Kept', NEW next \in Memo(cache, h, r)
    PROVE  next \subseteq Entry
           /\ \A c \in next : c.key \in Kept' /\ c.value \in Kept' /\ c.conditions \subseteq Kept'
<1>1. CASE caching_enabled
  <2> DEFINE entry == [key |-> h, value |-> r, conditions |-> {}]
  <2>1. entry \in Entry /\ entry.key \in Kept' /\ entry.value \in Kept' /\ entry.conditions \subseteq Kept'
    BY DEF Entry
  <2>2. next \in Stored(cache, entry)
    BY <1>1 DEF Memo
  <2> HIDE DEF entry
  <2> QED
    BY <2>1, <2>2, StoredKept
<1>2. CASE ~caching_enabled
  BY <1>2, CacheStays DEF Memo
<1> QED
  BY <1>1, <1>2

(* What diff and integrate have in common: nodes for the part d they simplify, for *)
(* the result and for the conditions, and the simplify cache after that.           *)
LEMMA NestedStep ==
    ASSUME IInv, NEW d \in Exprs, NEW r \in Results, NEW subjects \in SUBSET Exprs, NEW nested \in BOOLEAN,
           Simplifies(Node(d), r, subjects, nested), Make({d} \cup ({r.expr} \cap Exprs) \cup subjects)
    PROVE  /\ arena' \in 0 .. MaxCollections /\ interned' \subseteq Exprs /\ counted' \in Nat
           /\ uncharged' \subseteq interned' /\ exhausted' = exhausted
           /\ Kept' \subseteq Pointer /\ Kept \subseteq Kept' /\ Live \subseteq Live' /\ Live' \subseteq Kept'
           /\ r \in Kept'
           /\ simplify_cache' \subseteq Entry /\ CacheKept(simplify_cache)'
           /\ side_conditions' \subseteq Kept' /\ trace' \subseteq Kept' /\ (~trace_enabled => trace' = {})
           /\ revised' = FALSE
<1> DEFINE es == {d} \cup ({r.expr} \cap Exprs) \cup subjects
<1>1. es \in SUBSET Exprs /\ Make(es) /\ TypeOK /\ d \in es /\ subjects \subseteq es
  BY DEF IInv
<1>2. r \in Kept'
  <2>1. ({r.expr} \cap Exprs) \cup es = es
    OBVIOUS
  <2> HIDE DEF es
  <2> QED
    BY <1>1, <2>1, ResultKept
<1> HIDE DEF es
<1>3. /\ arena' \in 0 .. MaxCollections /\ interned' \subseteq Exprs /\ counted' \in Nat
      /\ uncharged' \subseteq interned' /\ exhausted' = exhausted
      /\ Kept' \subseteq Pointer /\ Kept \subseteq Kept' /\ Live \subseteq Live' /\ Live' \subseteq Kept'
      /\ Node(d) \in Live' /\ \A s \in subjects : Node(s) \in Live'
  BY <1>1, MakeStep
<1> QED
  BY <1>2, <1>3, SimplifiesStep

LEMMA DiffStep == ASSUME IInv, NEW h \in Live, Diff(h) PROVE IInv'
<1>1. PICK d \in Exprs, r \in Results, subjects \in SUBSET Exprs :
        /\ Simplifies(Node(d), r, subjects, FALSE) /\ Make({d} \cup ({r.expr} \cap Exprs) \cup subjects)
        /\ diff_cache' \in Memo(Current(diff_cache), h, r)
  BY DEF Diff
<1>2. /\ arena' \in 0 .. MaxCollections /\ interned' \subseteq Exprs /\ counted' \in Nat
      /\ uncharged' \subseteq interned' /\ exhausted' = exhausted
      /\ Kept' \subseteq Pointer /\ Kept \subseteq Kept' /\ h \in Kept' /\ r \in Kept'
      /\ simplify_cache' \subseteq Entry /\ CacheKept(simplify_cache)'
      /\ side_conditions' \subseteq Kept' /\ trace' \subseteq Kept' /\ (~trace_enabled => trace' = {})
      /\ revised' = FALSE
  BY <1>1, NestedStep
<1>4. integrate_cache' = Current(integrate_cache) /\ UNCHANGED factVars
      /\ trace_enabled' = trace_enabled /\ caching_enabled' = caching_enabled /\ limit' = limit
  BY DEF Diff, modeVars
<1>5. CacheKept(integrate_cache)' /\ integrate_cache' \subseteq Entry
  BY <1>2, <1>4, CurrentKept DEF IInv, TypeOK, Pieces, CacheKept, EntryKept
<1>6. Current(diff_cache) \in SUBSET Entry /\ CacheKept(Current(diff_cache)) /\ TypeOK
  BY CurrentKept DEF IInv, TypeOK, Pieces
<1>7. diff_cache' \subseteq Entry /\ CacheKept(diff_cache)'
  BY <1>1, <1>2, <1>6, MemoStep DEF CacheKept, EntryKept
<1> QED
  BY <1>2, <1>4, <1>5, <1>7, FactsKept, Assemble DEF IInv, TypeOK

LEMMA IntegrateStep == ASSUME IInv, NEW h \in Live, Integrate(h) PROVE IInv'
<1>1. PICK d \in Exprs, r \in Results, subjects \in SUBSET Exprs :
        /\ Simplifies(Node(d), r, subjects, TRUE) /\ Make({d} \cup ({r.expr} \cap Exprs) \cup subjects)
        /\ integrate_cache' \in IF r = Null THEN {Current(integrate_cache)}
                               ELSE Memo(Current(integrate_cache), h, r)
  BY DEF Integrate
<1>2. /\ arena' \in 0 .. MaxCollections /\ interned' \subseteq Exprs /\ counted' \in Nat
      /\ uncharged' \subseteq interned' /\ exhausted' = exhausted
      /\ Kept' \subseteq Pointer /\ Kept \subseteq Kept' /\ h \in Kept' /\ r \in Kept'
      /\ simplify_cache' \subseteq Entry /\ CacheKept(simplify_cache)'
      /\ side_conditions' \subseteq Kept' /\ trace' \subseteq Kept' /\ (~trace_enabled => trace' = {})
      /\ revised' = FALSE
  BY <1>1, NestedStep
<1>4. diff_cache' = Current(diff_cache) /\ UNCHANGED factVars
      /\ trace_enabled' = trace_enabled /\ caching_enabled' = caching_enabled /\ limit' = limit
  BY DEF Integrate, modeVars
<1>5. CacheKept(diff_cache)' /\ diff_cache' \subseteq Entry
  BY <1>2, <1>4, CurrentKept DEF IInv, TypeOK, Pieces, CacheKept, EntryKept
<1>6. Current(integrate_cache) \in SUBSET Entry /\ CacheKept(Current(integrate_cache)) /\ TypeOK
  BY CurrentKept DEF IInv, TypeOK, Pieces
<1>7. integrate_cache' \subseteq Entry /\ CacheKept(integrate_cache)'
  <2>1. CASE r = Null
    BY <1>1, <1>2, <1>6, <2>1, CacheStays DEF CacheKept, EntryKept
  <2>2. CASE r # Null
    BY <1>1, <1>2, <1>6, <2>2, MemoStep DEF CacheKept, EntryKept
  <2> QED
    BY <2>1, <2>2
<1> QED
  BY <1>2, <1>4, <1>5, <1>7, FactsKept, Assemble DEF IInv, TypeOK

(* An operation that fails for lack of memory. *)
LEMMA FailsStep == ASSUME IInv, Fails PROVE IInv'
<1>1. PICK es \in SUBSET Exprs : OutOfMemory(es)
  BY DEF Fails
<1>2. /\ arena' = arena /\ exhausted' \in BOOLEAN
      /\ arena' \in 0 .. MaxCollections /\ interned' \subseteq Exprs /\ counted' \in Nat
      /\ uncharged' \subseteq interned'
      /\ Kept \subseteq Kept' /\ Kept' \subseteq Pointer /\ Live' \subseteq Kept'
  BY <1>1, OutOfMemoryStep DEF IInv
<1>3. /\ trace_enabled' = trace_enabled /\ caching_enabled' = caching_enabled /\ limit' = limit
      /\ UNCHANGED factVars
  BY DEF Fails, modeVars
<1>4. /\ trace \subseteq Kept /\ side_conditions \subseteq Kept /\ (~trace_enabled => trace = {})
      /\ simplify_cache \in SUBSET Entry /\ CacheKept(simplify_cache)
      /\ diff_cache \in SUBSET Entry /\ CacheKept(diff_cache)
      /\ integrate_cache \in SUBSET Entry /\ CacheKept(integrate_cache)
      /\ revised \in BOOLEAN
  BY DEF IInv, TypeOK, Pieces, HiddenTraceEmpty
<1>5. CASE UNCHANGED <<trace, side_conditions, cacheVars, revised>>
  <2>1. /\ simplify_cache' = simplify_cache /\ diff_cache' = diff_cache /\ integrate_cache' = integrate_cache
        /\ trace' = trace /\ side_conditions' = side_conditions /\ revised' = revised
    BY <1>5 DEF cacheVars
  <2>2. CacheKept(simplify_cache)' /\ CacheKept(diff_cache)' /\ CacheKept(integrate_cache)'
    BY <1>2, <1>4, <2>1 DEF CacheKept, EntryKept
  <2> QED
    BY <1>2, <1>3, <1>4, <2>1, <2>2, FactsKept, Assemble DEF IInv, TypeOK
<1>6. CASE ~UNCHANGED <<trace, side_conditions, cacheVars, revised>>
  <2>1. {Node(e) : e \in interned'} = Live'
    BY <1>2 DEF Live, Node
  <2>2. /\ side_conditions' \in SUBSET Live' /\ revised' = FALSE
        /\ trace' \in IF trace_enabled THEN SUBSET Live' ELSE {{}}
        /\ \/ simplify_cache' = Current(simplify_cache)
           \/ \E h, r \in Live', conditions \in SUBSET side_conditions' :
                simplify_cache' \in
                    Stored(Current(simplify_cache), [key |-> h, value |-> r, conditions |-> conditions])
        /\ diff_cache' = Current(diff_cache) /\ integrate_cache' = Current(integrate_cache)
    BY <1>6, <2>1 DEF Fails
  <2>3. simplify_cache' \subseteq Entry /\ CacheKept(simplify_cache)'
    <3> DEFINE cache == Current(simplify_cache)
    <3>1. cache \in SUBSET Entry /\ CacheKept(cache)
      BY <1>4, CurrentKept
    <3>2. CASE simplify_cache' = cache
      BY <1>2, <3>1, <3>2 DEF CacheKept, EntryKept
    <3>3. ASSUME NEW h \in Live', NEW r \in Live', NEW conditions \in SUBSET side_conditions',
                 simplify_cache' \in Stored(cache, [key |-> h, value |-> r, conditions |-> conditions])
          PROVE  simplify_cache' \subseteq Entry /\ CacheKept(simplify_cache)'
      <4> DEFINE entry == [key |-> h, value |-> r, conditions |-> conditions]
      <4>1. entry \in Entry /\ entry.key \in Kept' /\ entry.value \in Kept' /\ entry.conditions \subseteq Kept'
        BY <1>2, <2>2 DEF Entry
      <4>2. simplify_cache' \in Stored(cache, entry)
        BY <3>3
      <4> HIDE DEF entry, cache
      <4>3. simplify_cache' \subseteq Entry /\ \A c \in simplify_cache' :
                c.key \in Kept' /\ c.value \in Kept' /\ c.conditions \subseteq Kept'
        BY <1>2, <3>1, <4>1, <4>2, StoredKept
      <4> QED
        BY <4>3 DEF CacheKept, EntryKept
    <3> QED
      BY <2>2, <3>2, <3>3
  <2>4. /\ CacheKept(diff_cache)' /\ CacheKept(integrate_cache)'
        /\ diff_cache' \subseteq Entry /\ integrate_cache' \subseteq Entry
    BY <1>2, <1>4, <2>2, CurrentKept DEF CacheKept, EntryKept
  <2>5. trace' \subseteq Kept' /\ (~trace_enabled => trace' = {}) /\ side_conditions' \subseteq Kept'
    BY <1>2, <2>2
  <2> QED
    BY <1>2, <1>3, <2>2, <2>3, <2>4, <2>5, FactsKept, Assemble DEF IInv, TypeOK
<1> QED
  BY <1>5, <1>6

LEMMA ParseStep == ASSUME IInv, NEW x \in Exprs, Parse(x) PROVE IInv'
<1>1. /\ arena' \in 0 .. MaxCollections /\ interned' \subseteq Exprs /\ counted' \in Nat
      /\ exhausted' = exhausted /\ uncharged' \subseteq interned'
      /\ Kept' \subseteq Pointer /\ Kept \subseteq Kept'
  BY MakeStep DEF IInv, Parse
<1>2. /\ simplify_cache' = simplify_cache /\ diff_cache' = diff_cache /\ integrate_cache' = integrate_cache
      /\ trace_enabled' = trace_enabled /\ caching_enabled' = caching_enabled /\ limit' = limit
      /\ UNCHANGED factVars /\ trace' = trace /\ side_conditions' = side_conditions /\ revised' = revised
  BY DEF Parse, cacheVars, modeVars
<1>3. CacheKept(simplify_cache)' /\ CacheKept(diff_cache)' /\ CacheKept(integrate_cache)'
  BY <1>1, <1>2 DEF IInv, Pieces, CacheKept, EntryKept
<1>4. trace' \subseteq Kept' /\ side_conditions' \subseteq Kept' /\ (~trace_enabled' => trace' = {})
  BY <1>1, <1>2 DEF IInv, Pieces, HiddenTraceEmpty
<1> QED
  BY <1>1, <1>2, <1>3, <1>4, FactsKept, Assemble DEF IInv, TypeOK

(* The client's own steps leave the memory alone. *)
LEMMA MemoryKept ==
    ASSUME IInv, UNCHANGED memoryVars
    PROVE  /\ arena' \in 0 .. MaxCollections /\ interned' \subseteq Exprs /\ uncharged' \subseteq interned'
           /\ counted' \in Nat /\ exhausted' \in BOOLEAN /\ Kept' = Kept /\ Kept' \subseteq Pointer
<1>1. /\ arena' = arena /\ interned' = interned /\ counted' = counted /\ exhausted' = exhausted
      /\ uncharged' = uncharged
  BY DEF memoryVars
<1>2. Kept' = Kept
  BY <1>1 DEF Kept, Live, Node, Null
<1>3. Kept' \subseteq Pointer
  BY <1>1, NextKept DEF IInv, TypeOK
<1> QED
  BY <1>1, <1>2, <1>3 DEF IInv, TypeOK

LEMMA FactsStep ==
    ASSUME IInv, UNCHANGED <<memoryVars, modeVars, cacheVars, trace, side_conditions>>, revised' \in BOOLEAN,
           variables' \in [Names -> Kept \cup {None}],
           ranges' \in [Symbols -> (Kept \X Kept) \cup {None}],
           relations' \subseteq Kept \X (Kept \cup Borrowings),
           discarded' \subseteq Symbols, roots' \subseteq Kept
    PROVE  IInv'
<1>1. /\ simplify_cache' = simplify_cache /\ diff_cache' = diff_cache /\ integrate_cache' = integrate_cache
      /\ trace_enabled' = trace_enabled /\ caching_enabled' = caching_enabled /\ limit' = limit
      /\ trace' = trace /\ side_conditions' = side_conditions /\ UNCHANGED memoryVars
  BY DEF modeVars, cacheVars
<1>2. /\ arena' \in 0 .. MaxCollections /\ interned' \subseteq Exprs /\ uncharged' \subseteq interned'
      /\ counted' \in Nat /\ exhausted' \in BOOLEAN /\ Kept' = Kept /\ Kept' \subseteq Pointer
  BY <1>1, MemoryKept
<1>3. CacheKept(simplify_cache)' /\ CacheKept(diff_cache)' /\ CacheKept(integrate_cache)'
  BY <1>1, <1>2 DEF IInv, Pieces, CacheKept, EntryKept
<1>4. trace' \subseteq Kept' /\ side_conditions' \subseteq Kept' /\ (~trace_enabled' => trace' = {})
  BY <1>1, <1>2 DEF IInv, Pieces, HiddenTraceEmpty
<1>5. Borrowings' = Borrowings /\ Borrowings \subseteq Pointer
  BY CollectorAssumption DEF Borrowings, Borrowed, Pointer
<1>6. Facts'
  BY <1>2, <1>5 DEF Facts
<1>7. FactsTyped'
  <2>1. variables' \in [Names -> Pointer \cup {None}]
    BY <1>2
  <2>2. ranges' \in [Symbols -> (Pointer \X Pointer) \cup {None}]
    BY <1>2
  <2>3. relations' \subseteq Pointer \X Pointer
    BY <1>2, <1>5
  <2> QED
    BY <1>2, <2>1, <2>2, <2>3 DEF FactsTyped
<1> QED
  BY <1>1, <1>2, <1>3, <1>4, <1>6, <1>7, Assemble DEF IInv, TypeOK

(* What the facts are, for the steps that change one of them. *)
LEMMA FactsBefore ==
    ASSUME IInv
    PROVE  /\ variables \in [Names -> Kept \cup {None}]
           /\ ranges \in [Symbols -> (Kept \X Kept) \cup {None}]
           /\ relations \subseteq Kept \X (Kept \cup Borrowings)
           /\ discarded \subseteq Symbols /\ roots \subseteq Kept /\ revised \in BOOLEAN
           /\ Live \subseteq Kept /\ Null \in Kept /\ \A s \in Symbols : Borrowed(s) \in Borrowings
BY DEF IInv, TypeOK, Pieces, Facts, Kept, Borrowings

LEMMA ClientStep ==
    ASSUME IInv,
           \/ \E h \in Live, n \in Names : Define(n, h)
           \/ \E s \in Symbols : AssumeNatural(s) \/ Discard(s) \/ \E h, g \in Live : AssumeInRange(s, h, g)
           \/ \E h, g \in Live \cup {Null} : Assume(h, g)
           \/ \E h \in Live : Register(h)
           \/ ClearVariables \/ ClearAssumptions \/ Release
    PROVE  IInv'
<1>1. /\ variables \in [Names -> Kept \cup {None}]
      /\ ranges \in [Symbols -> (Kept \X Kept) \cup {None}]
      /\ relations \subseteq Kept \X (Kept \cup Borrowings)
      /\ discarded \subseteq Symbols /\ roots \subseteq Kept /\ revised \in BOOLEAN
      /\ Live \subseteq Kept /\ Null \in Kept /\ \A s \in Symbols : Borrowed(s) \in Borrowings
  BY FactsBefore
<1>2. CASE \E h \in Live, n \in Names : Define(n, h)
  BY <1>1, <1>2, FactsStep DEF Define
<1>3. ASSUME NEW s \in Symbols, AssumeNatural(s) PROVE IInv'
  BY <1>1, <1>3, FactsStep DEF AssumeNatural
<1>4. ASSUME NEW s \in Symbols, Discard(s) PROVE IInv'
  BY <1>1, <1>4, FactsStep DEF Discard
<1>5. ASSUME NEW s \in Symbols, NEW h \in Live, NEW g \in Live, AssumeInRange(s, h, g) PROVE IInv'
  <2>1. ranges' \in [Symbols -> (Kept \X Kept) \cup {None}]
    BY <1>1, <1>5 DEF AssumeInRange
  <2> QED
    BY <1>1, <1>5, <2>1, FactsStep DEF AssumeInRange
<1>6. ASSUME NEW h \in Live \cup {Null}, NEW g \in Live \cup {Null}, Assume(h, g) PROVE IInv'
  <2>1. relations' \subseteq Kept \X (Kept \cup Borrowings)
    BY <1>1, <1>6 DEF Assume
  <2> QED
    BY <1>1, <1>6, <2>1, FactsStep DEF Assume
<1>7. CASE \E h \in Live : Register(h)
  BY <1>1, <1>7, FactsStep DEF Register
<1>8. CASE ClearVariables
  BY <1>1, <1>8, FactsStep DEF ClearVariables
<1>9. CASE ClearAssumptions
  BY <1>1, <1>9, FactsStep DEF ClearAssumptions
<1>10. CASE Release
  BY <1>1, <1>10, FactsStep DEF Release
<1> QED
  BY <1>2, <1>3, <1>4, <1>5, <1>6, <1>7, <1>8, <1>9, <1>10

(* The modes: a trace that is disabled is emptied, a cache may shrink. *)
LEMMA ModeStep ==
    ASSUME IInv, UNCHANGED <<memoryVars, factVars, side_conditions, revised>>,
           trace_enabled' \in BOOLEAN, caching_enabled' \in BOOLEAN, limit' \in Limits,
           trace' = (IF trace_enabled' THEN trace ELSE {}),
           simplify_cache' \subseteq simplify_cache, diff_cache' \subseteq diff_cache,
           integrate_cache' \subseteq integrate_cache
    PROVE  IInv'
<1>1. side_conditions' = side_conditions /\ UNCHANGED factVars /\ revised' = revised
  OBVIOUS
<1>2. /\ arena' \in 0 .. MaxCollections /\ interned' \subseteq Exprs /\ uncharged' \subseteq interned'
      /\ counted' \in Nat /\ exhausted' \in BOOLEAN /\ Kept' = Kept /\ Kept' \subseteq Pointer
  BY MemoryKept
<1>3. CacheKept(simplify_cache)' /\ CacheKept(diff_cache)' /\ CacheKept(integrate_cache)'
  BY <1>1, <1>2 DEF IInv, Pieces, CacheKept, EntryKept
<1>4. trace' \subseteq Kept' /\ side_conditions' \subseteq Kept' /\ (~trace_enabled' => trace' = {})
  BY <1>1, <1>2 DEF IInv, Pieces
<1>5. simplify_cache' \subseteq Entry /\ diff_cache' \subseteq Entry /\ integrate_cache' \subseteq Entry
  BY DEF IInv, TypeOK
<1> QED
  BY <1>1, <1>2, <1>3, <1>4, <1>5, FactsKept, Assemble DEF IInv, TypeOK

LEMMA SettingStep ==
    ASSUME IInv,
           \/ \E enabled \in BOOLEAN : EnableTrace(enabled) \/ SetCachingEnabled(enabled)
           \/ ClearCaches
           \/ \E n \in Limits : SetCacheLimit(n)
    PROVE  IInv'
<1>0. /\ trace_enabled \in BOOLEAN /\ caching_enabled \in BOOLEAN /\ limit \in Limits
      /\ trace = IF trace_enabled THEN trace ELSE {}
  BY DEF IInv, TypeOK, HiddenTraceEmpty
<1>1. CASE \E enabled \in BOOLEAN : EnableTrace(enabled)
  <2>1. PICK enabled \in BOOLEAN : EnableTrace(enabled)
    BY <1>1
  <2> QED
    BY <1>0, <2>1, ModeStep DEF EnableTrace, cacheVars
<1>2. CASE \E enabled \in BOOLEAN : SetCachingEnabled(enabled)
  <2>1. PICK enabled \in BOOLEAN : SetCachingEnabled(enabled)
    BY <1>2
  <2>2. /\ simplify_cache' \subseteq simplify_cache /\ diff_cache' \subseteq diff_cache
        /\ integrate_cache' \subseteq integrate_cache
    BY <2>1 DEF SetCachingEnabled, Emptied, cacheVars
  <2> QED
    BY <1>0, <2>1, <2>2, ModeStep DEF SetCachingEnabled
<1>3. CASE ClearCaches
  BY <1>0, <1>3, ModeStep DEF ClearCaches, Emptied, modeVars
<1>4. CASE \E n \in Limits : SetCacheLimit(n)
  <2>1. PICK n \in Limits : SetCacheLimit(n)
    BY <1>4
  <2>2. /\ simplify_cache' \subseteq simplify_cache /\ diff_cache' \subseteq diff_cache
        /\ integrate_cache' \subseteq integrate_cache
    BY <2>1 DEF SetCacheLimit, Cut
  <2> QED
    BY <1>0, <2>1, <2>2, ModeStep DEF SetCacheLimit
<1> QED
  BY <1>1, <1>2, <1>3, <1>4


-----------------------------------------------------------------------------
(* The collection: what it makes of a pointer that is reached. *)

Collects(copy) ==
    /\ copy \in Copies
    /\ variables' = [n \in Names |-> IF variables[n] = None THEN None ELSE Clone(variables[n], copy)]
    /\ ranges' = [s \in Symbols |->
           IF ranges[s] = None THEN None ELSE <<Clone(ranges[s][1], copy), Clone(ranges[s][2], copy)>>]
    /\ relations' \in CloneRelations(copy)
    /\ trace' = CloneAll(trace, copy) /\ roots' = CloneAll(roots, copy)
    /\ side_conditions' = CloneAll(side_conditions, copy)
    /\ simplify_cache' \in CloneCache(simplify_cache, copy)
    /\ diff_cache' \in CloneCache(diff_cache, copy)
    /\ integrate_cache' \in CloneCache(integrate_cache, copy)
    /\ interned' = Wanted(copy) \ copy.lost
    /\ arena' = arena + 1

(* A collection passes over an empty trace only, so that it clones all that is reached. *)
LEMMA CollectsAll ==
    ASSUME IInv, CollectGarbage
    PROVE  Cloned = Reached /\ \E copy : Collects(copy)
<1>1. ~trace_enabled => trace = {}
  BY DEF IInv, HiddenTraceEmpty
<1>2. Cloned = Reached
  BY <1>1 DEF Cloned
<1>3. PICK copy \in Copies :
        /\ variables' = [n \in Names |-> IF variables[n] = None THEN None ELSE Clone(variables[n], copy)]
        /\ ranges' = [s \in Symbols |->
               IF ranges[s] = None THEN None ELSE <<Clone(ranges[s][1], copy), Clone(ranges[s][2], copy)>>]
        /\ relations' \in CloneRelations(copy)
        /\ trace' = IF trace_enabled THEN CloneAll(trace, copy) ELSE trace
        /\ roots' = CloneAll(roots, copy)
        /\ simplify_cache' \in CloneCache(simplify_cache, copy)
        /\ side_conditions' = CloneAll(side_conditions, copy)
        /\ diff_cache' \in CloneCache(diff_cache, copy)
        /\ integrate_cache' \in CloneCache(integrate_cache, copy)
        /\ interned' = Wanted(copy) \ copy.lost
  BY DEF CollectGarbage
<1>4. trace' = CloneAll(trace, copy)
  BY <1>1, <1>3 DEF CloneAll
<1>5. arena' = arena + 1
  BY DEF CollectGarbage
<1>6. Collects(copy)
  BY <1>3, <1>4, <1>5 DEF Collects
<1> QED
  BY <1>2, <1>6

LEMMA ReachedTyped ==
    ASSUME IInv
    PROVE  /\ Reached \subseteq Pointer /\ Reached \subseteq Kept \cup Borrowings
           /\ Named \cup Bounds \cup Keys \cup trace \cup roots \cup side_conditions
              \cup PointersIn(simplify_cache) \cup PointersIn(diff_cache) \cup PointersIn(integrate_cache)
              \subseteq Reached \cap Kept
<1>1. NoDangling
  BY PiecesAreReached
<1>2. Reached \subseteq Kept \cup Borrowings
  BY <1>1 DEF NoDangling, Reached, Kept, Borrowings
<1>3. Kept \subseteq Pointer
  BY DEF IInv, TypeOK, Kept, Live, Node, Pointer
<1>4. Borrowings \subseteq Pointer
  BY CollectorAssumption DEF Borrowings, Borrowed, Pointer
<1>5. Named \cup Bounds \cup Keys \cup trace \cup roots \cup side_conditions
      \cup PointersIn(simplify_cache) \cup PointersIn(diff_cache) \cup PointersIn(integrate_cache)
      \subseteq Reached \cap Kept
  BY <1>1 DEF NoDangling, Reached, Kept
<1> QED
  BY <1>2, <1>3, <1>4, <1>5

(* A kept pointer names its expression, and is the only one that does. *)
LEMMA KeptByExpr ==
    ASSUME IInv
    PROVE  /\ \A h \in Kept : h # Null => h.expr \in interned /\ h.expr \in Exprs /\ h.arena = arena
           /\ \A h, m \in Kept : h.expr = m.expr => h = m
           /\ Null.expr = Nothing
<1>1. \A h \in Live : h.expr \in interned /\ h.arena = arena /\ h = [expr |-> h.expr, arena |-> arena]
  BY DEF Live, Node
<1>2. interned \subseteq Exprs /\ Nothing \notin Exprs
  BY CollectorAssumption DEF IInv, TypeOK
<1>3. Null.expr = Nothing
  BY DEF Null
<1> QED
  BY <1>1, <1>2, <1>3 DEF Kept

(* The clone of a reached pointer is in the new arena or null. *)
LEMMA CloneStep ==
    ASSUME IInv, CollectGarbage, NEW copy, Collects(copy)
    PROVE  /\ \A h \in Reached : Clone(h, copy) \in Kept'
           /\ Kept' \subseteq Pointer /\ arena' \in 0 .. MaxCollections /\ interned' \subseteq Exprs
           /\ Null \in Kept'
<1>1. arena' = arena + 1 /\ arena' \in 0 .. MaxCollections
  BY CollectorAssumption DEF CollectGarbage, IInv, TypeOK
<1>2. copy.ghosts \in [discarded -> Exprs]
  BY DEF Collects, Copies
<1>3. \A h \in Pointer : h # Null => Reading(h, copy) \in Exprs
  BY <1>2 DEF Reading, Pointer
<1>4. interned' = Wanted(copy) \ copy.lost
  BY DEF Collects
<1>5. Wanted(copy) = {Reading(h, copy) : h \in Reached \ {Null}}
  BY CollectsAll DEF Wanted
<1>6. interned' \subseteq Exprs
  BY <1>3, <1>4, <1>5, ReachedTyped
<1>7. Kept' \subseteq Pointer /\ Null \in Kept'
  BY <1>1, <1>6, NextKept DEF Kept, Null
<1>8. ASSUME NEW h \in Reached PROVE Clone(h, copy) \in Kept'
  <2>1. CASE h = Null \/ Reading(h, copy) \in copy.lost
    BY <1>7, <2>1 DEF Clone
  <2>2. CASE ~(h = Null \/ Reading(h, copy) \in copy.lost)
    <3>1. Reading(h, copy) \in interned'
      BY <1>4, <1>5, <2>2
    <3>2. Clone(h, copy) = [expr |-> Reading(h, copy), arena |-> arena + 1]
      BY <2>2 DEF Clone
    <3> QED
      BY <1>1, <3>1, <3>2 DEF Kept, Live, Node
  <2> QED
    BY <2>1, <2>2
<1> QED
  BY <1>1, <1>6, <1>7, <1>8

(* A cache the collection rebuilt. *)
LEMMA CloneCacheStep ==
    ASSUME IInv, CollectGarbage, NEW copy, Collects(copy),
           NEW c, PointersIn(c) \subseteq Reached, NEW next \in CloneCache(c, copy)
    PROVE  /\ next \subseteq Entry
           /\ \A e \in next : e.key \in Kept' /\ e.value \in Kept' /\ e.conditions \subseteq Kept'
<1>1. \A e \in c : e.key \in Reached /\ e.value \in Reached /\ e.conditions \subseteq Reached
  BY DEF PointersIn
<1>2. \A e \in c : /\ CloneEntry(e, copy).key = Clone(e.key, copy)
                   /\ CloneEntry(e, copy).value = Clone(e.value, copy)
                   /\ CloneEntry(e, copy).conditions = CloneAll(e.conditions, copy)
  BY DEF CloneEntry
<1>3. \A e \in c : /\ CloneEntry(e, copy).key \in Kept' /\ CloneEntry(e, copy).value \in Kept'
                   /\ CloneEntry(e, copy).conditions \subseteq Kept'
  BY <1>1, <1>2, CloneStep DEF CloneAll
<1>4. \A e \in c : CloneEntry(e, copy) \in Entry
  BY <1>3, CloneStep DEF Entry, CloneEntry
<1>5. \A x \in next : \E e \in c : x = CloneEntry(e, copy)
  BY DEF CloneCache
<1> QED
  BY <1>3, <1>4, <1>5

(* Everything a collection leaves is in the new arena or null: no symbol of the client. *)
LEMMA CollectPieces ==
    ASSUME IInv, CollectGarbage, NEW copy, Collects(copy)
    PROVE  /\ variables' \in [Names -> Kept' \cup {None}]
           /\ ranges' \in [Symbols -> (Kept' \X Kept') \cup {None}]
           /\ relations' \subseteq Kept' \X Kept'
           /\ roots' \subseteq Kept' /\ side_conditions' \subseteq Kept' /\ trace' \subseteq Kept'
           /\ simplify_cache' \subseteq Entry /\ CacheKept(simplify_cache)'
           /\ diff_cache' \subseteq Entry /\ CacheKept(diff_cache)'
           /\ integrate_cache' \subseteq Entry /\ CacheKept(integrate_cache)'
<1>1. /\ Named \subseteq Reached /\ Bounds \subseteq Reached /\ Keys \subseteq Reached /\ Targets \subseteq Reached
      /\ trace \subseteq Reached /\ roots \subseteq Reached /\ side_conditions \subseteq Reached
      /\ PointersIn(simplify_cache) \subseteq Reached /\ PointersIn(diff_cache) \subseteq Reached
      /\ PointersIn(integrate_cache) \subseteq Reached
  BY DEF Reached
<1>2. \A h \in Reached : Clone(h, copy) \in Kept'
  BY CloneStep
<1>3. variables' \in [Names -> Kept' \cup {None}]
  <2>1. variables' = [n \in Names |-> IF variables[n] = None THEN None ELSE Clone(variables[n], copy)]
    BY DEF Collects
  <2>2. \A n \in Names : variables[n] # None => variables[n] \in Reached
    BY <1>1 DEF Named
  <2> QED
    BY <1>2, <2>1, <2>2
<1>4. ranges' \in [Symbols -> (Kept' \X Kept') \cup {None}]
  <2>1. ranges' = [s \in Symbols |->
            IF ranges[s] = None THEN None ELSE <<Clone(ranges[s][1], copy), Clone(ranges[s][2], copy)>>]
    BY DEF Collects
  <2>2. \A s \in Symbols : ranges[s] # None => ranges[s][1] \in Reached /\ ranges[s][2] \in Reached
    BY <1>1 DEF Bounds
  <2> QED
    BY <1>2, <2>1, <2>2
<1>5. relations' \subseteq Kept' \X Kept'
  <2>1. \A p \in relations' : \E q \in relations : p = <<Clone(q[1], copy), Clone(q[2], copy)>>
    BY DEF Collects, CloneRelations
  <2>2. \A q \in relations : q[1] \in Reached /\ q[2] \in Reached
    BY <1>1 DEF Keys, Targets
  <2> QED
    BY <1>2, <2>1, <2>2
<1>6. roots' \subseteq Kept' /\ side_conditions' \subseteq Kept' /\ trace' \subseteq Kept'
  BY <1>1, <1>2 DEF Collects, CloneAll
<1>7. /\ simplify_cache' \in CloneCache(simplify_cache, copy) /\ diff_cache' \in CloneCache(diff_cache, copy)
      /\ integrate_cache' \in CloneCache(integrate_cache, copy)
  BY DEF Collects
<1>8. simplify_cache' \subseteq Entry /\ CacheKept(simplify_cache)'
  BY <1>1, <1>7, CloneCacheStep DEF CacheKept, EntryKept
<1>9. diff_cache' \subseteq Entry /\ CacheKept(diff_cache)'
  BY <1>1, <1>7, CloneCacheStep DEF CacheKept, EntryKept
<1>10. integrate_cache' \subseteq Entry /\ CacheKept(integrate_cache)'
  BY <1>1, <1>7, CloneCacheStep DEF CacheKept, EntryKept
<1> QED
  BY <1>3, <1>4, <1>5, <1>6, <1>8, <1>9, <1>10

LEMMA CollectStep == ASSUME IInv, CollectGarbage PROVE IInv'
<1>1. PICK copy : Collects(copy)
  BY CollectsAll
<1>2. /\ variables' \in [Names -> Kept' \cup {None}]
      /\ ranges' \in [Symbols -> (Kept' \X Kept') \cup {None}]
      /\ relations' \subseteq Kept' \X Kept'
      /\ roots' \subseteq Kept' /\ side_conditions' \subseteq Kept' /\ trace' \subseteq Kept'
      /\ simplify_cache' \subseteq Entry /\ CacheKept(simplify_cache)'
      /\ diff_cache' \subseteq Entry /\ CacheKept(diff_cache)'
      /\ integrate_cache' \subseteq Entry /\ CacheKept(integrate_cache)'
  BY <1>1, CollectPieces
<1>3. Kept' \subseteq Pointer /\ arena' \in 0 .. MaxCollections /\ interned' \subseteq Exprs
  BY <1>1, CloneStep
<1>4. /\ trace_enabled' = trace_enabled /\ caching_enabled' = caching_enabled /\ limit' = limit
      /\ counted' = counted /\ exhausted' = exhausted /\ revised' = revised
      /\ uncharged' \subseteq interned' /\ discarded' = {}
  BY DEF CollectGarbage, AccountingKept, modeVars
<1>5. ~trace_enabled' => trace' = {}
  BY <1>1, <1>4 DEF Collects, CloneAll, IInv, HiddenTraceEmpty
<1>6. Facts'
  BY <1>2 DEF Facts
<1>7. FactsTyped'
  <2>1. variables' \in [Names -> Pointer \cup {None}] /\ ranges' \in [Symbols -> (Pointer \X Pointer) \cup {None}]
    BY <1>2, <1>3
  <2>2. relations' \subseteq Pointer \X Pointer
    BY <1>2, <1>3
  <2> QED
    BY <1>2, <1>3, <1>4, <2>1, <2>2 DEF FactsTyped
<1> QED
  BY <1>2, <1>3, <1>4, <1>5, <1>6, <1>7, Assemble DEF IInv, TypeOK

LEMMA EveryStep == IInv /\ [Next]_vars => IInv'
<1> SUFFICES ASSUME IInv, [Next]_vars PROVE IInv'
  OBVIOUS
<1>1. CASE \E h \in Live : Simplify(h)
  BY <1>1, SimplifyStep
<1>2. CASE \E h \in Live : Diff(h)
  BY <1>2, DiffStep
<1>3. CASE \E h \in Live : Integrate(h)
  BY <1>3, IntegrateStep
<1>4. CASE Fails
  BY <1>4, FailsStep
<1>5. CASE \E e \in Exprs : Parse(e)
  BY <1>5, ParseStep
<1>6. CASE \/ \E h \in Live, n \in Names : Define(n, h)
           \/ \E s \in Symbols : AssumeNatural(s) \/ Discard(s) \/ \E h, g \in Live : AssumeInRange(s, h, g)
           \/ \E h, g \in Live \cup {Null} : Assume(h, g)
           \/ \E h \in Live : Register(h)
           \/ ClearVariables \/ ClearAssumptions \/ Release
  BY <1>6, ClientStep
<1>7. CASE \/ \E enabled \in BOOLEAN : EnableTrace(enabled) \/ SetCachingEnabled(enabled)
           \/ ClearCaches
           \/ \E n \in Limits : SetCacheLimit(n)
  BY <1>7, SettingStep
<1>8. CASE CollectGarbage
  BY <1>8, CollectStep
<1>9. CASE UNCHANGED vars
  <2>1. UNCHANGED <<memoryVars, modeVars, cacheVars, trace, side_conditions, factVars, revised>>
    BY <1>9 DEF vars
  <2> QED
    BY <2>1, FactsBefore, FactsStep DEF factVars
<1> QED
  BY <1>1, <1>2, <1>3, <1>4, <1>5, <1>6, <1>7, <1>8, <1>9 DEF Next

-----------------------------------------------------------------------------
(* The budget. *)

Charged == interned \ uncharged

LEMMA CountedWhenMade ==
    ASSUME TypeOK, NEW part \in SUBSET Exprs, part \cap interned = {}
    PROVE  /\ Cardinality(Charged) \in Nat /\ Cardinality(part) \in Nat
           /\ Cardinality(Charged \cup part) = Cardinality(Charged) + Cardinality(part)
           /\ Charged \cup part = (interned \cup part) \ uncharged
<1>1. IsFiniteSet(Charged) /\ IsFiniteSet(part)
  BY CollectorAssumption, FS_Subset DEF TypeOK, Charged
<1>2. Cardinality(Charged) \in Nat /\ Cardinality(part) \in Nat
  BY <1>1, FS_CardinalityType
<1>3. Cardinality(Charged \cap part) = 0
  <2>1. Charged \cap part = {}
    BY DEF Charged
  <2> QED
    BY <2>1, FS_EmptySet
<1>4. Cardinality(Charged \cup part) = Cardinality(Charged) + Cardinality(part) - Cardinality(Charged \cap part)
  BY <1>1, FS_Union
<1>5. Charged \cup part = (interned \cup part) \ uncharged
  BY DEF Charged, TypeOK
<1> QED
  BY <1>1, <1>2, <1>3, <1>4, <1>5

LEMMA MakeWithinBudget ==
    ASSUME TypeOK, MemoryWithinBudget, NEW es \in SUBSET Exprs, Make(es)
    PROVE  MemoryWithinBudget'
<1> DEFINE new == es \ interned
<1>1. /\ interned' = interned \cup new /\ counted' = counted + Cardinality(new) /\ uncharged' = uncharged
      /\ new # {} => counted + Cardinality(new) <= Budget
  BY DEF Make
<1>2. /\ Cardinality(Charged) \in Nat /\ Cardinality(new) \in Nat
      /\ Cardinality(Charged \cup new) = Cardinality(Charged) + Cardinality(new)
      /\ Charged \cup new = (interned \cup new) \ uncharged
  <2>1. new \in SUBSET Exprs /\ new \cap interned = {} /\ TypeOK
    OBVIOUS
  <2> HIDE DEF new
  <2> QED
    BY <2>1, CountedWhenMade
<1>3. new = {} => Cardinality(new) = 0
  BY FS_EmptySet
<1>4. counted \in Nat /\ Budget \in Nat /\ Cardinality(Charged) <= counted /\ counted <= Budget
  BY CollectorAssumption DEF TypeOK, MemoryWithinBudget, Charged
<1>5. Cardinality(interned' \ uncharged') <= counted' /\ counted' <= Budget
  <2> HIDE DEF new
  <2> QED
    BY <1>1, <1>2, <1>3, <1>4
<1> QED
  BY <1>5 DEF MemoryWithinBudget

LEMMA OutOfMemoryWithinBudget ==
    ASSUME TypeOK, MemoryWithinBudget, NEW es \in SUBSET Exprs, OutOfMemory(es)
    PROVE  MemoryWithinBudget'
<1>1. PICK part \in SUBSET (es \ interned) :
        /\ Cardinality(part) = IF exhausted THEN 0 ELSE Budget - counted
        /\ interned' = interned \cup part
        /\ counted' = counted + Cardinality(part)
  BY DEF OutOfMemory
<1>2. /\ Cardinality(Charged) \in Nat /\ Cardinality(part) \in Nat
      /\ Cardinality(Charged \cup part) = Cardinality(Charged) + Cardinality(part)
      /\ Charged \cup part = (interned \cup part) \ uncharged
  <2>1. part \in SUBSET Exprs /\ part \cap interned = {}
    OBVIOUS
  <2> QED
    BY <2>1, CountedWhenMade
<1>3. counted \in Nat /\ Budget \in Nat /\ Cardinality(Charged) <= counted /\ counted <= Budget
  BY CollectorAssumption DEF TypeOK, MemoryWithinBudget, Charged
<1>4. uncharged' = uncharged
  BY DEF OutOfMemory
<1>5. Cardinality(interned' \ uncharged') <= counted' /\ counted' <= Budget
  BY <1>1, <1>2, <1>3, <1>4
<1> QED
  BY <1>5 DEF MemoryWithinBudget

LEMMA BudgetStep ==
    ASSUME IInv, MemoryWithinBudget, [Next]_vars
    PROVE  MemoryWithinBudget'
<1>0. TypeOK
  BY DEF IInv
<1>1. CASE \E es \in SUBSET Exprs : Make(es)
  BY <1>0, <1>1, MakeWithinBudget
<1>2. CASE \E es \in SUBSET Exprs : OutOfMemory(es)
  BY <1>0, <1>2, OutOfMemoryWithinBudget
<1>3. CASE CollectGarbage
  <2>1. interned' \ uncharged' \subseteq Charged
    BY <1>3 DEF CollectGarbage, Charged
  <2>2. IsFiniteSet(Charged)
    BY <1>0, CollectorAssumption, FS_Subset DEF TypeOK, Charged
  <2>3. Cardinality(interned' \ uncharged') <= Cardinality(Charged) /\ Cardinality(Charged) \in Nat
        /\ Cardinality(interned' \ uncharged') \in Nat
    BY <2>1, <2>2, FS_Subset, FS_CardinalityType
  <2>4. counted' = counted /\ counted \in Nat
    BY <1>0, <1>3 DEF CollectGarbage, AccountingKept, TypeOK
  <2> QED
    BY <2>3, <2>4 DEF MemoryWithinBudget, Charged
<1>4. CASE UNCHANGED memoryVars
  BY <1>4 DEF memoryVars, MemoryWithinBudget
<1>5. ASSUME NEW h \in Live, Simplify(h) \/ Diff(h) \/ Integrate(h)
      PROVE  \E es \in SUBSET Exprs : Make(es)
  <2>1. CASE Simplify(h)
    <3>1. PICK r \in Results, subjects \in SUBSET Exprs : Make(({r.expr} \cap Exprs) \cup subjects)
      BY <2>1 DEF Simplify
    <3>2. ({r.expr} \cap Exprs) \cup subjects \in SUBSET Exprs
      OBVIOUS
    <3> QED
      BY <3>1, <3>2
  <2>2. CASE Diff(h) \/ Integrate(h)
    <3>1. PICK d \in Exprs, r \in Results, subjects \in SUBSET Exprs :
            Make({d} \cup ({r.expr} \cap Exprs) \cup subjects)
      BY <2>2 DEF Diff, Integrate
    <3>2. {d} \cup ({r.expr} \cap Exprs) \cup subjects \in SUBSET Exprs
      OBVIOUS
    <3> QED
      BY <3>1, <3>2
  <2> QED
    BY <1>5, <2>1, <2>2
<1>6. ASSUME Fails PROVE \E es \in SUBSET Exprs : OutOfMemory(es)
  BY <1>6 DEF Fails
<1>7. ASSUME NEW e \in Exprs, Parse(e) PROVE \E es \in SUBSET Exprs : Make(es)
  BY <1>7 DEF Parse
<1>8. ASSUME \/ \E h \in Live, n \in Names : Define(n, h)
             \/ \E s \in Symbols : AssumeNatural(s) \/ Discard(s) \/ \E h, g \in Live : AssumeInRange(s, h, g)
             \/ \E h, g \in Live \cup {Null} : Assume(h, g)
             \/ \E h \in Live : Register(h)
             \/ ClearVariables \/ ClearAssumptions \/ Release
             \/ \E enabled \in BOOLEAN : EnableTrace(enabled) \/ SetCachingEnabled(enabled)
             \/ ClearCaches
             \/ \E n \in Limits : SetCacheLimit(n)
      PROVE  UNCHANGED memoryVars
  BY <1>8 DEF Define, AssumeInRange, AssumeNatural, Discard, Assume, Register, ClearVariables, ClearAssumptions, Release, EnableTrace,
              SetCachingEnabled, ClearCaches, SetCacheLimit
<1>9. ASSUME UNCHANGED vars PROVE UNCHANGED memoryVars
  BY <1>9 DEF vars
<1> QED
  BY <1>1, <1>2, <1>3, <1>4, <1>5, <1>6, <1>7, <1>8, <1>9 DEF Next

-----------------------------------------------------------------------------
(* What the client can see across a collection.  Faithful says that of the *)
(* pointers in Q those that mean something in S afterwards are those that  *)
(* meant something in T before, and that they mean the same.               *)

Faithful(copy, Q, S, T) ==
    \A h \in Q : /\ Clone(h, copy).expr \in S <=> h.expr \in T
                 /\ h.expr \in T => Clone(h, copy).expr = h.expr

(* Reading is faithful, but for the destroyed symbols of the client. *)
LEMMA CloneMeans ==
    ASSUME IInv, CollectGarbage, NEW copy, Collects(copy),
           NEW h \in Reached, h \in Kept \/ discarded = {}
    PROVE  /\ h = Null => Clone(h, copy) = Null /\ h.expr = Nothing
           /\ h # Null => h.expr \in Exprs
           /\ h # Null /\ h.expr \in interned' => Clone(h, copy).expr = h.expr
           /\ h # Null /\ h.expr \notin interned' => Clone(h, copy) = Null
           /\ Nothing \notin Exprs /\ Nothing \notin interned' /\ interned' \subseteq Exprs
<1>1. h \in Pointer
  BY ReachedTyped
<1>2. h = Null => Clone(h, copy) = Null /\ h.expr = Nothing
  BY DEF Clone, Null
<1>3. h # Null => h.expr \in Exprs
  BY <1>1 DEF Pointer
<1>4. h # Null => Reading(h, copy) = h.expr
  <2>1. h # Null /\ h \in Kept => h.arena # Client
    BY KeptByExpr, CollectorAssumption DEF IInv, TypeOK
  <2> QED
    BY <2>1 DEF Reading
<1>5. interned' = {Reading(m, copy) : m \in Reached \ {Null}} \ copy.lost
  BY CollectsAll DEF Collects, Wanted
<1>6. h # Null => (h.expr \in interned' <=> h.expr \notin copy.lost)
  BY <1>4, <1>5
<1>7. /\ h # Null /\ h.expr \in interned' => Clone(h, copy).expr = h.expr
      /\ h # Null /\ h.expr \notin interned' => Clone(h, copy) = Null
  BY <1>4, <1>6 DEF Clone
<1>8. Nothing \notin Exprs /\ Nothing \notin interned' /\ interned' \subseteq Exprs
  BY CloneStep, CollectorAssumption
<1> QED
  BY <1>2, <1>3, <1>7, <1>8

LEMMA FaithfulToCopied ==
    ASSUME IInv, CollectGarbage, NEW copy, Collects(copy),
           NEW Q \in SUBSET Reached, Q \subseteq Kept \/ discarded = {}
    PROVE  Faithful(copy, Q, Exprs, interned')
<1> SUFFICES ASSUME NEW h \in Q
             PROVE  /\ Clone(h, copy).expr \in Exprs <=> h.expr \in interned'
                    /\ h.expr \in interned' => Clone(h, copy).expr = h.expr
  BY DEF Faithful
<1>1. Null.expr = Nothing
  BY DEF Null
<1> QED
  BY <1>1, CloneMeans

LEMMA FaithfulWhenWhole ==
    ASSUME IInv, CollectGarbage, NEW copy, Collects(copy), InUse \subseteq interned',
           NEW Q \in SUBSET Reached, Q \subseteq Kept \/ discarded = {}
    PROVE  Faithful(copy, Q, Anything, Anything)
<1> SUFFICES ASSUME NEW h \in Q
             PROVE  /\ Clone(h, copy).expr \in Anything <=> h.expr \in Anything
                    /\ h.expr \in Anything => Clone(h, copy).expr = h.expr
  BY DEF Faithful
<1>1. h # Null => h.expr \in interned'
  BY DEF InUse
<1>2. Null.expr = Nothing
  BY DEF Null
<1> QED
  BY <1>1, <1>2, CloneMeans DEF Anything

(* Two kept pointers that become one that means something were one. *)
LEMMA CloneIsOneToOne ==
    ASSUME IInv, NEW copy, NEW Q \in SUBSET Kept, NEW S, NEW T, Faithful(copy, Q, S, T),
           NEW h \in Q, NEW m \in Q, h.expr \in T, Clone(h, copy) = Clone(m, copy)
    PROVE  h = m
BY KeptByExpr DEF Faithful

LEMMA SetsMeanTheSame ==
    ASSUME NEW copy, NEW Q, NEW S, NEW T, Faithful(copy, Q, S, T), NEW hs \in SUBSET Q
    PROVE  /\ ExprsOf(CloneAll(hs, copy)) \cap S = ExprsOf(hs) \cap T
           /\ ExprsOf(CloneAll(hs, copy)) \subseteq S <=> ExprsOf(hs) \subseteq T
           /\ ExprsOf(hs) \subseteq T => ExprsOf(CloneAll(hs, copy)) = ExprsOf(hs)
<1>1. \A h \in hs : /\ Clone(h, copy).expr \in S <=> h.expr \in T
                    /\ h.expr \in T => Clone(h, copy).expr = h.expr
  BY DEF Faithful
<1>2. \A h \in hs : Clone(h, copy) \in CloneAll(hs, copy) /\ Clone(h, copy).expr \in ExprsOf(CloneAll(hs, copy))
  BY DEF CloneAll, ExprsOf
<1>3. \A x \in ExprsOf(CloneAll(hs, copy)) : \E h \in hs : x = Clone(h, copy).expr
  BY DEF CloneAll, ExprsOf
<1>4. \A h \in hs : h.expr \in ExprsOf(hs)
  BY DEF ExprsOf
<1>5. \A x \in ExprsOf(hs) : \E h \in hs : x = h.expr
  BY DEF ExprsOf
<1>6. ExprsOf(CloneAll(hs, copy)) \cap S = ExprsOf(hs) \cap T
  BY <1>1, <1>2, <1>3, <1>4, <1>5
<1>7. ExprsOf(CloneAll(hs, copy)) \subseteq S <=> ExprsOf(hs) \subseteq T
  BY <1>1, <1>2, <1>3, <1>4, <1>5
<1>8. ExprsOf(hs) \subseteq T => ExprsOf(CloneAll(hs, copy)) = ExprsOf(hs)
  <2> SUFFICES ASSUME ExprsOf(hs) \subseteq T PROVE ExprsOf(CloneAll(hs, copy)) = ExprsOf(hs)
    OBVIOUS
  <2>1. \A h \in hs : Clone(h, copy).expr = h.expr
    BY <1>1, <1>4
  <2>2. \A x \in ExprsOf(CloneAll(hs, copy)) : x \in ExprsOf(hs)
    BY <1>3, <1>4, <2>1
  <2>3. \A x \in ExprsOf(hs) : x \in ExprsOf(CloneAll(hs, copy))
    BY <1>2, <1>5, <2>1
  <2> QED
    BY <2>2, <2>3
<1> QED
  BY <1>6, <1>7, <1>8

(* Of the keys of a table those that mean something survive. *)
LEMMA KeySurvives ==
    ASSUME IInv, NEW copy, NEW Q \in SUBSET Kept, NEW S, NEW T, Faithful(copy, Q, S, T),
           NEW keys \in SUBSET Q, NEW kept \in Survivors(keys, copy), NEW k \in keys, k.expr \in T
    PROVE  k \in kept
<1>1. PICK m \in kept : Clone(k, copy) = Clone(m, copy)
  BY DEF Survivors
<1>2. m \in keys
  BY <1>1 DEF Survivors
<1> QED
  BY <1>1, <1>2, CloneIsOneToOne

(* A cache that was rebuilt gives the answers it gave. *)
LEMMA AnswersKept ==
    ASSUME IInv, NEW copy, NEW Q \in SUBSET Kept, NEW S, NEW T, Faithful(copy, Q, S, T),
           NEW c, PointersIn(c) \subseteq Q, NEW next \in CloneCache(c, copy)
    PROVE  Answers(next, S) = Answers(c, T)
<1> DEFINE Means(e, U)  == e.key.expr \in U /\ e.value.expr \in U /\ ExprsOf(e.conditions) \subseteq U
           Answer(e)    == <<e.key.expr, e.value.expr, ExprsOf(e.conditions)>>
           keys         == {e.key : e \in c}
<1>1. PICK kept \in Survivors(keys, copy) : next = {CloneEntry(e, copy) : e \in {f \in c : f.key \in kept}}
  BY DEF CloneCache
<1>2. \A e \in c : e.key \in Q /\ e.value \in Q /\ e.conditions \subseteq Q
  BY DEF PointersIn
<1>3. ASSUME NEW e \in c
      PROVE  /\ Means(CloneEntry(e, copy), S) <=> Means(e, T)
             /\ Means(e, T) => Answer(CloneEntry(e, copy)) = Answer(e)
  <2>1. /\ CloneEntry(e, copy).key = Clone(e.key, copy) /\ CloneEntry(e, copy).value = Clone(e.value, copy)
        /\ CloneEntry(e, copy).conditions = CloneAll(e.conditions, copy)
    BY DEF CloneEntry
  <2>2. /\ Clone(e.key, copy).expr \in S <=> e.key.expr \in T
        /\ Clone(e.value, copy).expr \in S <=> e.value.expr \in T
        /\ e.key.expr \in T => Clone(e.key, copy).expr = e.key.expr
        /\ e.value.expr \in T => Clone(e.value, copy).expr = e.value.expr
    BY <1>2 DEF Faithful
  <2>3. e.conditions \in SUBSET Q
    BY <1>2
  <2>4. /\ ExprsOf(CloneAll(e.conditions, copy)) \subseteq S <=> ExprsOf(e.conditions) \subseteq T
        /\ ExprsOf(e.conditions) \subseteq T => ExprsOf(CloneAll(e.conditions, copy)) = ExprsOf(e.conditions)
    BY <2>3, SetsMeanTheSame
  <2> QED
    BY <2>1, <2>2, <2>4
<1>4. ASSUME NEW e \in c, Means(e, T) PROVE e.key \in kept
  <2>1. keys \in SUBSET Q /\ e.key \in keys /\ e.key.expr \in T
    BY <1>2, <1>4
  <2> HIDE DEF keys
  <2> QED
    BY <1>1, <2>1, KeySurvives
<1>5. /\ Answers(next, S) = {Answer(e) : e \in {f \in next : Means(f, S)}}
      /\ Answers(c, T) = {Answer(e) : e \in {f \in c : Means(f, T)}}
  BY DEF Answers
<1> HIDE DEF Means, Answer
<1>6. ASSUME NEW x \in Answers(next, S) PROVE x \in Answers(c, T)
  <2>1. PICK f \in next : Means(f, S) /\ x = Answer(f)
    BY <1>5
  <2>2. PICK e \in c : f = CloneEntry(e, copy)
    BY <1>1
  <2> QED
    BY <1>3, <1>5, <2>1, <2>2
<1>7. ASSUME NEW x \in Answers(c, T) PROVE x \in Answers(next, S)
  <2>1. PICK e \in c : Means(e, T) /\ x = Answer(e)
    BY <1>5
  <2>2. CloneEntry(e, copy) \in next
    BY <1>1, <1>4, <2>1
  <2> QED
    BY <1>3, <1>5, <2>1, <2>2
<1> QED
  BY <1>6, <1>7

(* What is kept in the fields of the session, the relations apart. *)
InFields == Reached \cap Kept

LEMMA ViewKept ==
    ASSUME IInv, CollectGarbage, NEW copy, Collects(copy), NEW S, NEW T, Faithful(copy, InFields, S, T)
    PROVE  /\ Defined(variables', S) = Defined(variables, T)
           /\ Bounded(ranges', S) = Bounded(ranges, T)
           /\ ExprsOf(trace') \cap S = ExprsOf(trace) \cap T
           /\ ExprsOf(roots') \cap S = ExprsOf(roots) \cap T
           /\ ExprsOf(side_conditions') \cap S = ExprsOf(side_conditions) \cap T
           /\ Answers(simplify_cache', S) = Answers(simplify_cache, T)
           /\ Answers(diff_cache', S) = Answers(diff_cache, T)
           /\ Answers(integrate_cache', S) = Answers(integrate_cache, T)
<1>1. /\ Named \subseteq InFields /\ Bounds \subseteq InFields /\ trace \in SUBSET InFields
      /\ roots \in SUBSET InFields /\ side_conditions \in SUBSET InFields
      /\ PointersIn(simplify_cache) \subseteq InFields /\ PointersIn(diff_cache) \subseteq InFields
      /\ PointersIn(integrate_cache) \subseteq InFields
  BY ReachedTyped DEF InFields
<1>2. InFields \in SUBSET Kept /\ InFields \in SUBSET Reached
  BY DEF InFields
<1>3. \A h \in InFields : /\ Clone(h, copy).expr \in S <=> h.expr \in T
                          /\ h.expr \in T => Clone(h, copy).expr = h.expr
                          /\ Clone(h, copy) # None
  <2>1. \A h \in InFields : Clone(h, copy) \in Pointer
    BY <1>2, CloneStep
  <2> QED
    BY <2>1, CollectorAssumption DEF Faithful
<1>4. Defined(variables', S) = Defined(variables, T)
  <2>1. variables' = [n \in Names |-> IF variables[n] = None THEN None ELSE Clone(variables[n], copy)]
    BY DEF Collects
  <2>2. \A n \in Names : variables[n] # None => variables[n] \in InFields
    BY <1>1 DEF Named
  <2>3. \A n \in Names : /\ (variables'[n] # None /\ variables'[n].expr \in S)
                            <=> (variables[n] # None /\ variables[n].expr \in T)
                         /\ variables[n] # None /\ variables[n].expr \in T => variables'[n].expr = variables[n].expr
    BY <1>3, <2>1, <2>2
  <2> QED
    BY <2>3 DEF Defined
<1>5. Bounded(ranges', S) = Bounded(ranges, T)
  <2>1. ranges' = [s \in Symbols |->
            IF ranges[s] = None THEN None ELSE <<Clone(ranges[s][1], copy), Clone(ranges[s][2], copy)>>]
    BY DEF Collects
  <2>2. \A s \in Symbols : ranges[s] # None => ranges[s][1] \in InFields /\ ranges[s][2] \in InFields
    BY <1>1 DEF Bounds
  <2>3. \A s \in Symbols : ranges'[s] # None <=> ranges[s] # None
    <3>1. \A x, y \in Pointer : <<x, y>> # None
      BY CollectorAssumption
    <3>2. \A s \in Symbols : ranges[s] # None => Clone(ranges[s][1], copy) \in Pointer /\ Clone(ranges[s][2], copy) \in Pointer
      BY <1>2, <2>2, CloneStep
    <3> QED
      BY <2>1, <3>1, <3>2
  <2>4. \A s \in Symbols : ranges[s] # None =>
            /\ ranges'[s][1] = Clone(ranges[s][1], copy) /\ ranges'[s][2] = Clone(ranges[s][2], copy)
    BY <2>1
  <2> DEFINE Whole(q, s, U) == q[s] # None /\ q[s][1].expr \in U /\ q[s][2].expr \in U
             Triple(q, s)   == <<s, q[s][1].expr, q[s][2].expr>>
  <2>5. \A s \in Symbols : /\ Whole(ranges', s, S) <=> Whole(ranges, s, T)
                           /\ Whole(ranges, s, T) => Triple(ranges', s) = Triple(ranges, s)
    BY <1>3, <2>2, <2>3, <2>4
  <2>6. /\ Bounded(ranges', S) = {Triple(ranges', s) : s \in {t \in Symbols : Whole(ranges', t, S)}}
        /\ Bounded(ranges, T) = {Triple(ranges, s) : s \in {t \in Symbols : Whole(ranges, t, T)}}
    BY DEF Bounded
  <2> HIDE DEF Whole, Triple
  <2> QED
    BY <2>5, <2>6
<1>6. /\ ExprsOf(trace') \cap S = ExprsOf(trace) \cap T
      /\ ExprsOf(roots') \cap S = ExprsOf(roots) \cap T
      /\ ExprsOf(side_conditions') \cap S = ExprsOf(side_conditions) \cap T
  <2>1. /\ trace' = CloneAll(trace, copy) /\ roots' = CloneAll(roots, copy)
        /\ side_conditions' = CloneAll(side_conditions, copy)
    BY DEF Collects
  <2> QED
    BY <1>1, <2>1, SetsMeanTheSame
<1>7. /\ Answers(simplify_cache', S) = Answers(simplify_cache, T)
      /\ Answers(diff_cache', S) = Answers(diff_cache, T)
      /\ Answers(integrate_cache', S) = Answers(integrate_cache, T)
  <2>1. /\ simplify_cache' \in CloneCache(simplify_cache, copy) /\ diff_cache' \in CloneCache(diff_cache, copy)
        /\ integrate_cache' \in CloneCache(integrate_cache, copy)
    BY DEF Collects
  <2> QED
    BY <1>1, <1>2, <2>1, AnswersKept
<1> QED
  BY <1>4, <1>5, <1>6, <1>7

(* The relations, when none points at a destroyed symbol. *)
LEMMA RelationsKept ==
    ASSUME IInv, CollectGarbage, NEW copy, Collects(copy), NEW S, NEW T, Faithful(copy, Reached, S, T)
    PROVE  {<<p[1].expr, p[2].expr>> : p \in relations'} \cap (S \X S)
           = {<<p[1].expr, p[2].expr>> : p \in relations} \cap (T \X T)
<1>1. PICK kept \in Survivors(Keys, copy) :
        relations' = {<<Clone(p[1], copy), Clone(p[2], copy)>> : p \in {q \in relations : q[1] \in kept}}
  BY DEF Collects, CloneRelations
<1>2. \A p \in relations : p[1] \in Keys /\ p[1] \in Reached /\ p[2] \in Reached
  BY DEF Reached, Keys, Targets
<1>3. Keys \in SUBSET InFields /\ InFields \in SUBSET Kept /\ Faithful(copy, InFields, S, T)
  BY ReachedTyped DEF InFields, Faithful
<1>4. \A h \in Reached : /\ Clone(h, copy).expr \in S <=> h.expr \in T
                         /\ h.expr \in T => Clone(h, copy).expr = h.expr
  BY DEF Faithful
<1>5. \A k \in Keys : k.expr \in T => k \in kept
  BY <1>1, <1>3, KeySurvives
<1> DEFINE Sides(p) == <<p[1].expr, p[2].expr>>
           C(p)     == <<Clone(p[1], copy), Clone(p[2], copy)>>
<1>6. ASSUME NEW p \in relations
      PROVE  /\ Sides(C(p)) \in S \X S <=> Sides(p) \in T \X T
             /\ Sides(p) \in T \X T => Sides(C(p)) = Sides(p) /\ p[1] \in kept
  BY <1>2, <1>4, <1>5
<1>7. relations' = {C(p) : p \in {q \in relations : q[1] \in kept}}
  BY <1>1
<1> HIDE DEF Sides, C
<1>8. {Sides(p) : p \in relations'} \cap (S \X S) = {Sides(p) : p \in relations} \cap (T \X T)
  BY <1>6, <1>7
<1> QED
  BY <1>8 DEF Sides

-----------------------------------------------------------------------------
(* The theorems. *)

LEMMA Inductive == Spec => []IInv
BY InitInv, EveryStep, PTL DEF Spec

(* The fields of a session keep their types. *)
THEOREM TypeCorrect == Spec => []TypeOK
<1>1. IInv => TypeOK
  BY DEF IInv
<1> QED
  BY <1>1, Inductive, PTL

(* No pointer of the session or of a registered root ever leads outside the current
   arena, whatever is cached, traced, assumed or defined when it is collected, and
   whatever the new arena refuses; only the target of a relation may be a symbol of the
   client. *)
THEOREM NothingDangles == Spec => []NoDangling
<1>1. IInv => NoDangling
  BY PiecesAreReached DEF IInv
<1> QED
  BY <1>1, Inductive, PTL

(* The memory of the live arena stays within the budget through collections, the symbols
   copied out of the memory of the client apart. *)
THEOREM BudgetKept == Spec => []MemoryWithinBudget
<1>1. Init => MemoryWithinBudget
  BY CollectorAssumption, FS_EmptySet DEF Init, MemoryWithinBudget
<1>2. IInv /\ MemoryWithinBudget /\ [Next]_vars => MemoryWithinBudget'
  BY BudgetStep
<1> QED
  BY <1>1, <1>2, Inductive, PTL DEF Spec

(* A collection gives no answer it was not given, even when the new arena refuses some of
   the copies, and changes nothing at all when it takes all of them; the relations are
   excepted while one points at a destroyed symbol. *)
THEOREM AnswersSurvive == Spec => CollectionKeepsAnswers
<1> DEFINE Kind == /\ Reached' \subseteq Live' \cup {Null}
                   /\ View(Exprs)' = View(interned')
                   /\ discarded = {} => Related(Exprs)' = Related(interned')
                   /\ InUse \subseteq interned' => /\ View(Anything)' = View(Anything)
                                                   /\ discarded = {} => Related(Anything)' = Related(Anything)
<1>1. IInv /\ [Next]_vars => [arena' # arena => Kind]_vars
  <2> SUFFICES ASSUME IInv, Next, arena' # arena PROVE Kind
    OBVIOUS
  <2>1. CollectGarbage
    BY DEF Next, Simplify, Diff, Integrate, Fails, Parse, Make, OutOfMemory, Define, AssumeInRange, Assume,
           AssumeNatural, Discard, Register, ClearVariables, ClearAssumptions, Release, EnableTrace,
           SetCachingEnabled, ClearCaches, SetCacheLimit, memoryVars
  <2>2. PICK copy : Collects(copy)
    BY <2>1, CollectsAll
  <2>3. Reached' \subseteq Live' \cup {Null}
    <3>1. relations' \subseteq Kept' \X Kept'
      BY <2>1, <2>2, CollectPieces
    <3>2. Targets' \subseteq Kept'
      BY <3>1 DEF Targets
    <3>3. NoDangling'
      <4>1. IInv'
        BY <2>1, CollectStep
      <4>2. IInv' => NoDangling'
        BY PiecesAreReached, PTL
      <4> QED
        BY <4>1, <4>2
    <3> QED
      BY <3>2, <3>3 DEF Reached, NoDangling, Kept, Null
  <2>4. InFields \in SUBSET Reached /\ InFields \subseteq Kept /\ Reached \in SUBSET Reached
    BY DEF InFields
  <2>5. View(Exprs)' = View(interned')
    <3>1. Faithful(copy, InFields, Exprs, interned')
      BY <2>1, <2>2, <2>4, FaithfulToCopied
    <3> QED
      BY <2>1, <2>2, <3>1, ViewKept DEF View
  <2>6. ASSUME discarded = {} PROVE Related(Exprs)' = Related(interned')
    <3>1. Faithful(copy, Reached, Exprs, interned')
      BY <2>1, <2>2, <2>4, <2>6, FaithfulToCopied
    <3> QED
      BY <2>1, <2>2, <3>1, RelationsKept DEF Related
  <2>7. ASSUME InUse \subseteq interned'
        PROVE  /\ View(Anything)' = View(Anything)
               /\ discarded = {} => Related(Anything)' = Related(Anything)
    <3>0. Anything' = Anything
      BY DEF Anything
    <3>1. Faithful(copy, InFields, Anything, Anything)
      BY <2>1, <2>2, <2>4, <2>7, FaithfulWhenWhole
    <3>2. View(Anything)' = View(Anything)
      BY <2>1, <2>2, <3>0, <3>1, ViewKept DEF View
    <3>3. ASSUME discarded = {} PROVE Related(Anything)' = Related(Anything)
      <4>1. Faithful(copy, Reached, Anything, Anything)
        BY <2>1, <2>2, <2>4, <2>7, <3>3, FaithfulWhenWhole
      <4> QED
        BY <2>1, <2>2, <3>0, <4>1, RelationsKept DEF Related
    <3> QED
      BY <3>2, <3>3
  <2> QED
    BY <2>3, <2>5, <2>6, <2>7
<1> QED
  BY <1>1, Inductive, PTL DEF Spec, CollectionKeepsAnswers

-----------------------------------------------------------------------------
(* The caches: at most limit entries, one for each expression. *)

Unique(c)     == \A e, f \in c : e.key.expr = f.key.expr => e = f
CacheOK(c, n) == IsFiniteSet(c) /\ Cardinality(c) <= n /\ Unique(c)

CachesOK ==
    CacheOK(simplify_cache, limit) /\ CacheOK(diff_cache, limit) /\ CacheOK(integrate_cache, limit)

LEMMA EmptyOK ==
    ASSUME NEW n \in Nat
    PROVE  CacheOK({}, n)
BY FS_EmptySet DEF CacheOK, Unique

(* A cut to n entries is a part of the cache with at most n of them. *)
LEMMA CutOK ==
    ASSUME NEW c, IsFiniteSet(c), NEW n \in Nat, NEW kept \in Cut(c, n)
    PROVE  kept \subseteq c /\ IsFiniteSet(kept) /\ Cardinality(kept) <= n
<1>1. kept \subseteq c
  BY DEF Cut
<1>2. IsFiniteSet(kept)
  BY <1>1, FS_Subset
<1>3. Cardinality(kept) <= n
  BY DEF Cut
<1> QED
  BY <1>1, <1>2, <1>3

(* put keeps the limit and replaces the entry of its expression. *)
LEMMA StoredOK ==
    ASSUME limit \in Nat, NEW c, CacheOK(c, limit), NEW entry, NEW next \in Stored(c, entry)
    PROVE  CacheOK(next, limit)
<1>1. CASE limit = 0
  BY <1>1 DEF Stored
<1>2. CASE limit # 0
  <2> DEFINE rest == c \ Cached(c, entry.key)
  <2>1. PICK kept \in Cut(rest, limit - 1) : next = kept \cup {entry}
    BY <1>2 DEF Stored
  <2>2. IsFiniteSet(rest) /\ limit - 1 \in Nat
    <3>1. IsFiniteSet(rest)
      BY FS_Subset DEF CacheOK
    <3> QED
      BY <1>2, <3>1
  <2>3. kept \subseteq rest /\ IsFiniteSet(kept) /\ Cardinality(kept) <= limit - 1
    BY <2>1, <2>2, CutOK
  <2>4. Cardinality(kept) \in Nat
    BY <2>3, FS_CardinalityType
  <2>5. IsFiniteSet(next) /\ Cardinality(next) <= limit
    BY <2>1, <2>3, <2>4, FS_AddElement
  <2>6. Unique(next)
    BY <2>1, <2>3 DEF Unique, Cached, CacheOK
  <2> QED
    BY <2>5, <2>6 DEF CacheOK
<1> QED
  BY <1>1, <1>2

(* What a simplify finds of a cache has these properties too. *)
LEMMA CurrentOK ==
    ASSUME limit \in Nat, NEW c, CacheOK(c, limit)
    PROVE  CacheOK(Current(c), limit)
BY EmptyOK DEF Current

(* The memo of an operation that has computed its result. *)
LEMMA MemoOK ==
    ASSUME limit \in Nat, NEW c, CacheOK(c, limit), NEW h, NEW r, NEW next \in Memo(c, h, r)
    PROVE  CacheOK(next, limit)
BY StoredOK DEF Memo

(* The cache of a simplify: as it was, what is current of it, or with a new entry. *)
LEMMA SimplifiesOK ==
    ASSUME limit \in Nat, CacheOK(simplify_cache, limit),
           NEW h, NEW r, NEW subjects, NEW nested, Simplifies(h, r, subjects, nested)
    PROVE  CacheOK(simplify_cache', limit)
<1>1. CacheOK(Current(simplify_cache), limit)
  BY CurrentOK
<1>2. \/ simplify_cache' = simplify_cache
      \/ simplify_cache' = Current(simplify_cache)
      \/ \E entry : simplify_cache' \in Stored(Current(simplify_cache), entry)
  BY DEF Simplifies
<1> QED
  BY <1>1, <1>2, StoredOK

(* Cloning renames the pointers of the entries that survive: no entry more, and none of *)
(* another expression.                                                                  *)
LEMMA CloneOK ==
    ASSUME IInv, CollectGarbage, NEW copy, Collects(copy), NEW n \in Nat,
           NEW c \in SUBSET Entry, PointersIn(c) \subseteq Reached, CacheOK(c, n),
           NEW d \in CloneCache(c, copy)
    PROVE  CacheOK(d, n)
<1> DEFINE keys == {e.key : e \in c}
<1>1. PICK kept \in Survivors(keys, copy) : d = {CloneEntry(e, copy) : e \in {f \in c : f.key \in kept}}
  BY DEF CloneCache
<1> DEFINE b == {f \in c : f.key \in kept}
           f == [e \in b |-> CloneEntry(e, copy)]
<1>2. f \in Surjection(b, d)
  <2>1. f \in [b -> d]
    BY <1>1
  <2>2. \A x \in d : \E e \in b : f[e] = x
    BY <1>1
  <2> QED
    BY <2>1, <2>2 DEF Surjection
<1>3. /\ IsFiniteSet(b) /\ Cardinality(b) <= Cardinality(c) /\ Cardinality(c) <= n
      /\ Cardinality(b) \in Nat /\ Cardinality(c) \in Nat
  BY FS_Subset, FS_CardinalityType DEF CacheOK
<1>4. \A k, m \in kept : Clone(k, copy) = Clone(m, copy) => k = m
  BY <1>1 DEF Survivors
<1>5. \A e \in b : CloneEntry(e, copy).key = Clone(e.key, copy) /\ e.key \in kept /\ e \in c
  BY DEF CloneEntry
<1>6. \A x, y \in d : x.key.expr = y.key.expr => x.key = y.key
  <2>1. \A x \in d : x.key \in Kept'
    BY CloneCacheStep
  <2>2. \A g, h \in Kept' : g.expr = h.expr => g = h
    BY CloneStep, CollectorAssumption DEF Kept, Live, Node, Null
  <2> QED
    BY <2>1, <2>2
<1>7. Unique(d)
  <2> SUFFICES ASSUME NEW x \in d, NEW y \in d, x.key.expr = y.key.expr PROVE x = y
    BY DEF Unique
  <2>1. PICK e \in b : x = CloneEntry(e, copy)
    BY <1>1
  <2>2. PICK g \in b : y = CloneEntry(g, copy)
    BY <1>1
  <2>3. e.key = g.key
    BY <1>4, <1>5, <1>6, <2>1, <2>2
  <2>4. e = g
    BY <1>5, <2>3 DEF CacheOK, Unique
  <2> QED
    BY <2>1, <2>2, <2>4
<1> HIDE DEF f, b
<1>8. IsFiniteSet(d) /\ Cardinality(d) <= Cardinality(b)
  BY <1>2, <1>3, FS_Surjection, Zenon
<1>9. Cardinality(d) <= n
  <2>1. Cardinality(d) \in Nat
    BY <1>8, FS_CardinalityType
  <2> QED
    BY <1>3, <1>8, <2>1
<1> QED
  BY <1>7, <1>8, <1>9 DEF CacheOK

LEMMA CachesNext == IInv /\ CachesOK /\ [Next]_vars => CachesOK'
<1> SUFFICES ASSUME IInv, CachesOK, [Next]_vars PROVE CachesOK'
  OBVIOUS
<1>l. limit \in Nat /\ \A n \in Limits : n \in Nat
  BY CollectorAssumption DEF IInv, TypeOK
<1>c. /\ CacheOK(simplify_cache, limit) /\ CacheOK(diff_cache, limit) /\ CacheOK(integrate_cache, limit)
      /\ CacheOK(Current(diff_cache), limit) /\ CacheOK(Current(integrate_cache), limit)
      /\ CacheOK(Current(simplify_cache), limit)
  BY <1>l, CurrentOK DEF CachesOK
<1>1. CASE UNCHANGED <<limit, simplify_cache, diff_cache, integrate_cache>>
  BY <1>1 DEF CachesOK
<1>2. ASSUME NEW h \in Live, Simplify(h) PROVE CachesOK'
  <2>1. PICK r \in Results, subjects \in SUBSET Exprs :
          /\ Simplifies(h, r, subjects, FALSE)
          /\ diff_cache' = Current(diff_cache) /\ integrate_cache' = Current(integrate_cache)
          /\ UNCHANGED modeVars
    BY <1>2 DEF Simplify
  <2>2. CacheOK(simplify_cache', limit)
    BY <1>l, <1>c, <2>1, SimplifiesOK
  <2> QED
    BY <1>c, <2>1, <2>2 DEF CachesOK, modeVars
<1>3. ASSUME NEW h \in Live, Diff(h) PROVE CachesOK'
  <2>1. PICK d \in Exprs, r \in Results, subjects \in SUBSET Exprs :
          /\ Simplifies(Node(d), r, subjects, FALSE)
          /\ diff_cache' \in Memo(Current(diff_cache), h, r)
    BY <1>3 DEF Diff
  <2>2. CacheOK(simplify_cache', limit) /\ CacheOK(diff_cache', limit)
    BY <1>l, <1>c, <2>1, SimplifiesOK, MemoOK
  <2>3. integrate_cache' = Current(integrate_cache) /\ limit' = limit
    BY <1>3 DEF Diff, modeVars
  <2> QED
    BY <1>c, <2>2, <2>3 DEF CachesOK
<1>4. ASSUME NEW h \in Live, Integrate(h) PROVE CachesOK'
  <2>1. PICK d \in Exprs, r \in Results, subjects \in SUBSET Exprs :
          /\ Simplifies(Node(d), r, subjects, TRUE)
          /\ integrate_cache' \in IF r = Null THEN {Current(integrate_cache)}
                                 ELSE Memo(Current(integrate_cache), h, r)
    BY <1>4 DEF Integrate
  <2>2. CacheOK(simplify_cache', limit) /\ CacheOK(integrate_cache', limit)
    BY <1>l, <1>c, <2>1, SimplifiesOK, MemoOK
  <2>3. diff_cache' = Current(diff_cache) /\ limit' = limit
    BY <1>4 DEF Integrate, modeVars
  <2> QED
    BY <1>c, <2>2, <2>3 DEF CachesOK
<1>5. CASE Fails
  <2>1. limit' = limit
    BY <1>5 DEF Fails, modeVars
  <2>2. \/ UNCHANGED cacheVars
        \/ /\ \/ simplify_cache' = Current(simplify_cache)
              \/ \E entry : simplify_cache' \in Stored(Current(simplify_cache), entry)
           /\ diff_cache' = Current(diff_cache) /\ integrate_cache' = Current(integrate_cache)
    BY <1>5 DEF Fails
  <2> QED
    BY <1>l, <1>c, <2>1, <2>2, StoredOK DEF CachesOK, cacheVars
<1>6. ASSUME Emptied, limit' = limit PROVE CachesOK'
  BY <1>6, <1>l, EmptyOK DEF Emptied, CachesOK
<1>7. ASSUME NEW n \in Limits, SetCacheLimit(n) PROVE CachesOK'
  <2>1. ASSUME NEW c, CacheOK(c, limit), NEW kept \in Cut(c, n) PROVE CacheOK(kept, n)
    BY <1>l, <2>1, CutOK DEF CacheOK, Unique
  <2> QED
    BY <1>7, <1>c, <2>1 DEF SetCacheLimit, CachesOK
<1>8. CASE CollectGarbage
  <2>1. PICK copy : Collects(copy)
    BY <1>8, CollectsAll
  <2>2. simplify_cache \subseteq Entry /\ diff_cache \subseteq Entry /\ integrate_cache \subseteq Entry
    BY DEF IInv, TypeOK
  <2>3. /\ PointersIn(simplify_cache) \subseteq Reached /\ PointersIn(diff_cache) \subseteq Reached
        /\ PointersIn(integrate_cache) \subseteq Reached
    BY DEF Reached
  <2>4. /\ simplify_cache' \in CloneCache(simplify_cache, copy) /\ diff_cache' \in CloneCache(diff_cache, copy)
        /\ integrate_cache' \in CloneCache(integrate_cache, copy)
    BY <2>1 DEF Collects
  <2>5. limit' = limit
    BY <1>8 DEF CollectGarbage, modeVars
  <2> QED
    BY <1>l, <1>c, <1>8, <2>1, <2>2, <2>3, <2>4, <2>5, CloneOK DEF CachesOK
<1>9. CASE (\E e \in Exprs : Parse(e)) \/ (\E h \in Live : \E n \in Names : Define(n, h))
           \/ (\E s \in Symbols : AssumeNatural(s) \/ Discard(s) \/ \E h, g \in Live : AssumeInRange(s, h, g))
           \/ (\E h, g \in Live \cup {Null} : Assume(h, g)) \/ (\E h \in Live : Register(h))
           \/ ClearVariables \/ ClearAssumptions \/ Release \/ \E enabled \in BOOLEAN : EnableTrace(enabled)
  <2>1. UNCHANGED <<limit, simplify_cache, diff_cache, integrate_cache>>
    BY <1>9 DEF Parse, Define, AssumeInRange, AssumeNatural, Discard, Assume, Register, ClearVariables, ClearAssumptions, Release, EnableTrace,
       modeVars, cacheVars
  <2> QED
    BY <1>1, <2>1
<1>10. CASE ClearCaches \/ \E enabled \in BOOLEAN : SetCachingEnabled(enabled)
  <2>1. limit' = limit /\ (Emptied \/ UNCHANGED cacheVars)
    BY <1>10 DEF ClearCaches, SetCachingEnabled, modeVars
  <2> QED
    BY <1>1, <1>6, <2>1 DEF cacheVars
<1> QED
  BY <1>1, <1>2, <1>3, <1>4, <1>5, <1>7, <1>8, <1>9, <1>10 DEF Next, vars, modeVars, cacheVars

(* However simplify, diff, integrate, failures, limits and collections      *)
(* follow each other, no cache exceeds the limit in force or holds two      *)
(* answers for one expression.                                              *)
THEOREM CacheLimitsKept == Spec => []CachesWithinLimit
<1>1. Init => CachesOK
  <2> SUFFICES ASSUME Init PROVE CachesOK
    OBVIOUS
  <2>1. limit \in Nat
    BY CollectorAssumption DEF Init
  <2> QED
    BY <2>1, EmptyOK DEF Init, CachesOK
<1>2. CachesOK => CachesWithinLimit
  BY DEF CachesOK, CacheOK, Unique, CachesWithinLimit
<1> QED
  BY <1>1, <1>2, Inductive, CachesNext, PTL DEF Spec
=============================================================================
