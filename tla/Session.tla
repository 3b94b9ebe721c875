------------------------------ MODULE Session ------------------------------
(***************************************************************************)
(* The session object (cas::symbolic::CASContext) as its operations see    *)
(* it: the memo caches of simplify and integrate and their invalidation by *)
(* the revision of the assumptions, the operation flag and the budget of   *)
(* node visits, the accumulator of domain conditions and its rollback, and *)
(* the post-simplify hook.  Operations call one another on one thread: a   *)
(* frame of the stack is a C++ call in progress.  What a computation does  *)
(* is left open: it visits nodes, takes conditions, calls other operations *)
(* and may fail at any point (a budget, a timeout, an interrupt or an      *)
(* unimplemented case: every failure is a returned error).  Two results    *)
(* differ when they were computed under different assumptions.             *)
(***************************************************************************)
EXTENDS SideConditions, FiniteSets

CONSTANTS
    Exprs,              \* keys of simplify_cache_
    Integrands,         \* keys of integrate_cache_
    HookSimplifies,     \* results hold a RootOf, so the hook calls simplify
    Assumable,          \* the facts among Conditions the client states
    OpsLimits,          \* the values the client gives max_operation_ops
    DefaultOps,         \* max_operation_ops_ of a new session
    IntegrationCap,     \* max_integration_ops
    MaxRevision,        \* bound: the facts stated between two resets
    MaxDepth,           \* bound: the nesting of operations
    MaxVisits,          \* bound: the node visits of an operation
    None                \* no cache entry, no cap to restore, no call yet

ASSUME SessionAssumption ==
    /\ OpsLimits \subseteq Nat /\ {DefaultOps, IntegrationCap, MaxRevision, MaxVisits} \subseteq Nat
    /\ MaxDepth \in Nat \ {0}
    /\ HookSimplifies \in BOOLEAN /\ Assumable \subseteq Conditions
    /\ None \notin [max : Nat, explicit : BOOLEAN]

VARIABLES
    facts, revision,                \* assumptions_
    last_assumptions_revision,
    caching_enabled, simplify_cache, integrate_cache,
    side_conditions,                \* the accumulator, last_side_conditions()
    operation_active, ops_count,
    max_operation_ops, max_operation_ops_explicit,
    stack,                          \* the calls in progress, innermost last
    client,                         \* history: the budget the client set
    last                            \* history: how the latest call of the client ended

cacheVars  == <<last_assumptions_revision, caching_enabled, simplify_cache, integrate_cache>>
budgetVars == <<operation_active, ops_count, max_operation_ops, max_operation_ops_explicit>>
vars == <<facts, revision, cacheVars, side_conditions, budgetVars, stack, client, last>>

Budget == [max : Nat, explicit : BOOLEAN]

\* An entry of simplify_cache_ holds the conditions cached with its result.  History:
\* the assumptions an entry was computed under, the conditions its computation took.
SimplifyEntries  == [under : SUBSET Assumable, conditions : Seq(Conditions), due : SUBSET Conditions]
IntegrateEntries == [under : SUBSET Assumable]

Init ==
    /\ facts = {} /\ revision = 0 /\ last_assumptions_revision = 0
    /\ caching_enabled = TRUE
    /\ simplify_cache = [e \in Exprs |-> None]
    /\ integrate_cache = [f \in Integrands |-> None]
    /\ side_conditions = <<>>
    /\ operation_active = FALSE /\ ops_count = 0
    /\ max_operation_ops = DefaultOps /\ max_operation_ops_explicit = FALSE
    /\ stack = <<>>
    /\ client = [max |-> DefaultOps, explicit |-> FALSE]
    /\ last = None

-----------------------------------------------------------------------------
(* Frames.  Histories of a frame: due, the conditions its work has taken;  *)
(* visits, the nodes visited under it; hit and hooked, whether it used a   *)
(* cache entry or a simplify of the hook.                                  *)

Depth == Len(stack)
Top   == stack[Depth]
Idle  == stack = <<>>
At(kinds, phases) == ~Idle /\ Top.kind \in kinds /\ Top.phase \in phases

\* What an operation may call from inside; everything ends in simplify.  The
\* hook simplifies the polynomial of a RootOf; the result of that holds no RootOf.
Callees == [simplify  |-> {"simplify", "scope"},
            scope     |-> {"simplify"},
            equal     |-> {"simplify"},
            integrate |-> {"simplify", "scope", "integrate", "attempt"},
            attempt   |-> {"simplify", "scope", "integrate", "attempt"}]

MayCall(callee) ==
    \/ Idle /\ callee # "attempt"
    \/ /\ ~Idle /\ Depth < MaxDepth /\ callee \in Callees[Top.kind]
       /\ Top.phase = "hook" => /\ callee = "simplify" /\ HookSimplifies
                                /\ Depth > 1 => stack[Depth - 1].phase # "hook"

Enter(kind, key, mark, restore) ==
    /\ stack' = Append(stack,
           [kind |-> kind, key |-> key, phase |-> "run", owns |-> ~operation_active,
            mark |-> mark, restore |-> restore,
            due |-> {}, visits |-> 0, hit |-> FALSE, hooked |-> FALSE])
    /\ last' = None

\* History: what the accumulator held before a call of the client.
Before == IF Idle THEN side_conditions ELSE <<>>

\* A call ends: its report goes to the frame that made it, or to the client.
Deliver(report, frames) ==
    IF frames = <<>>
    THEN stack' = <<>> /\ last' = report
    ELSE LET caller == frames[Len(frames)] IN
         /\ stack' = [frames EXCEPT ![Len(frames)] =
                [caller EXCEPT !.due    = caller.due \cup report.due,
                               !.hit    = caller.hit \/ report.hit,
                               !.hooked = caller.hooked \/ report.hooked \/ caller.phase = "hook"]]
         /\ last' = None

\* Fault: every operation starts a budget of its own.
BeginAlwaysResets == operation_active' = TRUE /\ ops_count' = 0

\* A top-level operation starts a budget of its own; a nested one is charged to it.
Begin ==
    /\ operation_active' = TRUE
    /\ ops_count' = IF operation_active THEN ops_count ELSE 0

\* The innermost call returns; the destructors of its scopes run.
Leave(ok, frames, conditions, ops) ==
    LET f         == frames[Len(frames)]
        closes    == f.owns /\ f.phase # "hook"
        abandoned == f.kind = "attempt" /\ ~ok
    IN  /\ operation_active' = (operation_active /\ ~closes)
        /\ ops_count' = IF closes THEN 0 ELSE ops
        /\ max_operation_ops' = IF f.restore = None THEN max_operation_ops ELSE f.restore.max
        /\ max_operation_ops_explicit' =
               IF f.restore = None THEN max_operation_ops_explicit ELSE f.restore.explicit
        /\ side_conditions' = IF abandoned THEN f.mark ELSE conditions
        /\ Deliver([kind |-> f.kind, ok |-> ok, cached |-> FALSE, under |-> facts,
                    before |-> f.mark, due |-> IF abandoned THEN {} ELSE f.due,
                    hit |-> f.hit, hooked |-> f.hooked],
                   SubSeq(frames, 1, Len(frames) - 1))

-----------------------------------------------------------------------------
(* The client, between operations. *)

Assume(c) ==
    /\ Idle /\ revision < MaxRevision /\ c \notin facts
    /\ facts' = facts \cup {c} /\ revision' = revision + 1
    /\ last' = None
    /\ UNCHANGED <<cacheVars, side_conditions, budgetVars, stack, client>>

\* clear_assumptions with the clear_caches its contract asks of the caller.
Reset ==
    /\ Idle
    /\ facts' = {} /\ revision' = 0
    /\ simplify_cache' = [e \in Exprs |-> None]
    /\ integrate_cache' = [f \in Integrands |-> None]
    /\ last' = None
    /\ UNCHANGED <<last_assumptions_revision, caching_enabled, side_conditions, budgetVars, stack, client>>

SetCachingEnabled(enabled) ==
    /\ Idle
    /\ caching_enabled' = enabled
    /\ simplify_cache' = IF enabled THEN simplify_cache ELSE [e \in Exprs |-> None]
    /\ integrate_cache' = IF enabled THEN integrate_cache ELSE [f \in Integrands |-> None]
    /\ last' = None
    /\ UNCHANGED <<facts, revision, last_assumptions_revision, side_conditions, budgetVars, stack, client>>

SetBudget(budget) ==
    /\ Idle
    /\ max_operation_ops' = budget.max /\ max_operation_ops_explicit' = budget.explicit
    /\ client' = budget
    /\ last' = None
    /\ UNCHANGED <<facts, revision, cacheVars, side_conditions, operation_active, ops_count, stack>>

SetMaxOperationOps(ops) == SetBudget([max |-> ops, explicit |-> TRUE])

\* A wall-clock budget turns the default node budget off, not an explicit one.
SetTimeout ==
    SetBudget([max |-> IF max_operation_ops_explicit THEN max_operation_ops ELSE 0,
               explicit |-> max_operation_ops_explicit])

-----------------------------------------------------------------------------
(* simplify *)

Stale == revision # last_assumptions_revision
\* Fault: the revision is recorded and the caches are kept.
CurrentKept(cache, keys) == cache
Current(cache, keys) == IF Stale THEN [k \in keys |-> None] ELSE cache

Revalidate ==
    /\ last_assumptions_revision' = revision
    /\ simplify_cache' = Current(simplify_cache, Exprs)
    /\ integrate_cache' = Current(integrate_cache, Integrands)

\* Faults: nested calls clear the accumulator; top-level calls keep it.
AccumulatorAlwaysCleared == <<>>
AccumulatorNeverCleared  == side_conditions

\* A top-level call starts a new accumulator, a nested one adds to its caller's.
Accumulator == IF operation_active THEN side_conditions ELSE <<>>

SimplifyHit(e) ==
    LET entry == Current(simplify_cache, Exprs)[e] IN
    /\ MayCall("simplify") /\ caching_enabled /\ entry # None
    /\ Revalidate
    /\ side_conditions' = Merge(Accumulator, entry.conditions)
    /\ Deliver([kind |-> "simplify", ok |-> TRUE, cached |-> TRUE, under |-> entry.under,
                before |-> <<>>, due |-> entry.due, hit |-> TRUE, hooked |-> FALSE], stack)
    /\ UNCHANGED <<facts, revision, caching_enabled, budgetVars, client>>

SimplifyMiss(e) ==
    /\ MayCall("simplify")
    /\ caching_enabled => Current(simplify_cache, Exprs)[e] = None
    /\ Revalidate
    /\ side_conditions' = Accumulator
    /\ Enter("simplify", e, Accumulator, None)
    /\ Begin
    /\ UNCHANGED <<facts, revision, caching_enabled, max_operation_ops,
                   max_operation_ops_explicit, client>>

Put(cache, entry) == IF caching_enabled THEN [cache EXCEPT ![Top.key] = entry] ELSE cache

\* The pass ends well.  A top-level call closes its operation, then runs the hook.
CloseAndHook ==
    /\ At({"simplify"}, {"run"}) /\ Top.owns
    /\ operation_active' = FALSE /\ ops_count' = 0
    /\ stack' = [stack EXCEPT ![Depth].phase = "hook"]
    /\ UNCHANGED <<facts, revision, cacheVars, side_conditions, max_operation_ops,
                   max_operation_ops_explicit, client, last>>

SimplifyDone ==
    /\ At({"simplify"}, {"run", "hook"}) /\ (Top.owns => Top.phase = "hook")
    /\ simplify_cache' = 
           Put(simplify_cache, [under |-> facts, due |-> Top.due,
                                conditions |-> Since(side_conditions, Top.mark)])
    /\ Leave(TRUE, stack, side_conditions, ops_count)
    /\ UNCHANGED <<facts, revision, last_assumptions_revision, caching_enabled, integrate_cache, client>>

-----------------------------------------------------------------------------
(* The work of a call in progress. *)

\* History: the visit is one of the operation that is open, if one is.
Visited == [i \in 1..Depth |-> IF stack[i].owns /\ stack[i].phase = "run"
                               THEN [stack[i] EXCEPT !.visits = @ + 1] ELSE stack[i]]
Exceeds(ops) == max_operation_ops > 0 /\ ops > max_operation_ops

\* A node visit (check_timeout).  Past the budget the pass fails; in the hook's
\* second pass the failure is dropped and the hook's own result is kept.
Visit ==
    /\ At({"simplify", "scope"}, {"run", "hook"})
    /\ ops_count < MaxVisits
    /\ IF Exceeds(ops_count + 1) /\ Top.phase = "run"
       THEN Leave(FALSE, Visited, side_conditions, ops_count + 1)
       ELSE /\ ops_count' = ops_count + 1
            /\ stack' = Visited
            /\ UNCHANGED <<side_conditions, operation_active, max_operation_ops,
                           max_operation_ops_explicit, last>>
    /\ UNCHANGED <<facts, revision, cacheVars, client>>

AlreadyProven(c) == \E p \in facts : p = c \/ IsStrongerAndCovers(p, c)

\* A rewrite takes a condition, whether or not the set has it.  When the set refuses it the pass fails.
EmitSideCondition(c) ==
    /\ At({"simplify", "attempt"}, {"run", "hook"})
    /\ ~AlreadyProven(c)
    /\ IF Refused(side_conditions, c) /\ Top.phase = "run"
       THEN Leave(FALSE, stack, Add(side_conditions, c), ops_count)
       ELSE /\ side_conditions' = Add(side_conditions, c)
            /\ stack' = IF Refused(side_conditions, c) THEN stack
                        ELSE [stack EXCEPT ![Depth].due = @ \cup {c}]
            /\ UNCHANGED <<budgetVars, last>>
    /\ UNCHANGED <<facts, revision, cacheVars, client>>

\* Any error return of a call: no cache entry, and the scopes unwind.
Fail ==
    /\ At({"simplify", "scope", "equal", "integrate", "attempt"}, {"run", "rest"})
    /\ Leave(FALSE, stack, side_conditions, ops_count)
    /\ UNCHANGED <<facts, revision, cacheVars, client>>

-----------------------------------------------------------------------------
(* integrate, the rollback of its attempts, and the other scopes.          *)

IntegrateHit(f) ==
    /\ MayCall("integrate") /\ caching_enabled /\ integrate_cache[f] # None
    /\ Deliver([kind |-> "integrate", ok |-> TRUE, cached |-> TRUE, under |-> integrate_cache[f].under,
                before |-> Before, due |-> {},
                hit |-> TRUE, hooked |-> FALSE], stack)
    /\ UNCHANGED <<facts, revision, cacheVars, side_conditions, budgetVars, client>>

\* Fault: the cap is imposed on a client whose budget is off.
CapLowersNoLimit == IntegrationCap # 0 /\ (max_operation_ops = 0 \/ IntegrationCap < max_operation_ops)

CapLowers == max_operation_ops # 0 /\ IntegrationCap # 0 /\ IntegrationCap < max_operation_ops

\* The scope lowers the budget to the cap of the integrator, never raises it.
IntegrateMiss(f) ==
    LET capped == ~operation_active /\ CapLowers IN
    /\ MayCall("integrate")
    /\ caching_enabled => integrate_cache[f] = None
    /\ Enter("integrate", f, Before,
             IF capped THEN [max |-> max_operation_ops, explicit |-> max_operation_ops_explicit]
             ELSE None)
    /\ Begin
    /\ max_operation_ops' = IF capped THEN IntegrationCap ELSE max_operation_ops
    /\ max_operation_ops_explicit' = (capped \/ max_operation_ops_explicit)
    /\ UNCHANGED <<facts, revision, cacheVars, side_conditions, client>>

IntegrateDone ==
    /\ At({"integrate"}, {"run"})
    /\ integrate_cache' = Put(integrate_cache, [under |-> facts])
    /\ Leave(TRUE, stack, side_conditions, ops_count)
    /\ UNCHANGED <<facts, revision, last_assumptions_revision, caching_enabled, simplify_cache, client>>

\* substitute and polynomial_gcd ("scope"), mathematically_equal ("equal"),
\* and an attempt of the integrator, which marks the accumulator.
Open(kind) ==
    /\ MayCall(kind)
    /\ Enter(kind, None, IF kind = "attempt" THEN side_conditions ELSE Before, None)
    /\ Begin
    /\ UNCHANGED <<facts, revision, cacheVars, side_conditions, max_operation_ops,
                   max_operation_ops_explicit, client>>

Done ==
    /\ At({"scope", "equal", "attempt"}, {"run", "rest"})
    /\ Leave(TRUE, stack, side_conditions, ops_count)
    /\ UNCHANGED <<facts, revision, cacheVars, client>>

\* Fault: the window is left without raising the flag again.
RadicalWindowNotRestored(from, to, active) ==
    /\ At({"equal"}, {from})
    /\ stack' = [stack EXCEPT ![Depth].phase = to]
    /\ operation_active' = FALSE
    /\ UNCHANGED <<facts, revision, cacheVars, side_conditions, ops_count, max_operation_ops,
                   max_operation_ops_explicit, client, last>>

\* The comparison runs its radical test as if no operation were open.
RadicalWindow(from, to, active) ==
    /\ At({"equal"}, {from})
    /\ stack' = [stack EXCEPT ![Depth].phase = to]
    /\ operation_active' = active
    /\ UNCHANGED <<facts, revision, cacheVars, side_conditions, ops_count, max_operation_ops,
                   max_operation_ops_explicit, client, last>>

Next ==
    \/ \E c \in Assumable : Assume(c)
    \/ \E c \in Conditions : EmitSideCondition(c)
    \/ Reset \/ \E enabled \in BOOLEAN : SetCachingEnabled(enabled)
    \/ SetTimeout \/ \E ops \in OpsLimits : SetMaxOperationOps(ops)
    \/ \E e \in Exprs : SimplifyHit(e) \/ SimplifyMiss(e)
    \/ CloseAndHook \/ SimplifyDone
    \/ \E f \in Integrands : IntegrateHit(f) \/ IntegrateMiss(f)
    \/ IntegrateDone
    \/ \E kind \in {"scope", "equal", "attempt"} : Open(kind)
    \/ RadicalWindow("run", "radical", FALSE) \/ RadicalWindow("radical", "rest", TRUE)
    \/ Visit \/ Done \/ Fail

Spec == Init /\ [][Next]_vars

-----------------------------------------------------------------------------
(* Properties *)

\* The type invariant: what every variable and frame of the session may hold.
TypeOK ==
    /\ facts \subseteq Assumable
    /\ revision \in 0..MaxRevision /\ last_assumptions_revision \in 0..MaxRevision
    /\ caching_enabled \in BOOLEAN
    /\ simplify_cache \in [Exprs -> SimplifyEntries \cup {None}]
    /\ integrate_cache \in [Integrands -> IntegrateEntries \cup {None}]
    /\ side_conditions \in Seq(Conditions) /\ Len(side_conditions) <= MaxConds
    /\ operation_active \in BOOLEAN /\ ops_count \in Nat
    /\ max_operation_ops \in Nat /\ max_operation_ops_explicit \in BOOLEAN
    /\ client \in Budget
    /\ Depth <= MaxDepth
    /\ \A i \in 1..Depth :
          /\ stack[i].kind \in DOMAIN Callees
          /\ stack[i].phase \in {"run", "hook", "radical", "rest"}
          /\ stack[i].key \in Exprs \cup Integrands \cup {None}
          /\ stack[i].mark \in Seq(Conditions) /\ stack[i].due \subseteq Conditions
          /\ stack[i].visits \in Nat
          /\ {stack[i].owns, stack[i].hit, stack[i].hooked} \subseteq BOOLEAN
          /\ stack[i].restore \in Budget \cup {None}

\* The operation flag is raised exactly while a top-level operation is open,
\* whatever mixture of scopes, manual finalizers, hook and radical window ran.
\* A flag left up would make every later simplify a nested one (context_core.cpp:75-90).
ActiveWhileOpen ==
    operation_active <=>
        \E i \in 1..Depth : stack[i].owns /\ stack[i].phase \in {"run", "rest"}

\* The budget in force is never more generous than the client's, and between
\* operations it is the client's again, failures included (context_core.cpp:117-150).
BudgetNeverWidens ==
    /\ max_operation_ops = client.max \/ max_operation_ops \in 1..(client.max - 1)
    /\ Idle => max_operation_ops = client.max /\ max_operation_ops_explicit = client.explicit

\* Everything visited inside a top-level operation is charged to it: no nested
\* call restarts the count (integrate.cpp:33-44).
ChargedToTheOuterCall ==
    \A i \in 1..Depth : stack[i].owns /\ stack[i].phase = "run" => ops_count = stack[i].visits

\* An entry that simplify can still serve was computed under the assumptions
\* in force, through any sequence of assumptions, resets and nested calls (assumptions.hpp:83-92).
SimplifyCacheIsCurrent ==
    ~Stale => \A e \in Exprs : simplify_cache[e] # None => simplify_cache[e].under = facts

\* Last call of the client was a simplify that returned a result.
Simplified == last # None /\ last.kind = "simplify" /\ last.ok
Unreported == {c \in last.due : ~Held(side_conditions, c)}

\* A result computed afresh, without cache and without the hook's simplify,
\* reports every condition taken for it, however deep (symbolic.hpp:128-134).
FreshReportIsComplete == Simplified /\ ~last.hit /\ ~last.hooked => Unreported = {}

\* No call reports a condition that was not taken for it: not one of an earlier
\* call, nor one taken only by an abandoned attempt (symbolic.hpp:296-312).
ReportedWasTaken ==
    last # None => Range(side_conditions) \subseteq Range(last.before) \cup last.due

\* What assumptions.hpp:83-92 says of integrate_cache_: an integral served to
\* the client was computed under the assumptions in force.
IntegralsAreCurrent == last # None /\ last.kind = "integrate" /\ last.ok => last.under = facts

\* What symbolic.hpp:138-140 says of a cache hit: it reports exactly the
\* conditions of the entry's computation.
HitReportIsComplete == Simplified /\ last.cached => Unreported = {}

\* What symbolic.hpp:422-426 says of one top-level call: nested simplify calls,
\* those of the hook included, add to its conditions and do not clear them.
HookKeepsConditions == Simplified /\ ~last.hit => Unreported = {}

=============================================================================
