--------------------------- MODULE RelationProver ---------------------------
(***************************************************************************)
(* The assumption store of a session (cas::symbolic::Assumptions) and its  *)
(* order prover: the client states facts about symbols and numbers, each   *)
(* kept as an edge of a relation graph or a sign of a symbol; is_greater,  *)
(* is_greater_equal and check_consistency answer by a depth-first search   *)
(* (prove_relation).  The expressions are atoms: symbols, numbers and zero *)
(* (a zero literal is stored as the null pointer, here Zero).  Compound    *)
(* terms, which is_greater splits before it asks about atoms, are left out.*)
(***************************************************************************)
EXTENDS Integers, Sequences, FiniteSets

CONSTANTS
    Symbols, Scalars, Zero, \* the atoms; Scalars are the nonzero numbers
    Value,                  \* the number an atom of Scalars \cup {Zero} denotes
    Values,                 \* what a symbol may denote
    Comparable,             \* the <<lhs, rhs>> pairs the client states facts about
    Bounds,                 \* the <<lower, upper>> ranges the client states
    None,                   \* no range
    MaxRevision             \* bound: the facts the client states in all

Numbers == Scalars \cup {Zero}
Atoms   == Symbols \cup Numbers
Rels    == {"le", "lt"}     \* RelType, read upwards: from the smaller to the larger

ASSUME AtomsAssumption ==
    /\ IsFiniteSet(Atoms)
    /\ Symbols \cap Numbers = {} /\ Zero \notin Scalars
    /\ Value \in [Numbers -> Int] /\ Value[Zero] = 0 /\ \A c \in Scalars : Value[c] # 0
    /\ Values \subseteq Int
ASSUME ClientAssumption ==
    /\ Comparable \subseteq Atoms \X Atoms
    /\ Bounds \subseteq Numbers \X Numbers /\ None \notin Bounds
    /\ MaxRevision \in Nat

VARIABLES
    relations,          \* relations_: the edges out of each atom, oldest first
    positive_symbols, negative_symbols, nonzero_symbols, range_symbols, revision,
    pc,                 \* "idle", "check" (between two searches), "search"
    op,                 \* the predicate asked last: "none" until the next one
    todo,               \* the searches check_consistency has still to make
    goal,               \* start, target and strict_needed of prove_relation
    stack, visited,     \* its locals; the top of the stack is the last entry
    result,             \* "none" while the predicate runs, then "yes" or "no"
    stated              \* history: what the client asserted, as <<lhs, rel, rhs>>

storeVars  == <<relations, positive_symbols, negative_symbols, nonzero_symbols, range_symbols, revision, stated>>
searchVars == <<pc, op, todo, goal, stack, visited, result>>
vars == <<storeVars, searchVars>>

NoGoal == [start |-> Zero, target |-> Zero, rel |-> "le"]

Init ==
    /\ relations = [a \in Atoms |-> <<>>]
    /\ positive_symbols = {} /\ negative_symbols = {} /\ nonzero_symbols = {}
    /\ range_symbols = [s \in Symbols |-> None]
    /\ revision = 0
    /\ stated = {}
    /\ pc = "idle" /\ op = "none" /\ todo = {} /\ goal = NoGoal
    /\ stack = <<>> /\ visited = {} /\ result = "none"

-----------------------------------------------------------------------------
(* The mutators.  Each ends the life of the previous answer. *)

Mutator(n) ==
    /\ pc = "idle"
    /\ revision + n <= MaxRevision
    /\ revision' = revision + n
    /\ op' = "none" /\ result' = "none" /\ goal' = NoGoal
    /\ UNCHANGED <<pc, todo, stack, visited>>

State(facts) == stated' = stated \cup facts

(* Fault: the edge is stored at its larger end. *)
RelateBackwards(lhs, rel, rhs) ==
    relations' = [relations EXCEPT ![rhs] = Append(@, [node |-> lhs, rel |-> rel])]

Relate(lhs, rel, rhs) ==
    relations' = [relations EXCEPT ![lhs] = Append(@, [node |-> rhs, rel |-> rel])]

AssumeGreater(l, r) ==
    /\ Mutator(1)
    /\ Relate(r, "lt", l)
    /\ State({<<r, "lt", l>>})
    /\ UNCHANGED <<positive_symbols, negative_symbols, nonzero_symbols, range_symbols>>

AssumeGreaterEqual(l, r) ==
    /\ Mutator(1)
    /\ Relate(r, "le", l)
    /\ State({<<r, "le", l>>})
    /\ UNCHANGED <<positive_symbols, negative_symbols, nonzero_symbols, range_symbols>>

AssumePositive(s) ==
    /\ Mutator(1)
    /\ positive_symbols' = positive_symbols \cup {s}
    /\ nonzero_symbols' = nonzero_symbols \cup {s}
    /\ State({<<Zero, "lt", s>>})
    /\ UNCHANGED <<relations, negative_symbols, range_symbols>>

(* assume_domain(s, Negative) *)
AssumeNegative(s) ==
    /\ Mutator(1)
    /\ negative_symbols' = negative_symbols \cup {s}
    /\ nonzero_symbols' = nonzero_symbols \cup {s}
    /\ State({<<s, "lt", Zero>>})
    /\ UNCHANGED <<relations, positive_symbols, range_symbols>>

AssumeNonzero(s) ==
    /\ Mutator(1)
    /\ nonzero_symbols' = nonzero_symbols \cup {s}
    /\ State({<<s, "ne", Zero>>})
    /\ UNCHANGED <<relations, positive_symbols, negative_symbols, range_symbols>>

(* Fault: the bounds are stored in the wrong order. *)
AssumeInRangeSwapped(s, range) ==
    /\ Mutator(1)
    /\ range_symbols' = [range_symbols EXCEPT ![s] = <<range[2], range[1]>>]
    /\ State({<<range[1], "le", s>>, <<s, "le", range[2]>>})
    /\ UNCHANGED <<relations, positive_symbols, negative_symbols, nonzero_symbols>>

(* A range replaces the one the symbol had. *)
AssumeInRange(s, range) ==
    /\ Mutator(1)
    /\ range_symbols' = [range_symbols EXCEPT ![s] = range]
    /\ State({<<range[1], "le", s>>, <<s, "le", range[2]>>})
    /\ UNCHANGED <<relations, positive_symbols, negative_symbols, nonzero_symbols>>

(* assume(l == r): two relations, two revisions. *)
AssumeEqual(l, r) ==
    /\ Mutator(2)
    /\ l # r
    /\ relations' = [relations EXCEPT ![r] = Append(@, [node |-> l, rel |-> "le"]),
                                      ![l] = Append(@, [node |-> r, rel |-> "le"])]
    /\ State({<<r, "le", l>>, <<l, "le", r>>})
    /\ UNCHANGED <<positive_symbols, negative_symbols, nonzero_symbols, range_symbols>>

Assume ==
    \/ \E p \in Comparable :
         AssumeGreater(p[1], p[2]) \/ AssumeGreaterEqual(p[1], p[2]) \/ AssumeEqual(p[1], p[2])
    \/ \E s \in Symbols :
         \/ AssumePositive(s) \/ AssumeNegative(s) \/ AssumeNonzero(s)
         \/ \E range \in Bounds : AssumeInRange(s, range)

-----------------------------------------------------------------------------
(* The predicates.  The search runs upwards: to prove l > r it starts at r. *)

Return(answer) ==
    /\ pc' = "idle"
    /\ result' = answer
    /\ stack' = <<>> /\ visited' = {} /\ todo' = {}

Search(g) ==
    /\ pc' = "search"
    /\ goal' = g
    /\ stack' = <<[node |-> g.start, rel |-> "le"]>>
    /\ visited' = {}

(* What is_greater and is_greater_equal answer before they search. *)
KnownYes(o, l, r) ==
    IF l = r THEN o = "greater_equal"
    ELSE \/ r = Zero /\ l \in positive_symbols
         \/ l = Zero /\ r \in negative_symbols
         \/ /\ {l, r} \subseteq Numbers
            /\ Value[l] > Value[r] \/ (o = "greater_equal" /\ Value[l] = Value[r])

KnownNo(o, l, r) == ~KnownYes(o, l, r) /\ (l = r \/ {l, r} \subseteq Numbers)

Question(o, l, r) == [start |-> r, target |-> l, rel |-> IF o = "greater" THEN "lt" ELSE "le"]

Ask(o, l, r) ==
    /\ pc = "idle"
    /\ op' = o
    /\ \/ /\ KnownYes(o, l, r)
          /\ goal' = Question(o, l, r)
          /\ Return("yes")
       \/ /\ KnownNo(o, l, r)
          /\ goal' = Question(o, l, r)
          /\ Return("no")
       \/ /\ ~KnownYes(o, l, r) /\ ~KnownNo(o, l, r)
          /\ Search(Question(o, l, r))
          /\ result' = "none"
          /\ UNCHANGED todo
    /\ UNCHANGED storeVars

(* check_consistency: the sign and range conflicts, then a strict loop      *)
(* through each atom with relations, then a path back over each strict edge.*)
SignConflict ==
    \/ positive_symbols \cap negative_symbols # {}
    \/ \E s \in Symbols :
         /\ range_symbols[s] # None
         /\ \/ s \in positive_symbols /\ Value[range_symbols[s][2]] <= 0
            \/ s \in nonzero_symbols /\ range_symbols[s] = <<Zero, Zero>>

Sources == {a \in Atoms : relations[a] # <<>>}
Edges   == {p \in Atoms \X [node : Atoms, rel : Rels] :
              \E i \in 1 .. Len(relations[p[1]]) : relations[p[1]][i] = p[2]}

Loops  == {[start |-> a, target |-> a, rel |-> "lt"] : a \in Sources}
(* Fault: every edge on a cycle is a contradiction. *)
CyclesOfAnyRelation == {[start |-> p[2].node, target |-> p[1], rel |-> "le"] : p \in Edges}

Cycles == {[start |-> p[2].node, target |-> p[1], rel |-> "le"] : p \in {q \in Edges : q[2].rel = "lt"}}

CheckConsistency ==
    /\ pc = "idle"
    /\ op' = "consistency"
    /\ goal' = NoGoal
    /\ IF SignConflict
       THEN Return("yes")
       ELSE pc' = "check" /\ todo' = Loops \cup Cycles /\ result' = "none" /\ UNCHANGED <<stack, visited>>
    /\ UNCHANGED storeVars

(* The loops come first; the order within each kind is that of a hash map. *)
NextCheck ==
    /\ pc = "check"
    /\ \E g \in todo :
         /\ g.rel = "lt" \/ \A h \in todo : h.rel = "le"
         /\ todo' = todo \ {g}
         /\ Search(g)
    /\ UNCHANGED <<storeVars, op, result>>

(* Fault: the first search that finds nothing settles the question. *)
CheckPassedEarly ==
    /\ pc = "check" /\ Cardinality(todo) < Cardinality(Loops \cup Cycles)
    /\ Return("no")
    /\ UNCHANGED <<storeVars, op, goal>>

CheckPassed ==
    /\ pc = "check" /\ todo = {}
    /\ Return("no")
    /\ UNCHANGED <<storeVars, op, goal>>

-----------------------------------------------------------------------------
(* prove_relation *)

Top  == stack[Len(stack)]
Rest == SubSeq(stack, 1, Len(stack) - 1)

Join(r, s) == IF "lt" \in {r, s} THEN "lt" ELSE "le"
Suffices(r) == goal.rel = "le" \/ r = "lt"

(* The target, a number that settles the target number, or below zero when  *)
(* the target is zero; the last is tested only on the first visit.          *)
Reached ==
    \/ Top.node = goal.target /\ Suffices(Top.rel)
    \/ /\ {Top.node, goal.target} \subseteq Scalars
       /\ \/ Value[Top.node] < Value[goal.target]
          \/ Value[Top.node] = Value[goal.target] /\ Suffices(Top.rel)
    \/ Top.node \notin visited /\ goal.target = Zero /\ Top.node \in negative_symbols

(* Fault: only the first relation of an atom is followed. *)
SuccessorsFirstOnly ==
    IF relations[Top.node] = <<>> THEN <<>>
    ELSE <<[node |-> relations[Top.node][1].node, rel |-> Join(Top.rel, relations[Top.node][1].rel)]>>

Successors ==
    [i \in 1 .. Len(relations[Top.node]) |->
        [node |-> relations[Top.node][i].node, rel |-> Join(Top.rel, relations[Top.node][i].rel)]]

(* Above zero lie the positive symbols that have relations of their own.    *)
Bridged == IF Top.node = Zero THEN positive_symbols \cap Sources ELSE {}
Orderings(S) ==
    {w \in [1 .. Cardinality(S) -> S] : \A i, j \in 1 .. Cardinality(S) : w[i] = w[j] => i = j}

Found ==
    /\ pc = "search" /\ stack # <<>>
    /\ Reached
    /\ Return("yes")
    /\ UNCHANGED <<storeVars, op, goal>>

(* Fault: an atom already visited stays on the stack. *)
SkipWithoutPop ==
    /\ pc = "search" /\ stack # <<>>
    /\ ~Reached
    /\ Top.node \in visited
    /\ UNCHANGED vars

Skip ==
    /\ pc = "search" /\ stack # <<>>
    /\ ~Reached
    /\ Top.node \in visited
    /\ stack' = Rest
    /\ UNCHANGED <<storeVars, pc, op, todo, goal, visited, result>>

Expand ==
    /\ pc = "search" /\ stack # <<>>
    /\ ~Reached
    /\ Top.node \notin visited
    /\ visited' = visited \cup {Top.node}
    /\ \E w \in Orderings(Bridged) :
         stack' = Rest \o Successors \o [i \in DOMAIN w |-> [node |-> w[i], rel |-> "lt"]]
    /\ UNCHANGED <<storeVars, pc, op, todo, goal, result>>

(* is_greater_equal falls through to is_greater, which searches again.      *)
Exhausted ==
    /\ pc = "search" /\ stack = <<>>
    /\ \/ op = "greater" /\ Return("no") /\ UNCHANGED goal
       \/ op = "greater_equal" /\ goal.rel = "lt" /\ Return("no") /\ UNCHANGED goal
       \/ /\ op = "greater_equal" /\ goal.rel = "le"
          /\ Search([goal EXCEPT !.rel = "lt"])
          /\ UNCHANGED <<todo, result>>
       \/ /\ op = "consistency"
          /\ pc' = "check" /\ visited' = {}
          /\ UNCHANGED <<goal, todo, stack, result>>
    /\ UNCHANGED <<storeVars, op>>

Step == NextCheck \/ CheckPassed \/ Found \/ Skip \/ Expand \/ Exhausted

Next ==
    \/ Assume
    \/ \E l, r \in Atoms : Ask("greater", l, r) \/ Ask("greater_equal", l, r)
    \/ CheckConsistency
    \/ Step

(* A predicate runs on the caller's thread until it returns. *)
Spec == Init /\ [][Next]_vars
FairSpec == Spec /\ WF_vars(Step)

-----------------------------------------------------------------------------
(* What the answers mean *)

Entries == [node : Atoms, rel : Rels]

TypeOK ==
    /\ relations \in [Atoms -> Seq(Entries)]
    /\ positive_symbols \subseteq Symbols /\ negative_symbols \subseteq Symbols
    /\ nonzero_symbols \subseteq Symbols
    /\ range_symbols \in [Symbols -> Bounds \cup {None}]
    /\ revision \in 0 .. MaxRevision
    /\ pc \in {"idle", "check", "search"}
    /\ op \in {"none", "greater", "greater_equal", "consistency"}
    /\ todo \subseteq [start : Atoms, target : Atoms, rel : Rels]
    /\ goal \in [start : Atoms, target : Atoms, rel : Rels]
    /\ stack \in Seq(Entries) /\ visited \subseteq Atoms
    /\ result \in {"none", "yes", "no"}
    /\ stated \subseteq Atoms \X (Rels \cup {"ne"}) \X Atoms

Holds(v, l, rel, r) ==
    CASE rel = "lt" -> v[l] < v[r]
      [] rel = "le" -> v[l] <= v[r]
      [] OTHER      -> v[l] # v[r]

(* The assignments of numbers to the atoms that make every stated fact true.*)
Models ==
    {v \in [Atoms -> Values \cup {Value[c] : c \in Numbers}] :
        /\ \A c \in Numbers : v[c] = Value[c]
        /\ \A f \in stated : Holds(v, f[1], f[2], f[3])}

(* A yes of is_greater or is_greater_equal is a consequence of the facts    *)
(* stated: it holds under every assignment that satisfies them all.  The    *)
(* simplifier drops absolute values and signs on the strength of it.        *)
AnswersAreConsequences ==
    result = "yes" /\ op \in {"greater", "greater_equal"} =>
        \A v \in Models :
            /\ v[goal.start] <= v[goal.target]
            /\ op = "greater" => v[goal.start] < v[goal.target]

(* check_consistency reports a contradiction only when no assignment        *)
(* satisfies the stated facts.                                              *)
ContradictionsAreReal == result = "yes" /\ op = "consistency" => Models = {}

(* No chain of relations leads from a to b: a set of atoms closed under the *)
(* relations holds a and not b.                                             *)
Closed(S) == \A a \in S : \A i \in 1 .. Len(relations[a]) : relations[a][i].node \in S
Separated(a, b) == \E S \in SUBSET Atoms : Closed(S) /\ a \in S /\ b \notin S

(* is_greater_equal says no only when no chain of stated relations leads    *)
(* from rhs to lhs, however the earlier facts ordered the search.           *)
RefusalMeansNoChain ==
    result = "no" /\ op = "greater_equal" /\ goal.start # goal.target /\ ~({goal.start, goal.target} \subseteq Numbers)
        => Separated(goal.start, goal.target)

(* check_consistency accepts no store with a strict relation on a cycle.    *)
AcceptedMeansAcyclic ==
    result = "no" /\ op = "consistency" =>
        \A a \in Atoms : \A i \in 1 .. Len(relations[a]) :
            relations[a][i].rel = "lt" => Separated(relations[a][i].node, a)

(* Every predicate returns, whatever cycles the stated relations form.      *)
EveryPredicateReturns == pc # "idle" ~> pc = "idle"

(* test_assumptions_advanced_new.cpp:86 (TransitiveProperty): a chain with  *)
(* one strict link proves the strict relation of its ends (here whenever    *)
(* the stated facts have a model).                                          *)
StrictClosed(S) ==
    \A p \in S : \A i \in 1 .. Len(relations[p[1]]) :
        <<relations[p[1]][i].node, Join(p[2], relations[p[1]][i].rel)>> \in S

StrictChainsAreFound ==
    (result = "no" /\ op = "greater" /\ Models # {}
      /\ goal.start # goal.target /\ ~({goal.start, goal.target} \subseteq Numbers))
        => \E S \in SUBSET (Atoms \X Rels) :
             /\ StrictClosed(S)
             /\ <<goal.start, "le">> \in S /\ <<goal.target, "lt">> \notin S
=============================================================================
