----------------------- MODULE RelationProver_proofs -----------------------
(***************************************************************************)
(* Proofs about the assumption store and its order prover.  A yes is a     *)
(* consequence of the stated facts because every stack entry is one; a no  *)
(* of a non-strict search means no chain because the visited atoms and the *)
(* stack stay closed under the relations.                                  *)
(***************************************************************************)
EXTENDS RelationProver, FiniteSetTheorems, SequenceTheorems, TLAPS

(* An entry of a sequence, and those of a concatenation. *)
Occurs(s, e) == \E i \in 1 .. Len(s) : s[i] = e

LEMMA OccursConcat ==
    ASSUME NEW S, NEW s \in Seq(S), NEW t \in Seq(S), NEW e
    PROVE  Occurs(s \o t, e) <=> Occurs(s, e) \/ Occurs(t, e)
<1>1. ASSUME NEW i \in 1 .. Len(s) PROVE i \in 1 .. Len(s \o t) /\ (s \o t)[i] = s[i]
  OBVIOUS
<1>2. ASSUME NEW i \in 1 .. Len(t)
      PROVE  i + Len(s) \in 1 .. Len(s \o t) /\ (s \o t)[i + Len(s)] = t[i]
  OBVIOUS
<1>3. ASSUME NEW i \in 1 .. Len(s \o t)
      PROVE  \/ i \in 1 .. Len(s) /\ (s \o t)[i] = s[i]
             \/ i - Len(s) \in 1 .. Len(t) /\ (s \o t)[i] = t[i - Len(s)]
  OBVIOUS
<1> QED
  BY <1>1, <1>2, <1>3 DEF Occurs

LEMMA StackFacts ==
    ASSUME stack \in Seq(Entries), stack # <<>>
    PROVE  /\ Top \in Entries /\ Rest \in Seq(Entries)
           /\ Occurs(stack, Top)
           /\ \A e : Occurs(Rest, e) => Occurs(stack, e)
           /\ \A e : Occurs(stack, e) => e = Top \/ Occurs(Rest, e)
<1>1. Len(stack) \in Nat \ {0}
  OBVIOUS
<1>2. Top \in Entries
  BY <1>1 DEF Top
<1>3. Rest \in Seq(Entries) /\ Len(Rest) = Len(stack) - 1 /\ \A i \in 1 .. Len(stack) - 1 : Rest[i] = stack[i]
  <2>1. \A i \in 1 .. Len(stack) - 1 : stack[i] \in Entries
    BY <1>1
  <2>2. Len(stack) - 1 \in Int /\ 1 \in Int
    BY <1>1
  <2>3. /\ Rest \in Seq(Entries)
        /\ Len(Rest) = IF 1 <= Len(stack) - 1 THEN Len(stack) - 1 - 1 + 1 ELSE 0
        /\ \A i \in 1 .. Len(stack) - 1 - 1 + 1 : Rest[i] = stack[1 + i - 1]
    BY <2>1, <2>2, SubSeqProperties DEF Rest
  <2>4. Len(stack) - 1 - 1 + 1 = Len(stack) - 1 /\ (~(1 <= Len(stack) - 1) => Len(stack) - 1 = 0)
    <3>1. \A n \in Nat \ {0} : n - 1 - 1 + 1 = n - 1 /\ (~(1 <= n - 1) => n - 1 = 0)
      OBVIOUS
    <3> QED
      BY <1>1, <3>1
  <2>5. \A i \in 1 .. Len(stack) - 1 : 1 + i - 1 = i
    BY <1>1
  <2>6. Len(Rest) = Len(stack) - 1
    BY <2>3, <2>4
  <2>7. \A i \in 1 .. Len(stack) - 1 : Rest[i] = stack[i]
    BY <2>3, <2>4, <2>5
  <2> QED
    BY <2>3, <2>6, <2>7
<1> QED
  BY <1>1, <1>2, <1>3 DEF Occurs, Top

LEMMA SuccessorsType ==
    ASSUME relations \in [Atoms -> Seq(Entries)], Top \in Entries
    PROVE  /\ Successors \in Seq(Entries)
           /\ \A i \in 1 .. Len(relations[Top.node]) :
                /\ relations[Top.node][i] \in Entries
                /\ Occurs(Successors, [node |-> relations[Top.node][i].node,
                                       rel |-> Join(Top.rel, relations[Top.node][i].rel)])
           /\ \A e : Occurs(Successors, e) =>
                \E i \in 1 .. Len(relations[Top.node]) :
                    e = [node |-> relations[Top.node][i].node,
                         rel |-> Join(Top.rel, relations[Top.node][i].rel)]
<1>1. Top.node \in Atoms /\ relations[Top.node] \in Seq(Entries)
  BY DEF Entries
<1>2. \A i \in 1 .. Len(relations[Top.node]) : relations[Top.node][i] \in Entries
  BY <1>1
<1>3. \A i \in 1 .. Len(relations[Top.node]) :
        [node |-> relations[Top.node][i].node,
         rel |-> Join(Top.rel, relations[Top.node][i].rel)] \in Entries
  BY <1>2 DEF Entries, Join, Rels
<1>4. Successors \in Seq(Entries) /\ Len(Successors) = Len(relations[Top.node])
  BY <1>1, <1>3 DEF Successors
<1> QED
  BY <1>1, <1>2, <1>4 DEF Successors, Occurs

(* What an expansion puts on the stack. *)
LEMMA ExpandFacts ==
    ASSUME TypeOK, Expand
    PROVE  /\ stack' \in Seq(Entries)
           /\ \A e : Occurs(Rest, e) \/ Occurs(Successors, e) => Occurs(stack', e)
           /\ \A e : Occurs(stack', e) =>
                \/ Occurs(Rest, e) \/ Occurs(Successors, e)
                \/ e.node \in Bridged /\ e.rel = "lt"
<1>1. /\ stack # <<>> /\ Top \in Entries /\ Rest \in Seq(Entries) /\ Successors \in Seq(Entries)
  BY StackFacts, SuccessorsType DEF Expand, TypeOK
<1>2. PICK w \in Orderings(Bridged) :
         stack' = Rest \o Successors \o [i \in DOMAIN w |-> [node |-> w[i], rel |-> "lt"]]
  BY DEF Expand
<1>3. IsFiniteSet(Bridged) /\ Bridged \subseteq Atoms
  <2>1. Bridged \subseteq Atoms
    BY DEF Bridged, TypeOK, Atoms
  <2> QED
    BY <2>1, AtomsAssumption, FS_Subset
<1>4. Cardinality(Bridged) \in Nat
  BY <1>3, FS_CardinalityType
<1> DEFINE up == [i \in DOMAIN w |-> [node |-> w[i], rel |-> "lt"]]
<1>5. /\ up = [i \in 1 .. Cardinality(Bridged) |-> [node |-> w[i], rel |-> "lt"]]
      /\ \A i \in 1 .. Cardinality(Bridged) : w[i] \in Bridged
  BY <1>2 DEF Orderings
<1>6. up \in Seq(Entries) /\ Len(up) = Cardinality(Bridged)
  <2>1. \A i \in 1 .. Cardinality(Bridged) : [node |-> w[i], rel |-> "lt"] \in Entries
    BY <1>3, <1>5 DEF Entries, Rels
  <2> HIDE DEF up
  <2> QED
    BY <1>4, <1>5, <2>1
<1>7. \A e : Occurs(up, e) => e.node \in Bridged /\ e.rel = "lt"
  <2> HIDE DEF up
  <2>1. \A i \in 1 .. Len(up) : up[i].node = w[i] /\ up[i].rel = "lt"
    BY <1>5, <1>6
  <2> SUFFICES ASSUME NEW e, NEW i \in 1 .. Len(up), up[i] = e
               PROVE  e.node \in Bridged /\ e.rel = "lt"
    BY DEF Occurs
  <2> QED
    BY <1>5, <1>6, <2>1
<1> HIDE DEF up
<1>8. stack' = (Rest \o Successors) \o up /\ Rest \o Successors \in Seq(Entries)
  BY <1>1, <1>2 DEF up
<1>9. stack' \in Seq(Entries)
  BY <1>6, <1>8
<1>10. \A e : Occurs(stack', e) <=> Occurs(Rest, e) \/ Occurs(Successors, e) \/ Occurs(up, e)
  <2> TAKE e
  <2>1. Occurs(Rest \o Successors, e) <=> Occurs(Rest, e) \/ Occurs(Successors, e)
    BY <1>1, OccursConcat
  <2>2. Occurs((Rest \o Successors) \o up, e) <=> Occurs(Rest \o Successors, e) \/ Occurs(up, e)
    BY <1>6, <1>8, OccursConcat
  <2> QED
    BY <1>8, <2>1, <2>2
<1> QED
  BY <1>7, <1>9, <1>10

-----------------------------------------------------------------------------
(* Type correctness *)

LEMMA RelateFacts ==
    ASSUME NEW R \in [Atoms -> Seq(Entries)], NEW l \in Atoms, NEW e \in Entries,
           NEW Q, Q = [R EXCEPT ![l] = Append(@, e)]
    PROVE  /\ Q \in [Atoms -> Seq(Entries)]
           /\ \A n \in Atoms : \A i \in 1 .. Len(Q[n]) :
                \/ n = l /\ Q[n][i] = e
                \/ i \in 1 .. Len(R[n]) /\ Q[n][i] = R[n][i]
<1>1. R[l] \in Seq(Entries)
  OBVIOUS
<1>2. Append(R[l], e) \in Seq(Entries) /\ Len(Append(R[l], e)) = Len(R[l]) + 1
  BY <1>1
<1>3. \A i \in 1 .. Len(R[l]) + 1 : Append(R[l], e)[i] = IF i <= Len(R[l]) THEN R[l][i] ELSE e
  BY <1>1
<1>4. Q \in [Atoms -> Seq(Entries)] /\ Q[l] = Append(R[l], e) /\ \A n \in Atoms : n # l => Q[n] = R[n]
  BY <1>2
<1> QED
  BY <1>1, <1>2, <1>3, <1>4

LEMMA AtomSets ==
    /\ Zero \in Atoms /\ Scalars \subseteq Atoms /\ Numbers \subseteq Atoms /\ Symbols \subseteq Atoms
    /\ NoGoal \in [start : Atoms, target : Atoms, rel : Rels]
BY DEF Atoms, Numbers, NoGoal, Rels

LEMMA TypeAssume ==
    ASSUME TypeOK, Assume
    PROVE  TypeOK'
<1> USE AtomSets, ClientAssumption DEF TypeOK
<1>0. \A n \in Nat : revision + n <= MaxRevision => revision + n \in 0 .. MaxRevision
  OBVIOUS
<1>1. ASSUME NEW p \in Comparable, AssumeGreater(p[1], p[2]) PROVE TypeOK'
  <2>1. p[1] \in Atoms /\ p[2] \in Atoms /\ [node |-> p[1], rel |-> "lt"] \in Entries
    BY DEF Entries, Rels
  <2>2. relations' \in [Atoms -> Seq(Entries)]
    BY <1>1, <2>1, RelateFacts DEF AssumeGreater, Relate
  <2>3. stated' \subseteq Atoms \X (Rels \cup {"ne"}) \X Atoms
    BY <1>1, <2>1 DEF AssumeGreater, State, Rels
  <2> QED
    BY <1>0, <1>1, <2>2, <2>3, AtomSets DEF AssumeGreater, Mutator
<1>2. ASSUME NEW p \in Comparable, AssumeGreaterEqual(p[1], p[2]) PROVE TypeOK'
  <2>1. p[1] \in Atoms /\ p[2] \in Atoms /\ [node |-> p[1], rel |-> "le"] \in Entries
    BY DEF Entries, Rels
  <2>2. relations' \in [Atoms -> Seq(Entries)]
    BY <1>2, <2>1, RelateFacts DEF AssumeGreaterEqual, Relate
  <2>3. stated' \subseteq Atoms \X (Rels \cup {"ne"}) \X Atoms
    BY <1>2, <2>1 DEF AssumeGreaterEqual, State, Rels
  <2> QED
    BY <1>0, <1>2, <2>2, <2>3, AtomSets DEF AssumeGreaterEqual, Mutator
<1>3. ASSUME NEW p \in Comparable, AssumeEqual(p[1], p[2]) PROVE TypeOK'
  <2>1. /\ p[1] \in Atoms /\ p[2] \in Atoms
        /\ [node |-> p[1], rel |-> "le"] \in Entries /\ [node |-> p[2], rel |-> "le"] \in Entries
    BY DEF Entries, Rels
  <2>2. relations' \in [Atoms -> Seq(Entries)]
    <3> DEFINE R == [relations EXCEPT ![p[2]] = Append(@, [node |-> p[1], rel |-> "le"])]
    <3>1. R \in [Atoms -> Seq(Entries)]
      BY <2>1, RelateFacts
    <3>2. relations' = [R EXCEPT ![p[1]] = Append(@, [node |-> p[2], rel |-> "le"])]
      BY <1>3, <2>1 DEF AssumeEqual
    <3> HIDE DEF R
    <3> QED
      BY <2>1, <3>1, <3>2, RelateFacts
  <2>3. stated' \subseteq Atoms \X (Rels \cup {"ne"}) \X Atoms
    BY <1>3, <2>1 DEF AssumeEqual, State, Rels
  <2> QED
    BY <1>0, <1>3, <2>2, <2>3, AtomSets DEF AssumeEqual, Mutator
<1>4. ASSUME NEW s \in Symbols, AssumePositive(s) \/ AssumeNegative(s) \/ AssumeNonzero(s) PROVE TypeOK'
  BY <1>0, <1>4 DEF AssumePositive, AssumeNegative, AssumeNonzero, Mutator, State, Rels
<1>5. ASSUME NEW s \in Symbols, NEW range \in Bounds, AssumeInRange(s, range) PROVE TypeOK'
  <2>1. range[1] \in Atoms /\ range[2] \in Atoms
    OBVIOUS
  <2> QED
    BY <1>0, <1>5, <2>1 DEF AssumeInRange, Mutator, State, Rels
<1> QED
  BY <1>1, <1>2, <1>3, <1>4, <1>5 DEF Assume

LEMMA SearchType ==
    ASSUME NEW g \in [start : Atoms, target : Atoms, rel : Rels], Search(g)
    PROVE  /\ pc' = "search" /\ goal' = g /\ visited' = {}
           /\ stack' \in Seq(Entries) /\ stack' # <<>>
           /\ \A e : Occurs(stack', e) <=> e = [node |-> g.start, rel |-> "le"]
<1>1. [node |-> g.start, rel |-> "le"] \in Entries
  BY DEF Entries, Rels
<1> QED
  BY <1>1 DEF Search, Occurs

LEMMA TypeAsk ==
    ASSUME TypeOK, NEW l \in Atoms, NEW r \in Atoms, NEW o \in {"greater", "greater_equal"}, Ask(o, l, r)
    PROVE  TypeOK'
<1>1. Question(o, l, r) \in [start : Atoms, target : Atoms, rel : Rels]
  BY DEF Question, Rels
<1>2. CASE Return("yes") \/ Return("no")
  <2>1. /\ pc' = "idle" /\ result' \in {"yes", "no"} /\ stack' = <<>> /\ visited' = {} /\ todo' = {}
    BY <1>2 DEF Return
  <2>2. op' = o /\ goal' = Question(o, l, r) /\ UNCHANGED storeVars
    BY <1>2, <2>1 DEF Ask, Search
  <2> QED
    BY <1>1, <2>1, <2>2 DEF TypeOK, storeVars
<1>3. CASE Search(Question(o, l, r)) /\ result' = "none" /\ UNCHANGED todo
  BY <1>1, <1>3, SearchType DEF Ask, TypeOK, storeVars
<1> QED
  BY <1>2, <1>3 DEF Ask

LEMMA TypeSearch ==
    ASSUME TypeOK, CheckConsistency \/ Step
    PROVE  TypeOK'
<1> USE DEF TypeOK, storeVars
<1>1. CASE CheckConsistency
  <2>1. Loops \cup Cycles \subseteq [start : Atoms, target : Atoms, rel : Rels]
    BY DEF Loops, Cycles, Sources, Edges, Rels
  <2>2. todo' \subseteq [start : Atoms, target : Atoms, rel : Rels]
    BY <1>1, <2>1 DEF CheckConsistency, Return
  <2>3. /\ pc' \in {"idle", "check"} /\ result' \in {"yes", "none"} /\ op' = "consistency"
        /\ goal' = NoGoal /\ (stack' = <<>> \/ stack' = stack) /\ (visited' = {} \/ visited' = visited) /\ UNCHANGED storeVars
    BY <1>1 DEF CheckConsistency, Return
  <2>4. stack' \in Seq(Entries) /\ visited' \subseteq Atoms
    <3>1. <<>> \in Seq(Entries)
      OBVIOUS
    <3>2. stack \in Seq(Entries) /\ visited \subseteq Atoms
      OBVIOUS
    <3> QED
      BY <2>3, <3>1, <3>2, Zenon
  <2> QED
    BY <2>2, <2>3, <2>4, AtomSets
<1>2. CASE NextCheck
  BY <1>2, SearchType DEF NextCheck
<1>3. CASE CheckPassed
  BY <1>3 DEF CheckPassed, Return
<1>4. CASE Found
  BY <1>4 DEF Found, Return
<1>5. CASE Skip
  BY <1>5, StackFacts DEF Skip
<1>6. CASE Expand
  <2>1. stack' \in Seq(Entries) /\ Top \in Entries
    BY <1>6, ExpandFacts, StackFacts DEF Expand
  <2> QED
    BY <1>6, <2>1 DEF Expand, Entries
<1>7. CASE Exhausted
  <2>1. [goal EXCEPT !.rel = "lt"] \in [start : Atoms, target : Atoms, rel : Rels]
    BY DEF Rels
  <2> QED
    BY <1>7, <2>1, SearchType DEF Exhausted, Return
<1> QED
  BY <1>1, <1>2, <1>3, <1>4, <1>5, <1>6, <1>7 DEF Step

LEMMA TypeNext == TypeOK /\ [Next]_vars => TypeOK'
<1> SUFFICES ASSUME TypeOK, [Next]_vars PROVE TypeOK'
  OBVIOUS
<1>1. CASE UNCHANGED vars
  BY <1>1 DEF vars, storeVars, searchVars, TypeOK
<1> QED
  BY <1>1, TypeAssume, TypeAsk, TypeSearch DEF Next

LEMMA TypeInit == Init => TypeOK
BY AtomSets, ClientAssumption DEF Init, TypeOK

(* The store keeps its shape whatever is stated and asked.                  *)
THEOREM ProverTypeCorrect == Spec => []TypeOK
BY TypeInit, TypeNext, PTL DEF Spec

-----------------------------------------------------------------------------
(* Soundness *)

(* The end of an edge, or of a path, lies above its start.                  *)
Above(v, n, e) == v[n] <= v[e.node] /\ (e.rel = "lt" => v[n] < v[e.node])

(* The store says nothing the client did not state.                         *)
StoreTrue ==
    \A v \in Models :
        /\ \A n \in Atoms : \A i \in 1 .. Len(relations[n]) : Above(v, n, relations[n][i])
        /\ \A s \in positive_symbols : v[Zero] < v[s]
        /\ \A s \in negative_symbols : v[s] < v[Zero]
        /\ \A s \in nonzero_symbols : v[s] # v[Zero]
        /\ \A s \in Symbols : range_symbols[s] # None =>
             v[range_symbols[s][1]] <= v[s] /\ v[s] <= v[range_symbols[s][2]]

(* Every entry of the stack lies above the start of the search.             *)
StackTrue ==
    pc = "search" => \A e \in Entries : Occurs(stack, e) => \A v \in Models : Above(v, goal.start, e)

(* A search of check_consistency can only succeed on contradictory facts.   *)
Refutes(g) ==
    \/ g.rel = "lt" /\ g.start = g.target
    \/ g.rel = "le" /\ \E i \in 1 .. Len(relations[g.target]) :
                          relations[g.target][i] = [node |-> g.start, rel |-> "lt"]

GoalsFit ==
    /\ pc = "check" => op = "consistency"
    /\ pc = "search" =>
         \/ op = "greater" /\ goal.rel = "lt"
         \/ op = "greater_equal"
         \/ op = "consistency" /\ Refutes(goal)
    /\ pc # "idle" /\ op = "consistency" => \A g \in todo : Refutes(g)
    /\ pc # "idle" => result = "none"

SoundInv ==
    /\ TypeOK /\ StoreTrue /\ StackTrue /\ GoalsFit
    /\ AnswersAreConsequences /\ ContradictionsAreReal

LEMMA ModelFacts ==
    ASSUME NEW v \in Models
    PROVE  /\ \A n \in Atoms : v[n] \in Int
           /\ \A c \in Numbers : v[c] = Value[c]
           /\ v[Zero] = 0
           /\ \A f \in stated : Holds(v, f[1], f[2], f[3])
<1>1. Values \cup {Value[c] : c \in Numbers} \subseteq Int
  BY AtomsAssumption
<1>2. v \in [Atoms -> Values \cup {Value[c] : c \in Numbers}]
  BY DEF Models
<1> QED
  BY <1>1, <1>2, AtomsAssumption DEF Models, Numbers

(* More facts, fewer models; and the models satisfy the new facts.          *)
LEMMA ModelsShrink ==
    ASSUME NEW F, State(F)
    PROVE  \A v \in Models' : v \in Models /\ \A f \in F : Holds(v, f[1], f[2], f[3])
BY DEF State, Models, Holds

LEMMA NewFact ==
    ASSUME stated \subseteq stated', NEW l, NEW rel, NEW r, <<l, rel, r>> \in stated'
    PROVE  \A v \in Models' : v \in Models /\ Holds(v, l, rel, r)
<1> SUFFICES ASSUME NEW v \in Models' PROVE v \in Models /\ Holds(v, l, rel, r)
  OBVIOUS
<1>1. v \in Models
  BY DEF Models, Holds
<1> DEFINE f == <<l, rel, r>>
<1>2. Holds(v, f[1], f[2], f[3])
  BY DEF Models, Holds
<1>3. f[1] = l /\ f[2] = rel /\ f[3] = r
  OBVIOUS
<1> HIDE DEF f
<1> QED
  BY <1>1, <1>2, <1>3

LEMMA SameModels ==
    ASSUME UNCHANGED stated
    PROVE  Models' = Models
BY DEF Models

LEMMA StoreKept ==
    ASSUME StoreTrue, UNCHANGED storeVars
    PROVE  StoreTrue'
BY SameModels DEF StoreTrue, storeVars, Above

LEMMA IdleAfterMutator ==
    ASSUME SoundInv, TypeOK', StoreTrue', NEW n, Mutator(n)
    PROVE  SoundInv'
BY DEF SoundInv, Mutator, StackTrue, GoalsFit, AnswersAreConsequences, ContradictionsAreReal

LEMMA SoundAssume ==
    ASSUME SoundInv, Assume, TypeOK'
    PROVE  SoundInv'
<1> USE AtomSets, ClientAssumption DEF SoundInv
<1>1. ASSUME NEW p \in Comparable, NEW rel \in Rels,
             relations' = [relations EXCEPT ![p[2]] = Append(@, [node |-> p[1], rel |-> rel])],
             State({<<p[2], rel, p[1]>>}),
             UNCHANGED <<positive_symbols, negative_symbols, nonzero_symbols, range_symbols>>
      PROVE  StoreTrue'
  <2>1. p[1] \in Atoms /\ p[2] \in Atoms /\ [node |-> p[1], rel |-> rel] \in Entries
    BY DEF Entries
  <2> SUFFICES ASSUME NEW v \in Models'
               PROVE  \A n \in Atoms : \A i \in 1 .. Len(relations'[n]) : Above(v, n, relations'[n][i])
    BY <1>1, ModelsShrink DEF StoreTrue
  <2>2. v \in Models /\ Holds(v, p[2], rel, p[1])
    BY <1>1, NewFact DEF State
  <2>3. Above(v, p[2], [node |-> p[1], rel |-> rel])
    BY <2>1, <2>2, ModelFacts DEF Holds, Above, Rels
  <2>4. \A n \in Atoms : \A i \in 1 .. Len(relations'[n]) :
           \/ n = p[2] /\ relations'[n][i] = [node |-> p[1], rel |-> rel]
           \/ i \in 1 .. Len(relations[n]) /\ relations'[n][i] = relations[n][i]
    BY <1>1, <2>1, RelateFacts DEF TypeOK
  <2> QED
    <3> TAKE n \in Atoms
    <3> TAKE i \in 1 .. Len(relations'[n])
    <3>1. CASE n = p[2] /\ relations'[n][i] = [node |-> p[1], rel |-> rel]
      BY <2>3, <3>1
    <3>2. CASE i \in 1 .. Len(relations[n]) /\ relations'[n][i] = relations[n][i]
      BY <2>2, <3>2 DEF StoreTrue
    <3> QED
      BY <2>4, <3>1, <3>2
<1>2. ASSUME NEW p \in Comparable, AssumeGreater(p[1], p[2]) PROVE SoundInv'
  BY <1>1, <1>2, IdleAfterMutator DEF AssumeGreater, Relate, Rels
<1>3. ASSUME NEW p \in Comparable, AssumeGreaterEqual(p[1], p[2]) PROVE SoundInv'
  BY <1>1, <1>3, IdleAfterMutator DEF AssumeGreaterEqual, Relate, Rels
<1>4. ASSUME NEW p \in Comparable, AssumeEqual(p[1], p[2]) PROVE SoundInv'
  <2>1. p[1] \in Atoms /\ p[2] \in Atoms /\ p[1] # p[2]
    BY <1>4 DEF AssumeEqual
  <2> DEFINE up == [node |-> p[1], rel |-> "le"]
  <2> DEFINE down == [node |-> p[2], rel |-> "le"]
  <2> DEFINE R == [relations EXCEPT ![p[2]] = Append(@, up)]
  <2>2. up \in Entries /\ down \in Entries
    BY <2>1 DEF Entries, Rels
  <2>3. relations' = [R EXCEPT ![p[1]] = Append(@, down)]
    BY <1>4, <2>1 DEF AssumeEqual, TypeOK
  <2>u. up.node = p[1] /\ up.rel = "le" /\ down.node = p[2] /\ down.rel = "le"
    OBVIOUS
  <2>4. /\ R \in [Atoms -> Seq(Entries)]
        /\ \A n \in Atoms : \A i \in 1 .. Len(R[n]) :
             \/ n = p[2] /\ R[n][i] = up
             \/ i \in 1 .. Len(relations[n]) /\ R[n][i] = relations[n][i]
    <3> HIDE DEF up, R
    <3>1. R = [relations EXCEPT ![p[2]] = Append(@, up)] /\ relations \in [Atoms -> Seq(Entries)]
      BY DEF R, TypeOK
    <3> QED
      BY <2>1, <2>2, <3>1, RelateFacts
  <2> HIDE DEF R, up, down
  <2>5. \A n \in Atoms : \A i \in 1 .. Len(relations'[n]) :
             \/ n = p[1] /\ relations'[n][i] = down
             \/ i \in 1 .. Len(R[n]) /\ relations'[n][i] = R[n][i]
    BY <2>1, <2>2, <2>3, <2>4, RelateFacts
  <2>6. ASSUME NEW v \in Models'
        PROVE  /\ v \in Models /\ Above(v, p[2], up) /\ Above(v, p[1], down)
    <3>1. v \in Models /\ Holds(v, p[2], "le", p[1]) /\ Holds(v, p[1], "le", p[2])
      BY <1>4, NewFact DEF AssumeEqual, State
    <3> QED
      BY <2>1, <2>u, <3>1, ModelFacts DEF Holds, Above
  <2>7. ASSUME NEW v \in Models', NEW n \in Atoms, NEW i \in 1 .. Len(relations'[n])
        PROVE  Above(v, n, relations'[n][i])
    <3>1. CASE n = p[1] /\ relations'[n][i] = down
      BY <2>6, <3>1, Zenon
    <3>2. CASE i \in 1 .. Len(R[n]) /\ relations'[n][i] = R[n][i]
      <4>1. CASE n = p[2] /\ R[n][i] = up
        BY <2>6, <3>2, <4>1, Zenon
      <4>2. CASE i \in 1 .. Len(relations[n]) /\ R[n][i] = relations[n][i]
        BY <2>6, <3>2, <4>2, Zenon DEF StoreTrue
      <4> QED
        BY <2>4, <3>2, <4>1, <4>2, Zenon
    <3> QED
      BY <2>5, <3>1, <3>2, Zenon
  <2>8. StoreTrue'
    BY <1>4, <2>6, <2>7 DEF StoreTrue, AssumeEqual
  <2> QED
    BY <1>4, <2>8, IdleAfterMutator DEF AssumeEqual
<1>5. ASSUME NEW s \in Symbols, AssumePositive(s) \/ AssumeNegative(s) \/ AssumeNonzero(s) PROVE SoundInv'
  <2>1. ASSUME AssumePositive(s) PROVE StoreTrue'
    <3>1. \A v \in Models' : v \in Models /\ Holds(v, Zero, "lt", s)
      BY <2>1, NewFact DEF AssumePositive, State
    <3>2. \A v \in Models' : v \in Models /\ v[Zero] < v[s] /\ v[s] # v[Zero]
      BY <3>1, ModelFacts DEF Holds
    <3> QED
      BY <2>1, <3>2 DEF AssumePositive, StoreTrue
  <2>2. ASSUME AssumeNegative(s) PROVE StoreTrue'
    <3>1. \A v \in Models' : v \in Models /\ Holds(v, s, "lt", Zero)
      BY <2>2, NewFact DEF AssumeNegative, State
    <3>2. \A v \in Models' : v \in Models /\ v[s] < v[Zero] /\ v[s] # v[Zero]
      BY <3>1, ModelFacts DEF Holds
    <3> QED
      BY <2>2, <3>2 DEF AssumeNegative, StoreTrue
  <2>3. ASSUME AssumeNonzero(s) PROVE StoreTrue'
    <3>1. \A v \in Models' : v \in Models /\ Holds(v, s, "ne", Zero)
      BY <2>3, NewFact DEF AssumeNonzero, State
    <3>2. \A v \in Models' : v \in Models /\ v[s] # v[Zero]
      BY <3>1 DEF Holds
    <3> QED
      BY <2>3, <3>2 DEF AssumeNonzero, StoreTrue
  <2> QED
    BY <1>5, <2>1, <2>2, <2>3, IdleAfterMutator DEF AssumePositive, AssumeNegative, AssumeNonzero
<1>6. ASSUME NEW s \in Symbols, NEW range \in Bounds, AssumeInRange(s, range) PROVE SoundInv'
  <2>1. \A v \in Models' : v \in Models /\ Holds(v, range[1], "le", s) /\ Holds(v, s, "le", range[2])
    BY <1>6, NewFact DEF AssumeInRange, State
  <2>2. \A v \in Models' : v \in Models /\ v[range[1]] <= v[s] /\ v[s] <= v[range[2]]
    BY <2>1 DEF Holds
  <2>3. StoreTrue'
    BY <1>6, <2>2 DEF AssumeInRange, StoreTrue, TypeOK
  <2> QED
    BY <1>6, <2>3, IdleAfterMutator DEF AssumeInRange
<1> QED
  BY <1>2, <1>3, <1>4, <1>5, <1>6 DEF Assume

(* A search begins with its start on the stack.                             *)
LEMMA SearchStarts ==
    ASSUME NEW g \in [start : Atoms, target : Atoms, rel : Rels], Search(g), UNCHANGED stated
    PROVE  StackTrue'
<1>1. ASSUME NEW e, Occurs(stack', e), NEW v \in Models' PROVE Above(v, g.start, e)
  <2>1. e.node = g.start /\ e.rel = "le"
    BY <1>1, SearchType
  <2>2. v[g.start] \in Int
    BY ModelFacts, SameModels
  <2> QED
    BY <2>1, <2>2 DEF Above
<1> QED
  BY <1>1, SearchType DEF StackTrue

LEMMA SoundAsk ==
    ASSUME SoundInv, NEW l \in Atoms, NEW r \in Atoms, NEW o \in {"greater", "greater_equal"},
           Ask(o, l, r), TypeOK'
    PROVE  SoundInv'
<1> USE DEF SoundInv
<1> DEFINE q == Question(o, l, r)
<1>1. q \in [start : Atoms, target : Atoms, rel : Rels] /\ q.start = r /\ q.target = l
      /\ (o = "greater" => q.rel = "lt")
  BY DEF Question, Rels
<1> HIDE DEF q
<1>2. StoreTrue' /\ Models' = Models /\ op' = o
  BY StoreKept, SameModels DEF Ask, storeVars
<1>3. CASE KnownYes(o, l, r) /\ goal' = q /\ Return("yes")
  <2>1. ASSUME NEW v \in Models PROVE v[r] <= v[l] /\ (o = "greater" => v[r] < v[l])
    <3>1. v[l] \in Int /\ v[r] \in Int
      BY ModelFacts
    <3>2. CASE l = r
      BY <1>3, <3>1, <3>2 DEF KnownYes
    <3>3. CASE l # r /\ r = Zero /\ l \in positive_symbols
      BY <3>1, <3>3 DEF StoreTrue
    <3>4. CASE l # r /\ l = Zero /\ r \in negative_symbols
      BY <3>1, <3>4 DEF StoreTrue
    <3>5. CASE /\ l # r /\ {l, r} \subseteq Numbers
               /\ Value[l] > Value[r] \/ (o = "greater_equal" /\ Value[l] = Value[r])
      <4>1. v[l] = Value[l] /\ v[r] = Value[r]
        BY <3>5, ModelFacts
      <4> QED
        BY <3>1, <3>5, <4>1
    <3> QED
      BY <1>3, <3>2, <3>3, <3>4, <3>5 DEF KnownYes
  <2> QED
    BY <1>1, <1>2, <1>3, <2>1 DEF Return, StackTrue, GoalsFit, AnswersAreConsequences, ContradictionsAreReal
<1>4. CASE Return("no")
  BY <1>2, <1>4 DEF Return, StackTrue, GoalsFit, AnswersAreConsequences, ContradictionsAreReal
<1>5. CASE Search(q) /\ result' = "none"
  <2>1. StackTrue'
    BY <1>1, <1>5, SearchStarts DEF Ask, storeVars
  <2>2. GoalsFit'
    BY <1>1, <1>2, <1>5, SearchType DEF GoalsFit
  <2> QED
    BY <1>2, <1>5, <2>1, <2>2 DEF AnswersAreConsequences, ContradictionsAreReal
<1> QED
  BY <1>3, <1>4, <1>5 DEF Ask, q

(* Two strictly ordered signs of one symbol, or a range on the wrong side.  *)
LEMMA SignConflictIsReal ==
    ASSUME TypeOK, StoreTrue, SignConflict
    PROVE  Models = {}
<1> SUFFICES ASSUME NEW v \in Models PROVE FALSE
  OBVIOUS
<1>1. \A n \in Atoms : v[n] \in Int
  BY ModelFacts
<1>2. CASE positive_symbols \cap negative_symbols # {}
  <2>1. PICK s \in Symbols : s \in positive_symbols /\ s \in negative_symbols
    BY <1>2 DEF TypeOK
  <2>2. v[Zero] \in Int /\ v[s] \in Int /\ v[Zero] < v[s] /\ v[s] < v[Zero]
    BY <1>1, <2>1, AtomSets DEF StoreTrue
  <2> QED
    BY <2>2
<1>3. ASSUME NEW s \in Symbols, range_symbols[s] # None,
             \/ s \in positive_symbols /\ Value[range_symbols[s][2]] <= 0
             \/ s \in nonzero_symbols /\ range_symbols[s] = <<Zero, Zero>>
      PROVE  FALSE
  <2>1. range_symbols[s][1] \in Numbers /\ range_symbols[s][2] \in Numbers
    BY <1>3, ClientAssumption DEF TypeOK
  <2>2. /\ v[range_symbols[s][1]] <= v[s] /\ v[s] <= v[range_symbols[s][2]]
        /\ v[range_symbols[s][2]] = Value[range_symbols[s][2]]
        /\ v[range_symbols[s][1]] \in Int /\ v[range_symbols[s][2]] \in Int /\ v[s] \in Int
        /\ v[Zero] = 0
    BY <1>1, <1>3, <2>1, ModelFacts, AtomSets DEF StoreTrue
  <2>3. CASE s \in positive_symbols /\ Value[range_symbols[s][2]] <= 0
    <3>1. 0 < v[s]
      BY <2>2, <2>3 DEF StoreTrue
    <3> QED
      BY <2>2, <2>3, <3>1
  <2>4. CASE s \in nonzero_symbols /\ range_symbols[s] = <<Zero, Zero>>
    <3>1. v[s] # 0
      BY <2>2, <2>4 DEF StoreTrue
    <3>2. range_symbols[s][1] = Zero /\ range_symbols[s][2] = Zero
      BY <2>4
    <3> QED
      BY <2>2, <3>1, <3>2
  <2> QED
    BY <1>3, <2>3, <2>4
<1> QED
  BY <1>2, <1>3 DEF SignConflict

LEMMA SoundCheck ==
    ASSUME SoundInv, CheckConsistency, TypeOK'
    PROVE  SoundInv'
<1> USE DEF SoundInv
<1>1. StoreTrue' /\ Models' = Models /\ relations' = relations
  BY StoreKept, SameModels DEF CheckConsistency, storeVars
<1>2. CASE SignConflict /\ Return("yes")
  BY <1>1, <1>2, SignConflictIsReal
     DEF CheckConsistency, Return, StackTrue, GoalsFit, AnswersAreConsequences, ContradictionsAreReal
<1>3. CASE pc' = "check" /\ todo' = Loops \cup Cycles /\ result' = "none"
  <2>1. \A g \in Loops : Refutes(g)
    BY DEF Loops, Refutes
  <2>2. \A g \in Cycles : Refutes(g)
    <3> SUFFICES ASSUME NEW p \in Edges, p[2].rel = "lt"
                 PROVE  Refutes([start |-> p[2].node, target |-> p[1], rel |-> "le"])
      BY DEF Cycles
    <3>1. p[2] = [node |-> p[2].node, rel |-> "lt"]
      BY DEF Edges
    <3>2. \E i \in 1 .. Len(relations[p[1]]) : relations[p[1]][i] = [node |-> p[2].node, rel |-> "lt"]
      BY <3>1 DEF Edges
    <3> QED
      BY <3>2 DEF Refutes
  <2>3. \A g \in todo' : Refutes(g)'
    BY <1>1, <1>3, <2>1, <2>2 DEF Refutes
  <2> QED
    BY <1>1, <1>3, <2>3 DEF CheckConsistency, StackTrue, GoalsFit, AnswersAreConsequences, ContradictionsAreReal
<1> QED
  BY <1>2, <1>3 DEF CheckConsistency

(* Reaching the target proves the goal.                                     *)
LEMMA ReachedProves ==
    ASSUME TypeOK, StoreTrue, StackTrue, pc = "search", stack # <<>>, Reached, NEW v \in Models
    PROVE  v[goal.start] <= v[goal.target] /\ (goal.rel = "lt" => v[goal.start] < v[goal.target])
<1>1. Top \in Entries /\ Above(v, goal.start, Top)
  BY StackFacts DEF TypeOK, StackTrue
<1>2. /\ goal.start \in Atoms /\ goal.target \in Atoms /\ Top.node \in Atoms
      /\ goal.rel \in Rels /\ Top.rel \in Rels
  BY <1>1 DEF TypeOK, Entries
<1>3. v[goal.start] \in Int /\ v[goal.target] \in Int /\ v[Top.node] \in Int
  BY <1>2, ModelFacts
<1>4. /\ v[goal.start] <= v[Top.node] /\ (Top.rel = "lt" => v[goal.start] < v[Top.node])
  BY <1>1 DEF Above
<1>5. CASE Top.node = goal.target /\ Suffices(Top.rel)
  BY <1>2, <1>3, <1>4, <1>5 DEF Suffices, Rels
<1>6. CASE /\ {Top.node, goal.target} \subseteq Scalars
           /\ \/ Value[Top.node] < Value[goal.target]
              \/ Value[Top.node] = Value[goal.target] /\ Suffices(Top.rel)
  <2>1. v[Top.node] = Value[Top.node] /\ v[goal.target] = Value[goal.target]
    BY <1>6, ModelFacts DEF Numbers
  <2> QED
    BY <1>2, <1>3, <1>4, <1>6, <2>1 DEF Suffices, Rels
<1>7. CASE goal.target = Zero /\ Top.node \in negative_symbols
  <2>1. v[Top.node] < v[goal.target]
    BY <1>7 DEF StoreTrue
  <2> QED
    BY <1>3, <1>4, <2>1
<1> QED
  BY <1>5, <1>6, <1>7 DEF Reached

LEMMA SoundFound ==
    ASSUME SoundInv, Found, TypeOK'
    PROVE  SoundInv'
<1> USE DEF SoundInv
<1>1. StoreTrue' /\ Models' = Models
  BY StoreKept, SameModels DEF Found, storeVars
<1>2. \A v \in Models : v[goal.start] <= v[goal.target] /\ (goal.rel = "lt" => v[goal.start] < v[goal.target])
  BY ReachedProves DEF Found
<1>3. op = "consistency" => Models = {}
  <2> SUFFICES ASSUME op = "consistency", NEW v \in Models PROVE FALSE
    OBVIOUS
  <2>1. goal.start \in Atoms /\ goal.target \in Atoms /\ v[goal.start] \in Int /\ v[goal.target] \in Int
    BY ModelFacts DEF TypeOK
  <2>2. CASE goal.rel = "lt" /\ goal.start = goal.target
    BY <1>2, <2>1, <2>2
  <2>3. ASSUME NEW i \in 1 .. Len(relations[goal.target]),
               relations[goal.target][i] = [node |-> goal.start, rel |-> "lt"]
        PROVE  FALSE
    <3>1. Above(v, goal.target, relations[goal.target][i])
      BY <2>1 DEF StoreTrue
    <3>2. v[goal.target] < v[goal.start]
      BY <2>3, <3>1 DEF Above
    <3> QED
      BY <1>2, <2>1, <3>2
  <2> QED
    BY <2>2, <2>3 DEF GoalsFit, Found, Refutes
<1> QED
  BY <1>1, <1>2, <1>3 DEF Found, Return, StackTrue, GoalsFit, AnswersAreConsequences, ContradictionsAreReal

LEMMA SoundExpand ==
    ASSUME SoundInv, Expand, TypeOK'
    PROVE  SoundInv'
<1> USE DEF SoundInv
<1>1. StoreTrue' /\ Models' = Models /\ relations' = relations
  BY StoreKept, SameModels DEF Expand, storeVars
<1>2. /\ Top \in Entries /\ Top.node \in Atoms /\ Top.rel \in Rels /\ relations \in [Atoms -> Seq(Entries)]
      /\ \A e : Occurs(Rest, e) => Occurs(stack, e)
  BY StackFacts DEF Expand, TypeOK, Entries
<1>3. ASSUME NEW e \in Entries, Occurs(stack', e), NEW v \in Models PROVE Above(v, goal.start, e)
  <2>1. /\ goal.start \in Atoms /\ e.node \in Atoms
        /\ v[goal.start] \in Int /\ v[Top.node] \in Int /\ v[e.node] \in Int
    BY <1>2, ModelFacts DEF TypeOK, Entries
  <2>2. v[goal.start] <= v[Top.node] /\ (Top.rel = "lt" => v[goal.start] < v[Top.node])
    BY <1>2, StackFacts DEF Expand, TypeOK, StackTrue, Above
  <2>3. CASE Occurs(Rest, e)
    BY <1>2, <2>3 DEF StackTrue, Expand
  <2>4. CASE Occurs(Successors, e)
    <3>1. PICK i \in 1 .. Len(relations[Top.node]) :
             e = [node |-> relations[Top.node][i].node, rel |-> Join(Top.rel, relations[Top.node][i].rel)]
      BY <1>2, <2>4, SuccessorsType
    <3>2. v[Top.node] <= v[e.node] /\ (relations[Top.node][i].rel = "lt" => v[Top.node] < v[e.node])
      BY <1>2, <3>1 DEF StoreTrue, Above
    <3>3. e.rel = "lt" => Top.rel = "lt" \/ relations[Top.node][i].rel = "lt"
      BY <3>1 DEF Join
    <3> QED
      BY <2>1, <2>2, <3>2, <3>3 DEF Above
  <2>5. CASE e.node \in Bridged
    <3>1. Top.node = Zero /\ e.node \in positive_symbols
      BY <2>5 DEF Bridged
    <3>2. v[Top.node] < v[e.node]
      BY <3>1 DEF StoreTrue
    <3> QED
      BY <2>1, <2>2, <3>2 DEF Above
  <2> QED
    BY <1>3, <2>3, <2>4, <2>5, ExpandFacts
<1>4. StackTrue'
  BY <1>1, <1>3 DEF Expand, StackTrue
<1> QED
  BY <1>1, <1>4 DEF Expand, GoalsFit, Refutes, AnswersAreConsequences, ContradictionsAreReal

LEMMA SoundSearch ==
    ASSUME SoundInv, Step, TypeOK'
    PROVE  SoundInv'
<1> USE DEF SoundInv
<1>0. UNCHANGED storeVars /\ UNCHANGED op
  BY DEF Step, NextCheck, CheckPassed, Found, Skip, Expand, Exhausted
<1>1. StoreTrue' /\ Models' = Models /\ relations' = relations
  BY <1>0, StoreKept, SameModels DEF storeVars
<1>r. \A g : Refutes(g) <=> Refutes(g)'
  BY <1>1 DEF Refutes
<1>2. CASE NextCheck
  <2>1. PICK g \in todo : todo' = todo \ {g} /\ Search(g)
    BY <1>2 DEF NextCheck
  <2>2. StackTrue' /\ pc' = "search" /\ goal' = g
    BY <1>0, <2>1, SearchStarts, SearchType DEF TypeOK, storeVars
  <2>3. op = "consistency" /\ result = "none" /\ \A h \in todo : Refutes(h)
    BY <1>2 DEF NextCheck, GoalsFit
  <2> QED
    BY <1>0, <1>1, <1>2, <1>r, <2>1, <2>2, <2>3 DEF NextCheck, GoalsFit, AnswersAreConsequences, ContradictionsAreReal
<1>3. CASE CheckPassed
  BY <1>1, <1>3 DEF CheckPassed, Return, StackTrue, GoalsFit, AnswersAreConsequences, ContradictionsAreReal
<1>4. CASE Found
  BY <1>4, SoundFound
<1>5. CASE Skip
  <2>1. \A e : Occurs(stack', e) => Occurs(stack, e)
    BY <1>5, StackFacts DEF Skip, TypeOK
  <2>2. StackTrue'
    BY <1>1, <1>5, <2>1 DEF Skip, StackTrue
  <2> QED
    BY <1>0, <1>1, <1>5, <1>r, <2>2 DEF Skip, GoalsFit, AnswersAreConsequences, ContradictionsAreReal
<1>6. CASE Expand
  BY <1>6, SoundExpand
<1>7. CASE Exhausted
  <2>1. CASE Return("no")
    BY <1>1, <2>1 DEF Return, StackTrue, GoalsFit, AnswersAreConsequences, ContradictionsAreReal
  <2>2. CASE op = "greater_equal" /\ Search([goal EXCEPT !.rel = "lt"]) /\ UNCHANGED <<todo, result>>
    <3>1. [goal EXCEPT !.rel = "lt"] \in [start : Atoms, target : Atoms, rel : Rels]
      BY DEF TypeOK, Rels
    <3>2. StackTrue' /\ pc' = "search"
      BY <1>0, <2>2, <3>1, SearchStarts, SearchType DEF storeVars
    <3> QED
      BY <1>0, <1>1, <1>7, <2>2, <3>2 DEF Exhausted, GoalsFit, AnswersAreConsequences, ContradictionsAreReal
  <2>3. CASE op = "consistency" /\ pc' = "check" /\ UNCHANGED <<goal, todo, result>>
    BY <1>0, <1>1, <1>7, <1>r, <2>3 DEF Exhausted, StackTrue, GoalsFit, AnswersAreConsequences, ContradictionsAreReal
  <2> QED
    BY <1>7, <2>1, <2>2, <2>3 DEF Exhausted
<1> QED
  BY <1>2, <1>3, <1>4, <1>5, <1>6, <1>7 DEF Step

LEMMA SoundNext == SoundInv /\ [Next]_vars => SoundInv'
<1> SUFFICES ASSUME SoundInv, [Next]_vars PROVE SoundInv'
  OBVIOUS
<1>1. TypeOK'
  BY TypeNext DEF SoundInv
<1>2. CASE UNCHANGED vars
  <2>1. StoreTrue' /\ Models' = Models
    BY <1>2, StoreKept, SameModels DEF SoundInv, vars, storeVars
  <2>2. StackTrue' /\ GoalsFit'
    BY <1>2, <2>1 DEF SoundInv, vars, storeVars, searchVars, StackTrue, GoalsFit, Refutes
  <2> QED
    BY <1>1, <1>2, <2>1, <2>2
       DEF SoundInv, vars, storeVars, searchVars, AnswersAreConsequences, ContradictionsAreReal
<1> QED
  BY <1>1, <1>2, SoundAssume, SoundAsk, SoundCheck, SoundSearch DEF Next

LEMMA SoundInit == Init => SoundInv
<1> SUFFICES ASSUME Init PROVE SoundInv
  OBVIOUS
<1>1. StoreTrue
  BY DEF Init, StoreTrue
<1> QED
  BY <1>1, TypeInit DEF Init, SoundInv, StackTrue, GoalsFit, AnswersAreConsequences, ContradictionsAreReal

(* The prover is sound: whatever was stated, in whatever order, a yes of    *)
(* is_greater or is_greater_equal holds in every model of the facts.        *)
THEOREM ProverSound == Spec => []AnswersAreConsequences
<1>1. SoundInv => AnswersAreConsequences
  BY DEF SoundInv
<1> QED
  BY <1>1, SoundInit, SoundNext, PTL DEF Spec

(* check_consistency never rejects facts that have a model.                 *)
THEOREM RejectedHasNoModel == Spec => []ContradictionsAreReal
<1>1. SoundInv => ContradictionsAreReal
  BY DEF SoundInv
<1> QED
  BY <1>1, SoundInit, SoundNext, PTL DEF Spec

-----------------------------------------------------------------------------
(* Completeness of the non-strict search *)

Stacked(n) == \E e \in Entries : Occurs(stack, e) /\ e.node = n

(* What was visited is closed under the relations but for the atoms that    *)
(* wait on the stack, and a non-strict search has not visited its target.   *)
SearchClosed ==
    pc = "search" =>
        /\ goal.start \in visited \/ Stacked(goal.start)
        /\ \A n \in visited : \A i \in 1 .. Len(relations[n]) :
             relations[n][i].node \in visited \/ Stacked(relations[n][i].node)
        /\ goal.rel = "le" => goal.target \notin visited

(* The strict search of is_greater_equal begins when no chain is left, and  *)
(* check_consistency has searched back, or still will, over a strict edge.  *)
Back(n, i) == [start |-> relations[n][i].node, target |-> n, rel |-> "le"]

PastSearches ==
    /\ pc = "search" /\ op = "greater_equal" /\ goal.rel = "lt" => Separated(goal.start, goal.target)
    /\ pc # "idle" /\ op = "consistency" =>
         \A n \in Atoms : \A i \in 1 .. Len(relations[n]) : relations[n][i].rel = "lt" =>
             \/ Back(n, i) \in todo
             \/ pc = "search" /\ goal = Back(n, i)
             \/ Separated(relations[n][i].node, n)

CompleteInv ==
    /\ TypeOK /\ SearchClosed /\ PastSearches
    /\ pc = "check" => op = "consistency"
    /\ pc # "idle" => result = "none"
    /\ RefusalMeansNoChain /\ AcceptedMeansAcyclic

LEMMA SearchStartsClosed ==
    ASSUME NEW g \in [start : Atoms, target : Atoms, rel : Rels], Search(g)
    PROVE  SearchClosed'
<1> DEFINE e == [node |-> g.start, rel |-> "le"]
<1>1. e \in Entries /\ e.node = g.start
  BY DEF Entries, Rels
<1>2. Occurs(stack', e) /\ goal' = g /\ visited' = {}
  BY SearchType
<1> HIDE DEF e
<1> QED
  BY <1>1, <1>2 DEF SearchClosed, Stacked

LEMMA SameSeparated ==
    ASSUME UNCHANGED relations
    PROVE  \A n, m : Separated(n, m) <=> Separated(n, m)'
BY DEF Separated, Closed

(* An exhausted non-strict search leaves a closed set without its target.   *)
LEMMA ExhaustedSeparates ==
    ASSUME CompleteInv, pc = "search", stack = <<>>, goal.rel = "le"
    PROVE  Separated(goal.start, goal.target)
<1>1. \A n : ~Stacked(n)
  BY DEF Stacked, Occurs
<1>2. visited \in SUBSET Atoms /\ Closed(visited) /\ goal.start \in visited /\ goal.target \notin visited
  BY <1>1 DEF CompleteInv, SearchClosed, Closed, TypeOK
<1> QED
  BY <1>2 DEF Separated

LEMMA CompleteSearchStep ==
    ASSUME CompleteInv, Skip \/ Expand, TypeOK'
    PROVE  CompleteInv'
<1> USE DEF CompleteInv
<1>0. /\ UNCHANGED <<storeVars, pc, op, todo, goal, result>>
      /\ pc = "search" /\ stack # <<>> /\ stack \in Seq(Entries) /\ Top \in Entries
  BY StackFacts DEF Skip, Expand, TypeOK
<1>1. relations' = relations /\ \A n, m : Separated(n, m) <=> Separated(n, m)'
  BY <1>0, SameSeparated DEF storeVars
<1>2. \A n : Stacked(n) => Stacked(n)' \/ n \in visited'
  <2> SUFFICES ASSUME NEW e \in Entries, Occurs(stack, e) PROVE Stacked(e.node)' \/ e.node \in visited'
    BY DEF Stacked
  <2>1. CASE e = Top
    BY <2>1 DEF Skip, Expand
  <2>2. CASE Occurs(Rest, e)
    BY <2>2, ExpandFacts DEF Skip, Stacked
  <2> QED
    BY <1>0, <2>1, <2>2, StackFacts
<1>3. visited \subseteq visited'
  BY DEF Skip, Expand
<1>4. ASSUME NEW n \in visited' \ visited, NEW i \in 1 .. Len(relations[n])
      PROVE  Stacked(relations[n][i].node)'
  <2>1. Expand /\ n = Top.node
    BY <1>4 DEF Skip, Expand
  <2> DEFINE e == [node |-> relations[Top.node][i].node, rel |-> Join(Top.rel, relations[Top.node][i].rel)]
  <2>2. Occurs(Successors, e) /\ relations[Top.node][i] \in Entries
    BY <1>0, <1>4, <2>1, SuccessorsType DEF TypeOK
  <2>3. e \in Entries /\ e.node = relations[n][i].node
    BY <1>0, <2>1, <2>2 DEF Entries, Join, Rels
  <2> HIDE DEF e
  <2>4. Occurs(stack', e)
    BY <2>1, <2>2, ExpandFacts
  <2> QED
    BY <1>1, <2>3, <2>4 DEF Stacked
<1>5. goal.rel = "le" => goal.target \notin visited'
  BY <1>0 DEF Skip, Expand, Reached, Suffices, SearchClosed
<1>6. SearchClosed'
  BY <1>0, <1>1, <1>2, <1>3, <1>4, <1>5 DEF SearchClosed
<1>7. PastSearches'
  BY <1>0, <1>1 DEF PastSearches, Back
<1> QED
  BY <1>0, <1>1, <1>6, <1>7 DEF RefusalMeansNoChain, AcceptedMeansAcyclic

LEMMA CompleteCheck ==
    ASSUME CompleteInv, CheckConsistency \/ NextCheck \/ CheckPassed \/ Found, TypeOK'
    PROVE  CompleteInv'
<1> USE DEF CompleteInv
<1>0. UNCHANGED storeVars /\ relations' = relations
  BY DEF CheckConsistency, NextCheck, CheckPassed, Found, storeVars
<1>1. \A n, m : Separated(n, m) <=> Separated(n, m)'
  BY <1>0, SameSeparated
<1>2. CASE CheckConsistency
  <2>1. CASE Return("yes")
    BY <1>2, <2>1 DEF CheckConsistency, Return, SearchClosed, PastSearches, RefusalMeansNoChain, AcceptedMeansAcyclic
  <2>2. CASE pc' = "check" /\ todo' = Loops \cup Cycles /\ result' = "none"
    <3>1. ASSUME NEW n \in Atoms, NEW i \in 1 .. Len(relations[n]), relations[n][i].rel = "lt"
          PROVE  Back(n, i) \in Cycles
      <4> DEFINE p == <<n, relations[n][i]>>
      <4>1. relations[n][i] \in Entries
        BY DEF TypeOK
      <4>2. p \in Edges /\ p[1] = n /\ p[2] = relations[n][i]
        BY <4>1 DEF Edges, Entries
      <4> HIDE DEF p
      <4> QED
        BY <3>1, <4>2 DEF Cycles, Back
    <3>2. PastSearches'
      BY <1>0, <1>2, <2>2, <3>1 DEF CheckConsistency, PastSearches, Back
    <3> QED
      BY <1>2, <2>2, <3>2 DEF CheckConsistency, SearchClosed, RefusalMeansNoChain, AcceptedMeansAcyclic
  <2> QED
    BY <1>2, <2>1, <2>2 DEF CheckConsistency
<1>3. CASE NextCheck
  <2>1. PICK g \in todo : todo' = todo \ {g} /\ Search(g)
    BY <1>3 DEF NextCheck
  <2>2. SearchClosed' /\ pc' = "search" /\ goal' = g
    BY <2>1, SearchStartsClosed, SearchType DEF TypeOK
  <2>3. op = "consistency" /\ op' = op /\ result' = result /\ result = "none" /\ pc = "check"
    BY <1>3 DEF NextCheck
  <2>4. PastSearches'
    <3> SUFFICES ASSUME NEW n \in Atoms, NEW i \in 1 .. Len(relations[n]), relations[n][i].rel = "lt"
                 PROVE  \/ Back(n, i) \in todo' \/ goal' = Back(n, i)
                        \/ Separated(relations[n][i].node, n)'
      BY <1>0, <2>2, <2>3 DEF PastSearches, Back
    <3>1. Back(n, i) \in todo \/ Separated(relations[n][i].node, n)
      BY <2>3 DEF PastSearches
    <3> QED
      BY <1>0, <1>1, <2>1, <2>2, <3>1
  <2> QED
    BY <2>2, <2>3, <2>4 DEF RefusalMeansNoChain, AcceptedMeansAcyclic
<1>4. CASE CheckPassed
  <2>1. \A n \in Atoms : \A i \in 1 .. Len(relations[n]) :
          relations[n][i].rel = "lt" => Separated(relations[n][i].node, n)
    BY <1>4 DEF CheckPassed, PastSearches
  <2>2. AcceptedMeansAcyclic'
    BY <1>0, <1>1, <2>1 DEF AcceptedMeansAcyclic
  <2> QED
    BY <1>4, <2>2 DEF CheckPassed, Return, SearchClosed, PastSearches, RefusalMeansNoChain
<1>5. CASE Found
  BY <1>5 DEF Found, Return, SearchClosed, PastSearches, RefusalMeansNoChain, AcceptedMeansAcyclic
<1> QED
  BY <1>2, <1>3, <1>4, <1>5

LEMMA CompleteExhausted ==
    ASSUME CompleteInv, Exhausted, TypeOK'
    PROVE  CompleteInv'
<1> USE DEF CompleteInv
<1>0. UNCHANGED storeVars /\ relations' = relations /\ op' = op /\ pc = "search" /\ stack = <<>>
  BY DEF Exhausted, storeVars
<1>1. \A n, m : Separated(n, m) <=> Separated(n, m)'
  BY <1>0, SameSeparated
<1>2. CASE op = "greater" /\ Return("no")
  BY <1>0, <1>2 DEF Return, SearchClosed, PastSearches, RefusalMeansNoChain, AcceptedMeansAcyclic
<1>3. CASE op = "greater_equal" /\ goal.rel = "lt" /\ Return("no") /\ UNCHANGED goal
  <2>1. Separated(goal.start, goal.target)'
    BY <1>0, <1>1, <1>3 DEF PastSearches
  <2> QED
    BY <1>0, <1>3, <2>1 DEF Return, SearchClosed, PastSearches, RefusalMeansNoChain, AcceptedMeansAcyclic
<1>4. CASE op = "greater_equal" /\ goal.rel = "le" /\ Search([goal EXCEPT !.rel = "lt"]) /\ UNCHANGED result
  <2>1. Separated(goal.start, goal.target)
    BY <1>0, <1>4, ExhaustedSeparates
  <2> DEFINE g == [goal EXCEPT !.rel = "lt"]
  <2>2. g \in [start : Atoms, target : Atoms, rel : Rels] /\ g.start = goal.start /\ g.target = goal.target
    BY DEF TypeOK, Rels
  <2> HIDE DEF g
  <2>3. SearchClosed' /\ pc' = "search" /\ goal' = g
    BY <1>4, <2>2, SearchStartsClosed, SearchType DEF g
  <2>4. Separated(goal.start, goal.target)'
    BY <1>1, <2>1, <2>2, <2>3
  <2>5. PastSearches'
    BY <1>0, <1>4, <2>3, <2>4 DEF PastSearches
  <2> QED
    BY <1>0, <1>4, <2>3, <2>5 DEF RefusalMeansNoChain, AcceptedMeansAcyclic
<1>5. CASE op = "consistency" /\ pc' = "check" /\ UNCHANGED <<goal, todo, result>>
  <2>1. PastSearches'
    <3> SUFFICES ASSUME NEW n \in Atoms, NEW i \in 1 .. Len(relations[n]), relations[n][i].rel = "lt"
                 PROVE  Back(n, i) \in todo \/ Separated(relations[n][i].node, n)'
      BY <1>0, <1>5 DEF PastSearches, Back
    <3>1. CASE goal = Back(n, i)
      <4>1. goal.start = relations[n][i].node /\ goal.target = n /\ goal.rel = "le"
        BY <3>1 DEF Back
      <4> QED
        BY <1>0, <1>1, <4>1, ExhaustedSeparates
    <3>2. CASE goal # Back(n, i)
      BY <1>0, <1>1, <1>5, <3>2 DEF PastSearches
    <3> QED
      BY <3>1, <3>2
  <2> QED
    BY <1>0, <1>5, <2>1 DEF SearchClosed, RefusalMeansNoChain, AcceptedMeansAcyclic
<1> QED
  BY <1>2, <1>3, <1>4, <1>5 DEF Exhausted

LEMMA CompleteAsk ==
    ASSUME CompleteInv, NEW l \in Atoms, NEW r \in Atoms, NEW o \in {"greater", "greater_equal"},
           Ask(o, l, r), TypeOK'
    PROVE  CompleteInv'
<1> USE DEF CompleteInv
<1> DEFINE q == Question(o, l, r)
<1>1. q \in [start : Atoms, target : Atoms, rel : Rels] /\ q.start = r /\ q.target = l
      /\ (o = "greater_equal" => q.rel = "le")
  BY DEF Question, Rels
<1> HIDE DEF q
<1>2. CASE KnownYes(o, l, r) /\ Return("yes")
  BY <1>2 DEF Ask, Return, SearchClosed, PastSearches, RefusalMeansNoChain, AcceptedMeansAcyclic
<1>3. CASE KnownNo(o, l, r) /\ goal' = q /\ Return("no")
  BY <1>1, <1>3 DEF Ask, KnownNo, Return, SearchClosed, PastSearches, RefusalMeansNoChain, AcceptedMeansAcyclic
<1>4. CASE Search(q) /\ result' = "none"
  <2>1. SearchClosed' /\ pc' = "search" /\ goal' = q /\ op' = o
    BY <1>1, <1>4, SearchStartsClosed, SearchType DEF Ask
  <2>2. PastSearches'
    BY <1>1, <2>1 DEF PastSearches
  <2> QED
    BY <1>4, <2>1, <2>2 DEF RefusalMeansNoChain, AcceptedMeansAcyclic
<1> QED
  BY <1>2, <1>3, <1>4 DEF Ask, q

LEMMA CompleteNext == CompleteInv /\ [Next]_vars => CompleteInv'
<1> SUFFICES ASSUME CompleteInv, [Next]_vars PROVE CompleteInv'
  OBVIOUS
<1>1. TypeOK'
  BY TypeNext DEF CompleteInv
<1>2. CASE UNCHANGED vars
  <2>1. \A n, m : Separated(n, m) <=> Separated(n, m)'
    BY <1>2, SameSeparated DEF vars, storeVars
  <2>2. SearchClosed' /\ PastSearches'
    BY <1>2, <2>1 DEF CompleteInv, vars, storeVars, searchVars, SearchClosed, Stacked, PastSearches, Back
  <2> QED
    BY <1>1, <1>2, <2>1, <2>2
       DEF CompleteInv, vars, storeVars, searchVars, RefusalMeansNoChain, AcceptedMeansAcyclic
<1>3. ASSUME NEW n, Mutator(n) PROVE CompleteInv'
  BY <1>1, <1>3 DEF Mutator, CompleteInv, SearchClosed, PastSearches, RefusalMeansNoChain, AcceptedMeansAcyclic
<1>4. CASE Assume
  BY <1>3, <1>4 DEF Assume, AssumeGreater, AssumeGreaterEqual, AssumeEqual, AssumePositive, AssumeNegative,
     AssumeNonzero, AssumeInRange
<1> QED
  BY <1>1, <1>2, <1>4, CompleteAsk, CompleteCheck, CompleteSearchStep, CompleteExhausted DEF Next, Step

LEMMA CompleteInit == Init => CompleteInv
BY TypeInit DEF Init, CompleteInv, SearchClosed, PastSearches, RefusalMeansNoChain, AcceptedMeansAcyclic

(* The non-strict search misses no chain of stated relations.               *)
THEOREM NoMeansNoChain == Spec => []RefusalMeansNoChain
<1>1. CompleteInv => RefusalMeansNoChain
  BY DEF CompleteInv
<1> QED
  BY <1>1, CompleteInit, CompleteNext, PTL DEF Spec

(* A store that passes check_consistency has no cycle with a strict edge.   *)
THEOREM AcceptedIsAcyclic == Spec => []AcceptedMeansAcyclic
<1>1. CompleteInv => AcceptedMeansAcyclic
  BY DEF CompleteInv
<1> QED
  BY <1>1, CompleteInit, CompleteNext, PTL DEF Spec
=============================================================================
