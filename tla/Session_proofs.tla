--------------------------- MODULE Session_proofs ---------------------------
(***************************************************************************)
(* What the operations of a session keep of its flag, its budget and its   *)
(* simplify cache, for every nesting depth and every budget; and what a    *)
(* session says of the conditions its results depend on, for every nesting *)
(* of calls, every set of conditions and every size limit: what is         *)
(* reported was taken, and what is taken by a fresh computation is         *)
(* reported.  The first part carries the flag and the shape of the stack;  *)
(* the second relates each call to the conditions taken under it, and the  *)
(* accumulator to the marks of the calls, after what the operations of a   *)
(* condition set return, for sets and sequences of every size.             *)
(***************************************************************************)
EXTENDS Session, Recursion

Phases == {"run", "hook", "radical", "rest"}
CallKinds == {"simplify", "scope", "equal", "integrate", "attempt"}

(* A frame, with the fields the invariants do not mention left open. *)
Framed(f) ==
    f \in [kind : CallKinds, key : {f.key}, phase : Phases, owns : BOOLEAN, mark : {f.mark},
           restore : Budget \cup {None}, due : {f.due}, visits : Nat, hit : {f.hit}, hooked : {f.hooked}]

Elements(s) == {s[i] : i \in 1 .. Len(s)}
Sequence(s) == s \in Seq(Elements(s))

Types ==
    /\ Sequence(stack) /\ \A i \in 1 .. Depth : Framed(stack[i])
    /\ operation_active \in BOOLEAN /\ ops_count \in Nat
    /\ max_operation_ops \in Nat /\ max_operation_ops_explicit \in BOOLEAN
    /\ client \in Budget
    /\ revision \in Nat /\ last_assumptions_revision \in Nat

(* A frame in which the operation it opened is still open. *)
IsOpen(f) == f.owns /\ f.phase \in {"run", "rest"}

(* A frame whose operation is closed, or is out of sight for a while: the calls it makes
   start operations of their own. *)
Away == {"hook", "radical"}

(* A call owns its operation exactly when every call below it is away. *)
Shape ==
    /\ \A j \in 1 .. Depth : stack[j].owns <=> \A i \in 1 .. j - 1 : stack[i].phase \in Away
    /\ \A j \in 1 .. Depth : stack[j].phase = "hook" => stack[j].kind = "simplify" /\ stack[j].owns
    /\ \A j \in 1 .. Depth : stack[j].phase \in {"radical", "rest"} => stack[j].kind = "equal"
    /\ \A j \in 1 .. Depth : stack[j].kind = "equal" => j = 1

Flag ==
    /\ operation_active <=> \E i \in 1 .. Depth : IsOpen(stack[i])
    /\ operation_active <=> \E i \in 1 .. Depth : stack[i].phase \notin Away

(* Only the first call may have lowered the budget; it then keeps the client's. *)
Budgets ==
    /\ \A i \in 1 .. Depth : stack[i].restore # None => i = 1 /\ stack[i].restore = client
    /\ (Depth = 0 \/ stack[1].restore = None) =>
           max_operation_ops = client.max /\ max_operation_ops_explicit = client.explicit
    /\ Depth >= 1 /\ stack[1].restore # None => max_operation_ops \in 1 .. (client.max - 1)

Charged == \A i \in 1 .. Depth : stack[i].owns /\ stack[i].phase = "run" => ops_count = stack[i].visits

(* A simplify in progress has compared the revisions; a cache that holds an entry is not
   from before a reset. *)
Caches ==
    /\ \A i \in 1 .. Depth : stack[i].kind = "simplify" => ~Stale
    /\ (\E e \in Exprs : simplify_cache[e] # None) => last_assumptions_revision <= revision
    /\ SimplifyCacheIsCurrent
    /\ simplify_cache = [e \in Exprs |-> simplify_cache[e]]

IInv == Types /\ Shape /\ Flag /\ Budgets /\ Charged /\ Caches

(* The fields of a frame that the invariants mention. *)
Same(f, g) == f.kind = g.kind /\ f.phase = g.phase /\ f.owns = g.owns /\ f.restore = g.restore

(* t is the first n frames of s, up to the histories of what they took. *)
Kept(s, t, n) ==
    /\ Sequence(t) /\ Len(t) = n
    /\ \A i \in 1 .. n : Framed(t[i]) /\ Same(t[i], s[i]) /\ t[i].visits = s[i].visits

-----------------------------------------------------------------------------
(* Sequences of frames. *)

(* What Append does to a sequence of any elements. *)
LEMMA AppendIs ==
    ASSUME NEW s, NEW e, Sequence(s)
    PROVE  /\ Sequence(Append(s, e)) /\ Len(Append(s, e)) = Len(s) + 1
           /\ \A i \in 1 .. Len(s) : Append(s, e)[i] = s[i]
           /\ Append(s, e)[Len(s) + 1] = e
<1> DEFINE S == Elements(s) \cup {e}
<1>1. s \in Seq(S) /\ e \in S /\ Len(s) \in Nat
  <2>1. s \in Seq(Elements(s)) BY DEF Sequence
  <2>2. Elements(s) \subseteq S OBVIOUS
  <2> QED
    BY <2>1, <2>2
<1>2. /\ Append(s, e) \in Seq(S) /\ Len(Append(s, e)) = Len(s) + 1
      /\ \A i \in 1 .. Len(s) : Append(s, e)[i] = s[i]
      /\ Append(s, e)[Len(s) + 1] = e
  <2> HIDE DEF S
  <2> QED
    BY <1>1
<1>3. Sequence(Append(s, e))
  <2> DEFINE t == Append(s, e)
  <2>1. t \in Seq(S) /\ \A i \in 1 .. Len(t) : t[i] \in Elements(t)
    BY <1>2 DEF Elements
  <2> HIDE DEF t, S
  <2>2. t \in Seq(Elements(t))
    BY <2>1
  <2> QED
    BY <2>2 DEF Sequence, t
<1> QED
  BY <1>2, <1>3

(* The first n elements of a sequence. *)
LEMMA PrefixIs ==
    ASSUME NEW s, Sequence(s), NEW n \in 0 .. Len(s)
    PROVE  /\ Sequence(SubSeq(s, 1, n)) /\ Len(SubSeq(s, 1, n)) = n
           /\ \A i \in 1 .. n : SubSeq(s, 1, n)[i] = s[i]
<1> DEFINE S == Elements(s)
<1>1. s \in Seq(S) /\ Len(s) \in Nat /\ n \in Nat
  BY DEF Sequence
<1> HIDE DEF S
<1> DEFINE t == SubSeq(s, 1, n)
<1>2. t \in Seq(S) /\ Len(t) = n /\ \A i \in 1 .. n : t[i] = s[i]
  BY <1>1
<1>3. \A i \in 1 .. Len(t) : t[i] \in Elements(t)
  BY DEF Elements
<1> HIDE DEF t
<1>4. t \in Seq(Elements(t))
  BY <1>2, <1>3
<1> QED
  BY <1>2, <1>4 DEF Sequence, t

(* A function on the first n numbers is a sequence. *)
LEMMA ListIs ==
    ASSUME NEW t, NEW n \in Nat, t = [i \in 1 .. n |-> t[i]]
    PROVE  Sequence(t) /\ Len(t) = n
<1>1. Len(t) = n /\ DOMAIN t = 1 .. n
  OBVIOUS
<1>2. \A i \in 1 .. n : t[i] \in Elements(t)
  BY <1>1 DEF Elements
<1>3. t \in [1 .. n -> Elements(t)]
  BY <1>2
<1>4. t \in Seq(Elements(t))
  BY <1>3
<1> QED
  BY <1>1, <1>4 DEF Sequence

-----------------------------------------------------------------------------
(* What happens to the stack. *)

(* A call delivers its report to the frames below it. *)
LEMMA DeliverKeeps ==
    ASSUME NEW STATE frames, NEW STATE report, Sequence(frames), \A i \in 1 .. Len(frames) : Framed(frames[i]),
           Deliver(report, frames)
    PROVE  Kept(frames, stack', Len(frames))
<1>0. Len(frames) \in Nat /\ frames \in Seq(Elements(frames))
  BY DEF Sequence
<1>1. CASE frames = <<>>
  <2>1. stack' = <<>>
    BY <1>1 DEF Deliver
  <2>2. Sequence(<<>>) /\ Len(<<>>) = 0
    BY DEF Sequence, Elements
  <2> QED
    BY <1>1, <2>1, <2>2 DEF Kept
<1>2. CASE frames # <<>>
  <2> DEFINE n == Len(frames)
             f == frames[n]
             g == [f EXCEPT !.due    = f.due \cup report.due,
                            !.hit    = f.hit \/ report.hit,
                            !.hooked = f.hooked \/ report.hooked \/ f.phase = "hook"]
  <2>1. n \in 1 .. n /\ Framed(f) /\ n \in Nat /\ DOMAIN frames = 1 .. n
    BY <1>0, <1>2
  <2>2. stack' = [frames EXCEPT ![n] = g]
    BY <1>2 DEF Deliver
  <2>3. Framed(g) /\ Same(g, f) /\ g.visits = f.visits
    <3> DEFINE h == (f.hit \/ report.hit)
               k == (f.hooked \/ report.hooked \/ f.phase = "hook")
    <3>1. g = [f EXCEPT !.due = f.due \cup report.due, !.hit = h, !.hooked = k]
      OBVIOUS
    <3> HIDE DEF f, g, h, k
    <3> QED
      BY <2>1, <3>1 DEF Framed, Same
  <2> HIDE DEF g, n
  <2>4. /\ Sequence(stack') /\ Len(stack') = n
        /\ \A i \in 1 .. n : stack'[i] = IF i = n THEN g ELSE frames[i]
    <3>1. /\ stack' = [i \in 1 .. n |-> stack'[i]]
          /\ \A i \in 1 .. n : stack'[i] = IF i = n THEN g ELSE frames[i]
      BY <2>1, <2>2
    <3> QED
      BY <2>1, <3>1, ListIs
  <2>5. \A i \in 1 .. n : Framed(stack'[i]) /\ Same(stack'[i], frames[i]) /\ stack'[i].visits = frames[i].visits
    <3>1. \A i \in 1 .. n : Framed(frames[i])
      BY DEF n
    <3> QED
      BY <2>3, <2>4, <3>1 DEF Same
  <2> QED
    BY <2>4, <2>5 DEF Kept, n
<1> QED
  BY <1>1, <1>2

(* The innermost call returns. *)
LEMMA LeaveKeeps ==
    ASSUME NEW STATE frames, Sequence(frames), Len(frames) >= 1, \A i \in 1 .. Len(frames) : Framed(frames[i]),
           NEW ok, NEW STATE conditions, NEW STATE ops, Leave(ok, frames, conditions, ops)
    PROVE  Kept(frames, stack', Len(frames) - 1)
<1> DEFINE n    == Len(frames) - 1
           rest == SubSeq(frames, 1, n)
<1>1. n \in 0 .. Len(frames)
  BY DEF Sequence
<1>2. Sequence(rest) /\ Len(rest) = n /\ \A i \in 1 .. n : rest[i] = frames[i]
  BY <1>1, PrefixIs
<1>3. \A i \in 1 .. n : Framed(rest[i])
  BY <1>1, <1>2
<1>4. \E report : Deliver(report, rest)
  BY DEF Leave
<1> HIDE DEF rest
<1>5. Kept(rest, stack', n)
  BY <1>2, <1>3, <1>4, DeliverKeeps
<1> QED
  BY <1>2, <1>5 DEF Kept, Same

(* A call enters. *)
LEMMA EnterAdds ==
    ASSUME Types, NEW kind \in CallKinds, NEW STATE key, NEW STATE mark, NEW STATE restore, restore \in Budget \cup {None},
           Enter(kind, key, mark, restore)
    PROVE  /\ Sequence(stack') /\ Len(stack') = Depth + 1
           /\ \A i \in 1 .. Depth : stack'[i] = stack[i]
           /\ LET f == stack'[Depth + 1]
              IN  /\ Framed(f) /\ f.kind = kind /\ f.phase = "run" /\ f.visits = 0
                  /\ f.owns = ~operation_active /\ f.restore = restore
<1> DEFINE f == [kind |-> kind, key |-> key, phase |-> "run", owns |-> ~operation_active,
                 mark |-> mark, restore |-> restore, due |-> {}, visits |-> 0, hit |-> FALSE, hooked |-> FALSE]
<1>1. stack' = Append(stack, f) /\ Sequence(stack)
  BY DEF Enter, Types
<1>2. /\ Framed(f) /\ f.kind = kind /\ f.phase = "run" /\ f.visits = 0
      /\ f.owns = ~operation_active /\ f.restore = restore
  BY DEF Framed, Types, Phases
<1> HIDE DEF f
<1>3. /\ Sequence(stack') /\ Len(stack') = Depth + 1
      /\ \A i \in 1 .. Depth : stack'[i] = stack[i]
      /\ stack'[Depth + 1] = f
  BY <1>1, AppendIs DEF Depth
<1> QED
  BY <1>2, <1>3

(* A visit is counted in the frames of the operation that is open. *)
LEMMA VisitedKeeps ==
    ASSUME Types
    PROVE  /\ Sequence(Visited) /\ Len(Visited) = Depth
           /\ \A i \in 1 .. Depth :
                  /\ Framed(Visited[i]) /\ Same(Visited[i], stack[i])
                  /\ stack[i].owns /\ stack[i].phase = "run" => Visited[i].visits = stack[i].visits + 1
<1>1. Depth \in Nat
  BY DEF Types, Sequence, Depth
<1>2. Sequence(Visited) /\ Len(Visited) = Depth
  BY <1>1, ListIs DEF Visited
<1>3. ASSUME NEW i \in 1 .. Depth
      PROVE  /\ Framed(Visited[i]) /\ Same(Visited[i], stack[i])
             /\ stack[i].owns /\ stack[i].phase = "run" => Visited[i].visits = stack[i].visits + 1
  <2> DEFINE f == stack[i]
  <2>1. Framed(f)
    BY DEF Types
  <2>2. Visited[i] = IF f.owns /\ f.phase = "run" THEN [f EXCEPT !.visits = @ + 1] ELSE f
    BY DEF Visited
  <2> HIDE DEF f
  <2>3. LET g == [f EXCEPT !.visits = @ + 1] IN Framed(g) /\ Same(g, f) /\ g.visits = f.visits + 1
    BY <2>1 DEF Framed, Same
  <2>4. Same(f, f)
    BY DEF Same
  <2> QED
    BY <2>1, <2>2, <2>3, <2>4 DEF f
<1> QED
  BY <1>2, <1>3

(* The innermost call goes on to another phase. *)
LEMMA PhaseChanges ==
    ASSUME Types, Depth >= 1, NEW p \in Phases, stack' = [stack EXCEPT ![Depth].phase = p]
    PROVE  /\ Sequence(stack') /\ Len(stack') = Depth
           /\ \A i \in 1 .. Depth - 1 : stack'[i] = stack[i]
           /\ LET f == stack[Depth]
                  g == stack'[Depth]
              IN  /\ Framed(g) /\ g.phase = p /\ g.kind = f.kind /\ g.owns = f.owns
                  /\ g.restore = f.restore /\ g.visits = f.visits
<1>1. /\ Sequence(stack) /\ Depth \in 1 .. Len(stack) /\ Depth \in Nat
      /\ DOMAIN stack = 1 .. Depth /\ stack = [i \in 1 .. Depth |-> stack[i]]
  BY DEF Types, Depth, Sequence
<1> DEFINE f == stack[Depth]
           g == [f EXCEPT !.phase = p]
<1>2. /\ Framed(g) /\ g.phase = p /\ g.kind = f.kind /\ g.owns = f.owns
      /\ g.restore = f.restore /\ g.visits = f.visits
  <2>1. Framed(f)
    BY <1>1 DEF Types, Depth
  <2> HIDE DEF f
  <2> QED
    BY <2>1 DEF Framed
<1>3. stack' = [stack EXCEPT ![Depth] = g]
  OBVIOUS
<1> HIDE DEF g
<1>4. /\ stack' = [i \in 1 .. Depth |-> stack'[i]]
      /\ \A i \in 1 .. Depth : stack'[i] = IF i = Depth THEN g ELSE stack[i]
  <2> DEFINE n == Depth
  <2>1. stack' = [stack EXCEPT ![n] = g]
    BY ONLY <1>3
  <2>1a. n \in Nat /\ n \in 1 .. n
    BY ONLY <1>1, Depth >= 1
  <2>1b. DOMAIN stack = 1 .. n
    BY ONLY <1>1
  <2> HIDE DEF n
  <2>2. /\ stack' = [i \in 1 .. n |-> stack'[i]]
        /\ \A i \in 1 .. n : stack'[i] = IF i = n THEN g ELSE stack[i]
    BY <2>1, <2>1a, <2>1b
  <2> QED
    BY <2>2 DEF n
<1>5. Sequence(stack') /\ Len(stack') = Depth
  BY <1>1, <1>4, ListIs
<1>6. stack'[Depth] = g /\ \A i \in 1 .. Depth - 1 : stack'[i] = stack[i]
  BY ONLY <1>1, <1>4
<1> QED
  BY <1>2, <1>5, <1>6

-----------------------------------------------------------------------------
(* How the invariant survives a step, by what the step does to the stack. *)

LEMMA InitInv == Init => IInv
<1> SUFFICES ASSUME Init PROVE IInv
  OBVIOUS
<1> USE SessionAssumption DEF Init
<1>1. Sequence(<<>>) /\ Depth = 0
  BY DEF Sequence, Elements, Depth
<1>2. Types
  <2>1. DefaultOps \in Nat
    BY DEF SessionAssumption
  <2>2. client \in Budget
    BY <2>1 DEF Budget
  <2>3. Sequence(stack) /\ \A i \in 1 .. Depth : Framed(stack[i])
    <3>1. 1 .. Depth = {}
      BY <1>1
    <3> HIDE DEF Depth
    <3> QED
      BY <1>1, <3>1
  <2> QED
    BY <2>1, <2>2, <2>3 DEF Types
<1>3. 1 .. Depth = {} /\ 3 .. Depth = {} /\ 2 .. Depth = {} /\ ~(Depth >= 1) /\ ~(Depth >= 2)
  BY <1>1
<1>3a. Shape /\ Flag /\ Budgets /\ Charged
  <2> HIDE DEF Depth
  <2> QED
    BY <1>1, <1>3 DEF Shape, Flag, Budgets, Charged
<1>4. Caches
  BY <1>1, <1>3 DEF Caches, Stale, SimplifyCacheIsCurrent
<1> QED
  BY <1>2, <1>3a, <1>4 DEF IInv

LEMMA DepthIs == Types => Depth \in Nat /\ (Idle <=> Depth = 0)
BY DEF Types, Sequence, Depth, Idle

(* Below the call that owns the open operation, every call is away. *)
LEMMA BelowTheOwner ==
    ASSUME Types, Shape, Depth >= 1, Top.owns
    PROVE  \A i \in 1 .. Depth - 1 : stack[i].phase \in Away
<1>1. Depth \in 1 .. Depth
  BY DepthIs
<1> QED
  BY <1>1 DEF Shape, Top

(* A step that leaves the frames as they are. *)
LEMMA KeptStep ==
    ASSUME Types, Shape, Flag, Budgets, Charged, Kept(stack, stack', Depth),
           revision' \in Nat, last_assumptions_revision' \in Nat,
           UNCHANGED <<budgetVars, client>>
    PROVE  Types' /\ Shape' /\ Flag' /\ Budgets' /\ Charged'
<1>1. /\ Sequence(stack') /\ Depth' = Depth
      /\ \A i \in 1 .. Depth : Framed(stack'[i]) /\ Same(stack'[i], stack[i]) /\ stack'[i].visits = stack[i].visits
  BY DEF Kept, Depth
<1>2. Depth \in Nat
  BY DepthIs
<1> USE DEF budgetVars
<1>3. Types'
  <2>1. \A i \in 1 .. Depth' : Framed(stack'[i])
    BY <1>1
  <2> QED
    BY <1>1, <2>1 DEF Types, Framed
<1>4. Shape'
  BY <1>1, <1>2 DEF Shape, Same
<1>5. Flag'
  BY <1>1 DEF Flag, Same, IsOpen
<1>6. Budgets'
  BY <1>1, <1>2 DEF Budgets, Same
<1>7. Charged'
  BY <1>1 DEF Charged, Same
<1> QED
  BY <1>3, <1>4, <1>5, <1>6, <1>7

(* A step that does not touch the stack. *)
LEMMA StackUnchanged ==
    ASSUME Types, UNCHANGED stack
    PROVE  Kept(stack, stack', Depth)
BY DEF Types, Kept, Same, Depth

(* The innermost call returns; frames is the stack, with the visits of this step. *)
LEMMA LeaveStep ==
    ASSUME Types, Shape, Flag, Budgets, Depth >= 1, Top.phase # "radical",
           NEW STATE frames, Sequence(frames), Len(frames) = Depth,
           \A i \in 1 .. Depth : Framed(frames[i]) /\ Same(frames[i], stack[i]),
           NEW STATE ops, ops \in Nat,
           \A i \in 1 .. Depth : stack[i].owns /\ stack[i].phase = "run" => frames[i].visits = ops,
           NEW ok \in BOOLEAN, NEW STATE conditions, Leave(ok, frames, conditions, ops),
           UNCHANGED <<client, revision, last_assumptions_revision>>
    PROVE  /\ Types' /\ Shape' /\ Flag' /\ Budgets' /\ Charged'
           /\ Depth' = Depth - 1 /\ \A i \in 1 .. Depth - 1 : Same(stack'[i], stack[i])
<1>0. Depth \in Nat /\ Depth \in 1 .. Depth /\ Depth - 1 \in Nat
  BY DepthIs
<1>1. Kept(frames, stack', Depth - 1)
  BY LeaveKeeps
<1>2. /\ Sequence(stack') /\ Depth' = Depth - 1
      /\ \A i \in 1 .. Depth - 1 : /\ Framed(stack'[i]) /\ Same(stack'[i], stack[i])
                                   /\ stack'[i].visits = frames[i].visits
  BY <1>0, <1>1 DEF Kept, Depth, Same
<1>3. Same(frames[Depth], Top) /\ Framed(Top)
  BY <1>0 DEF Top, Types
<1> DEFINE closes == Top.owns /\ Top.phase # "hook"
<1>4. /\ operation_active' = (operation_active /\ ~closes)
      /\ ops_count' = IF closes THEN 0 ELSE ops
      /\ max_operation_ops' = IF Top.restore = None THEN max_operation_ops ELSE Top.restore.max
      /\ max_operation_ops_explicit' =
             IF Top.restore = None THEN max_operation_ops_explicit ELSE Top.restore.explicit
  BY <1>3 DEF Leave, Same
<1>5. closes => \A i \in 1 .. Depth - 1 : stack[i].phase \in Away
  BY BelowTheOwner
<1>7. Types'
  <2>1. \A i \in 1 .. Depth' : Framed(stack'[i])
    BY <1>2
  <2>2. max_operation_ops' \in Nat /\ max_operation_ops_explicit' \in BOOLEAN
    BY <1>3, <1>4 DEF Types, Framed, Budget
  <2>3. operation_active' \in BOOLEAN /\ ops_count' \in Nat
    BY <1>4
  <2> QED
    BY <1>2, <2>1, <2>2, <2>3 DEF Types
<1>8. Shape'
  <2>1. ASSUME NEW j \in 1 .. Depth'
        PROVE  stack'[j].owns <=> \A i \in 1 .. j - 1 : stack'[i].phase \in Away
    <3>1. j \in 1 .. Depth /\ j \in 1 .. Depth - 1 /\ \A i \in 1 .. j - 1 : i \in 1 .. Depth - 1
      BY <1>0, <1>2
    <3>2. stack'[j].owns = stack[j].owns /\ \A i \in 1 .. j - 1 : stack'[i].phase = stack[i].phase
      BY <1>2, <3>1 DEF Same
    <3> QED
      BY <3>1, <3>2 DEF Shape
  <2>2. \A j \in 1 .. Depth' : j \in 1 .. Depth /\ Same(stack'[j], stack[j])
    BY <1>0, <1>2
  <2> QED
    BY <2>1, <2>2 DEF Shape, Same
<1>9. Flag'
  <2>1. /\ (\E i \in 1 .. Depth' : IsOpen(stack'[i])) <=> \E i \in 1 .. Depth - 1 : IsOpen(stack[i])
        /\ (\E i \in 1 .. Depth' : stack'[i].phase \notin Away)
               <=> \E i \in 1 .. Depth - 1 : stack[i].phase \notin Away
    BY <1>2 DEF IsOpen, Same
  <2>2. /\ (\E i \in 1 .. Depth : IsOpen(stack[i]))
               <=> (IsOpen(Top) \/ \E i \in 1 .. Depth - 1 : IsOpen(stack[i]))
        /\ (\E i \in 1 .. Depth : stack[i].phase \notin Away)
               <=> (Top.phase \notin Away \/ \E i \in 1 .. Depth - 1 : stack[i].phase \notin Away)
    BY <1>0 DEF Top
  <2>3. CASE closes
    <3>1. operation_active' = FALSE
      BY <1>4, <2>3
    <3>2. \A i \in 1 .. Depth - 1 : ~IsOpen(stack[i]) /\ ~(stack[i].phase \notin Away)
      BY <1>5, <2>3 DEF IsOpen, Away
    <3> QED
      BY <2>1, <3>1, <3>2 DEF Flag
  <2>4. CASE ~Top.owns
    <3>1. \E i \in 1 .. Depth - 1 : stack[i].phase \notin Away
      BY <1>0, <2>4 DEF Shape, Top
    <3>2. ~IsOpen(Top)
      BY <2>4 DEF IsOpen
    <3>3. operation_active' = operation_active
      BY <1>4, <2>4 DEF Types
    <3> QED
      BY <2>1, <2>2, <3>1, <3>2, <3>3 DEF Flag
  <2>5. CASE Top.owns /\ Top.phase = "hook"
    <3>1. ~IsOpen(Top) /\ ~(Top.phase \notin Away)
      BY <2>5 DEF IsOpen, Away
    <3>2. operation_active' = operation_active
      BY <1>4, <2>5 DEF Types
    <3> QED
      BY <2>1, <2>2, <3>1, <3>2 DEF Flag
  <2> QED
    BY <2>3, <2>4, <2>5
<1>10. Budgets'
  <2>1. \A i \in 1 .. Depth' : stack'[i].restore # None => i = 1 /\ stack'[i].restore = client'
    BY <1>0, <1>2 DEF Budgets, Same
  <2>2. CASE Top.restore = None
    <3>1. UNCHANGED <<max_operation_ops, max_operation_ops_explicit>>
      BY <1>4, <2>2
    <3>2. Depth' = 0 => stack[1].restore = None
      BY <1>2, <2>2, <1>0 DEF Top
    <3>3. Depth' >= 1 => stack'[1].restore = stack[1].restore
      BY <1>0, <1>2 DEF Same
    <3> QED
      BY <1>0, <1>2, <2>1, <3>1, <3>2, <3>3 DEF Budgets
  <2>3. CASE Top.restore # None
    <3>1. Depth = 1 /\ Top.restore = client
      BY <1>0, <2>3 DEF Budgets, Top
    <3>2. max_operation_ops' = client.max /\ max_operation_ops_explicit' = client.explicit
      BY <1>4, <2>3, <3>1
    <3> QED
      BY <1>2, <2>1, <3>1, <3>2 DEF Budgets
  <2> QED
    BY <2>2, <2>3
<1>11. Charged'
  <2> SUFFICES ASSUME NEW i \in 1 .. Depth', stack'[i].owns, stack'[i].phase = "run"
               PROVE  ops_count' = stack'[i].visits
    BY DEF Charged
  <2>1. i \in 1 .. Depth - 1 /\ i \in 1 .. Depth
    BY <1>0, <1>2
  <2>2. stack[i].owns /\ stack[i].phase = "run" /\ stack'[i].visits = frames[i].visits
    BY <1>2, <2>1 DEF Same
  <2>3. ~closes
    BY <1>5, <2>1, <2>2 DEF Away
  <2> QED
    BY <1>4, <2>1, <2>2, <2>3
<1> QED
  BY <1>2, <1>7, <1>8, <1>9, <1>10, <1>11

(* A call enters.  It may lower the budget only when nothing else is in progress. *)
LEMMA EnterStep ==
    ASSUME Types, Shape, Flag, Budgets, Charged,
           NEW kind \in CallKinds, NEW STATE key, NEW STATE mark, NEW STATE restore, restore \in Budget \cup {None},
           kind = "equal" => Depth = 0,
           Enter(kind, key, mark, restore), Begin,
           revision' \in Nat, last_assumptions_revision' \in Nat, client' = client,
           restore = None => UNCHANGED <<max_operation_ops, max_operation_ops_explicit>>,
           restore # None => /\ Depth = 0 /\ restore = client
                             /\ max_operation_ops' \in 1 .. (client.max - 1)
                             /\ max_operation_ops_explicit' \in BOOLEAN
    PROVE  /\ Types' /\ Shape' /\ Flag' /\ Budgets' /\ Charged'
           /\ Depth' = Depth + 1 /\ \A i \in 1 .. Depth : stack'[i] = stack[i]
           /\ stack'[Depth + 1].kind = kind
<1> DEFINE f == stack'[Depth + 1]
<1>0. Depth \in Nat /\ operation_active \in BOOLEAN /\ client.max \in Nat
  BY DepthIs DEF Types, Budget
<1>1. /\ Sequence(stack') /\ Len(stack') = Depth + 1
      /\ \A i \in 1 .. Depth : stack'[i] = stack[i]
      /\ Framed(f) /\ f.kind = kind /\ f.phase = "run" /\ f.visits = 0
      /\ f.owns = ~operation_active /\ f.restore = restore
  BY EnterAdds
<1>2. Depth' = Depth + 1
  BY <1>1 DEF Depth
<1>3. ASSUME NEW i \in 1 .. Depth' PROVE i \in 1 .. Depth \/ i = Depth + 1
  BY <1>0, <1>2
<1>4. /\ operation_active' = TRUE
      /\ ops_count' = IF operation_active THEN ops_count ELSE 0
  BY DEF Begin
<1> HIDE DEF f
<1>5. Types'
  <2>1. \A i \in 1 .. Depth' : Framed(stack'[i])
    BY <1>1, <1>3 DEF Types, f
  <2>2. max_operation_ops' \in Nat /\ max_operation_ops_explicit' \in BOOLEAN
    BY <1>0 DEF Types
  <2>3. ops_count' \in Nat
    BY <1>4 DEF Types
  <2> QED
    BY <1>1, <1>4, <2>1, <2>2, <2>3 DEF Types
<1>6. Shape'
  <2>1. ASSUME NEW j \in 1 .. Depth'
        PROVE  stack'[j].owns <=> \A i \in 1 .. j - 1 : stack'[i].phase \in Away
    <3>1. \A i \in 1 .. j - 1 : i \in 1 .. Depth /\ stack'[i] = stack[i]
      BY <1>0, <1>1, <1>2
    <3>2. CASE j \in 1 .. Depth
      <4>1. stack'[j] = stack[j]
        BY <1>1, <3>2
      <4> QED
        BY <3>1, <3>2, <4>1 DEF Shape
    <3>3. CASE j = Depth + 1
      <4>1. stack'[j].owns <=> ~operation_active
        BY <1>1, <3>3 DEF f
      <4>2. j - 1 = Depth
        BY <1>0, <3>3
      <4> QED
        BY <3>1, <4>1, <4>2 DEF Flag
    <3> QED
      BY <1>3, <3>2, <3>3
  <2>2. ASSUME NEW j \in 1 .. Depth'
        PROVE  /\ stack'[j].phase = "hook" => stack'[j].kind = "simplify" /\ stack'[j].owns
               /\ stack'[j].phase \in {"radical", "rest"} => stack'[j].kind = "equal"
               /\ stack'[j].kind = "equal" => j = 1
    <3>1. CASE j \in 1 .. Depth
      BY <1>1, <3>1 DEF Shape
    <3>2. CASE j = Depth + 1
      BY <1>0, <1>1, <3>2 DEF f
    <3> QED
      BY <1>3, <3>1, <3>2
  <2> QED
    BY <2>1, <2>2 DEF Shape
<1>7. Flag'
  <2>1. Depth + 1 \in 1 .. Depth' /\ stack'[Depth + 1].phase \notin Away
    BY <1>0, <1>1, <1>2 DEF f, Away
  <2>2. \E i \in 1 .. Depth' : IsOpen(stack'[i])
    <3>1. CASE operation_active
      <4>1. PICK i \in 1 .. Depth : IsOpen(stack[i])
        BY <3>1 DEF Flag
      <4>2. i \in 1 .. Depth' /\ stack'[i] = stack[i]
        BY <1>0, <1>1, <1>2
      <4> QED
        BY <4>1, <4>2
    <3>2. CASE ~operation_active
      <4>1. IsOpen(stack'[Depth + 1])
        BY <1>1, <3>2 DEF IsOpen, f
      <4> QED
        BY <2>1, <4>1
    <3> QED
      BY <3>1, <3>2
  <2> QED
    BY <1>4, <2>1, <2>2 DEF Flag
<1>8. Budgets'
  <2>1. CASE restore = None
    <3>1. \A i \in 1 .. Depth' : stack'[i].restore # None => i = 1 /\ stack'[i].restore = client'
      <4>1. ASSUME NEW i \in 1 .. Depth', stack'[i].restore # None
            PROVE  i = 1 /\ stack'[i].restore = client'
        <5>1. i # Depth + 1
          BY <1>1, <2>1, <4>1 DEF f
        <5>2. i \in 1 .. Depth /\ stack'[i] = stack[i]
          BY <1>1, <1>3, <5>1
        <5> QED
          BY <4>1, <5>2 DEF Budgets
      <4> QED
        BY <4>1
    <3>2. Depth = 0 => stack'[1].restore = None
      <4>1. Depth = 0 => Depth + 1 = 1
        BY <1>0
      <4> QED
        BY <1>1, <2>1, <4>1 DEF f
    <3>3. Depth >= 1 => stack'[1] = stack[1]
      BY <1>0, <1>1
    <3> QED
      BY <1>0, <1>2, <2>1, <3>1, <3>2, <3>3 DEF Budgets
  <2>2. CASE restore # None
    <3>1. Depth = 0 /\ Depth' = 1 /\ stack'[1].restore = client'
      <4>1. Depth = 0 /\ Depth + 1 = 1
        BY <1>0, <2>2
      <4> QED
        BY <1>1, <1>2, <2>2, <4>1 DEF f
    <3>2. stack'[1].restore # None
      <4>1. Depth + 1 = 1
        BY <3>1
      <4> QED
        BY <1>1, <2>2, <4>1 DEF f
    <3> QED
      BY <2>2, <3>1, <3>2 DEF Budgets
  <2> QED
    BY <2>1, <2>2
<1>9. Charged'
  <2> SUFFICES ASSUME NEW i \in 1 .. Depth', stack'[i].owns, stack'[i].phase = "run"
               PROVE  ops_count' = stack'[i].visits
    BY DEF Charged
  <2>1. CASE i = Depth + 1
    BY <1>1, <1>4, <2>1 DEF f
  <2>2. CASE i \in 1 .. Depth
    <3>1. stack'[i] = stack[i]
      BY <1>1, <2>2
    <3>2. operation_active
      BY <2>2, <3>1 DEF Flag, IsOpen
    <3> QED
      BY <1>4, <2>2, <3>1, <3>2 DEF Charged
  <2> QED
    BY <1>3, <2>1, <2>2
<1> QED
  BY <1>1, <1>2, <1>5, <1>6, <1>7, <1>8, <1>9 DEF f

(* The call that owns the open operation goes on to another phase, with the flag that
   belongs to it. *)
LEMMA PhaseStep ==
    ASSUME Types, Shape, Budgets, Depth >= 1, Top.owns, NEW p \in Phases \ {"run"},
           stack' = [stack EXCEPT ![Depth].phase = p],
           p = "hook" => Top.kind = "simplify", p # "hook" => Top.kind = "equal",
           operation_active' = (p \notin Away), ops_count' \in Nat,
           UNCHANGED <<max_operation_ops, max_operation_ops_explicit, client, revision, last_assumptions_revision>>
    PROVE  /\ Types' /\ Shape' /\ Flag' /\ Budgets' /\ Charged'
           /\ Depth' = Depth /\ \A i \in 1 .. Depth : stack'[i].kind = stack[i].kind
<1> DEFINE g == stack'[Depth]
<1>0. Depth \in Nat /\ Depth \in 1 .. Depth
  BY DepthIs
<1>1. /\ Sequence(stack') /\ Len(stack') = Depth
      /\ \A i \in 1 .. Depth - 1 : stack'[i] = stack[i]
      /\ Framed(g) /\ g.phase = p /\ g.kind = Top.kind /\ g.owns = Top.owns
      /\ g.restore = Top.restore /\ g.visits = Top.visits
  BY PhaseChanges DEF Top
<1>2. Depth' = Depth
  BY <1>1 DEF Depth
<1>3. \A i \in 1 .. Depth : i = Depth \/ i \in 1 .. Depth - 1
  BY <1>0
<1>4. \A i \in 1 .. Depth - 1 : stack'[i].phase \in Away
  BY <1>1, BelowTheOwner
<1> HIDE DEF g
<1>5. \A i \in 1 .. Depth : /\ stack'[i].kind = stack[i].kind /\ stack'[i].owns = stack[i].owns
                            /\ stack'[i].restore = stack[i].restore
  BY <1>1, <1>3 DEF g, Top
<1>6. Types'
  <2>1. \A i \in 1 .. Depth' : Framed(stack'[i])
    BY <1>1, <1>2, <1>3 DEF Types, g
  <2> QED
    BY <1>1, <2>1 DEF Types
<1>7. Shape'
  <2>1. ASSUME NEW j \in 1 .. Depth'
        PROVE  stack'[j].owns <=> \A i \in 1 .. j - 1 : stack'[i].phase \in Away
    <3>1. j \in 1 .. Depth /\ \A i \in 1 .. j - 1 : i \in 1 .. Depth - 1
      BY <1>0, <1>2
    <3>2. \A i \in 1 .. j - 1 : stack'[i] = stack[i]
      BY <1>1, <3>1
    <3> QED
      BY <1>5, <3>1, <3>2 DEF Shape
  <2>2. ASSUME NEW j \in 1 .. Depth'
        PROVE  /\ stack'[j].phase = "hook" => stack'[j].kind = "simplify" /\ stack'[j].owns
               /\ stack'[j].phase \in {"radical", "rest"} => stack'[j].kind = "equal"
               /\ stack'[j].kind = "equal" => j = 1
    <3>1. CASE j \in 1 .. Depth - 1
      <4>1. stack'[j] = stack[j] /\ j \in 1 .. Depth
        BY <1>0, <1>1, <3>1
      <4> QED
        BY <4>1 DEF Shape
    <3>2. CASE j = Depth
      <4>1. stack'[j].phase = p /\ stack'[j].kind = Top.kind /\ stack'[j].owns = Top.owns
        BY <1>1, <3>2 DEF g
      <4>2. Top.kind = "equal" => j = 1
        BY <1>0, <3>2 DEF Shape, Top
      <4> QED
        BY <4>1, <4>2
    <3> QED
      BY <1>2, <1>3, <3>1, <3>2
  <2> QED
    BY <2>1, <2>2 DEF Shape
<1>8. Flag'
  <2>1. \A i \in 1 .. Depth - 1 : ~IsOpen(stack'[i])
    BY <1>4 DEF IsOpen, Away
  <2>2. IsOpen(stack'[Depth]) <=> p \notin Away
    BY <1>1 DEF IsOpen, Away, Phases, g
  <2>3. stack'[Depth].phase \notin Away <=> p \notin Away
    BY <1>1 DEF g
  <2> QED
    BY <1>0, <1>2, <1>3, <1>4, <2>1, <2>2, <2>3 DEF Flag
<1>9. Budgets'
  BY <1>0, <1>2, <1>5 DEF Budgets
<1>10. Charged'
  <2>1. \A i \in 1 .. Depth' : stack'[i].phase # "run"
    BY <1>1, <1>2, <1>3, <1>4 DEF Away, g
  <2> QED
    BY <2>1 DEF Charged
<1> QED
  BY <1>2, <1>5, <1>6, <1>7, <1>8, <1>9, <1>10

-----------------------------------------------------------------------------
(* What the steps do to the simplify cache. *)

(* The cache, the assumptions and the revisions stay; no simplify begins. *)
LEMMA CachesUnchanged ==
    ASSUME Caches, UNCHANGED <<facts, revision, last_assumptions_revision, simplify_cache>>,
           \A i \in 1 .. Depth' : stack'[i].kind = "simplify" => \E j \in 1 .. Depth : stack[j].kind = "simplify"
    PROVE  Caches'
BY DEF Caches, Stale, SimplifyCacheIsCurrent

(* A simplify compares the revisions before it uses the cache. *)
LEMMA CachesRevalidated ==
    ASSUME Types, Caches, Revalidate, UNCHANGED <<facts, revision>>
    PROVE  Caches'
<1>1. ~Stale' /\ last_assumptions_revision' <= revision'
  BY DEF Types, Revalidate, Stale
<1>2. simplify_cache' = [e \in Exprs |-> simplify_cache'[e]]
  BY DEF Caches, Revalidate, Current
<1>3. SimplifyCacheIsCurrent'
  <2>1. CASE Stale
    BY <2>1 DEF Revalidate, Current, SimplifyCacheIsCurrent
  <2>2. CASE ~Stale
    BY <2>2 DEF Revalidate, Current, SimplifyCacheIsCurrent, Caches
  <2> QED
    BY <2>1, <2>2
<1> QED
  BY <1>1, <1>2, <1>3 DEF Caches

(* A simplify that ends well stores its result under the assumptions in force. *)
LEMMA CachesStored ==
    ASSUME Types, Caches, Depth >= 1, Top.kind = "simplify",
           NEW entry, entry.under = facts, simplify_cache' = Put(simplify_cache, entry),
           UNCHANGED <<facts, revision, last_assumptions_revision>>
    PROVE  Caches'
<1>1. ~Stale /\ ~Stale'
  <2>1. Depth \in 1 .. Depth
    BY DepthIs
  <2> QED
    BY <2>1 DEF Caches, Top, Stale
<1>2. last_assumptions_revision' <= revision'
  BY <1>1 DEF Stale, Types
<1> DEFINE k == Top.key
<1>3. simplify_cache' = IF caching_enabled THEN [simplify_cache EXCEPT ![k] = entry] ELSE simplify_cache
  BY DEF Put
<1> HIDE DEF k
<1>4. simplify_cache = [e \in Exprs |-> simplify_cache[e]]
  BY DEF Caches
<1>5. simplify_cache' = [e \in Exprs |-> simplify_cache'[e]]
  BY <1>3, <1>4
<1>6. \A e \in Exprs : simplify_cache'[e] = simplify_cache[e] \/ simplify_cache'[e] = entry
  BY <1>3, <1>4
<1>7. SimplifyCacheIsCurrent'
  BY <1>1, <1>6 DEF SimplifyCacheIsCurrent, Caches
<1> QED
  BY <1>1, <1>2, <1>5, <1>7 DEF Caches

-----------------------------------------------------------------------------
(* The steps of the client. *)

(* Between operations there is no frame. *)
LEMMA IdleIs == ASSUME Types, Idle PROVE Depth = 0
BY DepthIs

(* A fact is stated: an entry of the cache is then of an older revision. *)
LEMMA AssumeInv == ASSUME IInv, NEW c \in Assumable, Assume(c) PROVE IInv'
<1>1. Types /\ Shape /\ Flag /\ Budgets /\ Charged /\ Caches
  BY DEF IInv
<1>2. Kept(stack, stack', Depth)
  BY <1>1, StackUnchanged DEF Assume
<1>3. Types' /\ Shape' /\ Flag' /\ Budgets' /\ Charged'
  <2>1. revision' \in Nat /\ last_assumptions_revision' \in Nat
    BY <1>1 DEF Types, Assume, cacheVars
  <2> QED
    BY <1>1, <1>2, <2>1, KeptStep DEF Assume
<1>4. Depth' = 0
  BY <1>1, IdleIs DEF Assume, Depth
<1>5. \/ Stale' /\ last_assumptions_revision' <= revision'
      \/ \A e \in Exprs : simplify_cache'[e] = None
  BY <1>1 DEF Caches, Types, Stale, Assume, cacheVars
<1>6. Caches'
  <2>1. simplify_cache' = [e \in Exprs |-> simplify_cache'[e]]
    BY <1>1 DEF Caches, Assume, cacheVars
  <2> HIDE DEF Depth
  <2> QED
    BY <1>4, <1>5, <2>1 DEF Caches, SimplifyCacheIsCurrent
<1> QED
  BY <1>3, <1>6 DEF IInv

(* A reset and a change of the caching switch leave an empty cache or the old one. *)
LEMMA ClientCachesInv ==
    ASSUME IInv, Reset \/ \E enabled \in BOOLEAN : SetCachingEnabled(enabled)
    PROVE  IInv'
<1>1. Types /\ Shape /\ Flag /\ Budgets /\ Charged /\ Caches
  BY DEF IInv
<1>2. /\ Idle /\ UNCHANGED <<stack, budgetVars, client, last_assumptions_revision>>
      /\ revision' \in Nat
      /\ \/ simplify_cache' = [e \in Exprs |-> None]
         \/ UNCHANGED <<facts, revision, simplify_cache>>
  BY <1>1 DEF Reset, SetCachingEnabled, Types
<1>3. Types' /\ Shape' /\ Flag' /\ Budgets' /\ Charged'
  <2>1. last_assumptions_revision' \in Nat
    BY <1>1, <1>2 DEF Types
  <2> QED
    BY <1>1, <1>2, <2>1, StackUnchanged, KeptStep
<1>4. Depth' = 0
  BY <1>1, <1>2, IdleIs DEF Depth
<1>5. Caches'
  <2> HIDE DEF Depth
  <2>1. CASE simplify_cache' = [e \in Exprs |-> None]
    BY <1>4, <2>1 DEF Caches, SimplifyCacheIsCurrent
  <2>2. CASE UNCHANGED <<facts, revision, simplify_cache>>
    BY <1>1, <1>2, <1>4, <2>2 DEF Caches, SimplifyCacheIsCurrent, Stale
  <2> QED
    BY <1>2, <2>1, <2>2
<1> QED
  BY <1>3, <1>5 DEF IInv

(* The client sets the budget between operations. *)
LEMMA SetBudgetInv == ASSUME IInv, NEW budget \in Budget, SetBudget(budget) PROVE IInv'
<1>1. Types /\ Shape /\ Flag /\ Budgets /\ Charged /\ Caches
  BY DEF IInv
<1>2. Depth = 0 /\ Depth' = 0 /\ stack' = stack
  BY <1>1, IdleIs DEF SetBudget, Depth
<1> HIDE DEF Depth
<1>3. Types'
  BY <1>1, <1>2 DEF Types, SetBudget, Budget, cacheVars
<1>4. Shape' /\ Charged'
  BY <1>2 DEF Shape, Charged
<1>5. Flag'
  BY <1>1, <1>2 DEF Flag, SetBudget
<1>6. Budgets'
  BY <1>2 DEF Budgets, SetBudget
<1>7. Caches'
  BY <1>1, <1>2 DEF Caches, SetBudget, cacheVars, Stale, SimplifyCacheIsCurrent
<1> QED
  BY <1>3, <1>4, <1>5, <1>6, <1>7 DEF IInv

-----------------------------------------------------------------------------
(* The steps of the operations. *)

(* What the guard of a call in progress says. *)
LEMMA AtIs ==
    ASSUME Types, NEW kinds, NEW phases, At(kinds, phases)
    PROVE  Depth >= 1 /\ Depth \in 1 .. Depth /\ Framed(Top) /\ Top.kind \in kinds /\ Top.phase \in phases
BY DepthIs DEF At, Types, Top

(* A call returns: the flag, the budget and the count are those of the calls that remain. *)
LEMMA ReturnInv ==
    ASSUME IInv, Depth >= 1, Top.phase # "radical",
           NEW ok \in BOOLEAN, NEW STATE conditions, Leave(ok, stack, conditions, ops_count),
           UNCHANGED <<client, revision, last_assumptions_revision>>
    PROVE  /\ Types' /\ Shape' /\ Flag' /\ Budgets' /\ Charged'
           /\ \A i \in 1 .. Depth' : stack'[i].kind = "simplify" => \E j \in 1 .. Depth : stack[j].kind = "simplify"
<1>1. Types /\ Shape /\ Flag /\ Budgets /\ Charged
  BY DEF IInv
<1>2. Sequence(stack) /\ Len(stack) = Depth /\ ops_count \in Nat
  BY <1>1 DEF Types, Depth
<1>3. \A i \in 1 .. Depth : Framed(stack[i]) /\ Same(stack[i], stack[i])
  BY <1>1 DEF Types, Same
<1>4. \A i \in 1 .. Depth : stack[i].owns /\ stack[i].phase = "run" => stack[i].visits = ops_count
  BY <1>1 DEF Charged
<1>5. /\ Types' /\ Shape' /\ Flag' /\ Budgets' /\ Charged'
      /\ Depth' = Depth - 1 /\ \A i \in 1 .. Depth - 1 : Same(stack'[i], stack[i])
  BY <1>1, <1>2, <1>3, <1>4, LeaveStep
<1>6. \A i \in 1 .. Depth' : i \in 1 .. Depth /\ stack'[i].kind = stack[i].kind
  BY <1>1, <1>5, DepthIs DEF Same
<1> QED
  BY <1>5, <1>6

(* A call answered from a cache reports to its caller. *)
LEMMA HitInv ==
    ASSUME IInv, (\E e \in Exprs : SimplifyHit(e)) \/ (\E f \in Integrands : IntegrateHit(f))
    PROVE  IInv'
<1>1. Types /\ Shape /\ Flag /\ Budgets /\ Charged /\ Caches
  BY DEF IInv
<1>2. /\ \E report : Deliver(report, stack)
      /\ UNCHANGED <<facts, revision, budgetVars, client>>
      /\ Revalidate \/ UNCHANGED <<last_assumptions_revision, simplify_cache>>
  BY DEF SimplifyHit, IntegrateHit, cacheVars
<1>3. Kept(stack, stack', Depth)
  BY <1>1, <1>2, DeliverKeeps DEF Types, Depth
<1>4. revision' \in Nat /\ last_assumptions_revision' \in Nat
  BY <1>1, <1>2 DEF Types, Revalidate
<1>5. Types' /\ Shape' /\ Flag' /\ Budgets' /\ Charged'
  BY <1>1, <1>2, <1>3, <1>4, KeptStep
<1>6. Caches'
  <2>1. CASE Revalidate
    BY <1>1, <1>2, <2>1, CachesRevalidated
  <2>2. CASE UNCHANGED <<last_assumptions_revision, simplify_cache>>
    <3>1. \A i \in 1 .. Depth' : i \in 1 .. Depth /\ stack'[i].kind = stack[i].kind
      BY <1>3 DEF Kept, Same, Depth
    <3> QED
      BY <1>1, <1>2, <2>2, <3>1, CachesUnchanged
  <2> QED
    BY <1>2, <2>1, <2>2
<1> QED
  BY <1>5, <1>6 DEF IInv

(* A simplify begins. *)
LEMMA SimplifyMissInv == ASSUME IInv, NEW e \in Exprs, SimplifyMiss(e) PROVE IInv'
<1>1. Types /\ Shape /\ Flag /\ Budgets /\ Charged /\ Caches
  BY DEF IInv
<1>2. revision' \in Nat /\ last_assumptions_revision' \in Nat
  BY <1>1 DEF Types, Revalidate, SimplifyMiss
<1>3. /\ Enter("simplify", e, Accumulator, None) /\ Begin /\ Revalidate
      /\ UNCHANGED <<facts, revision, max_operation_ops, max_operation_ops_explicit, client>>
  BY DEF SimplifyMiss
<1>4. Types' /\ Shape' /\ Flag' /\ Budgets' /\ Charged'
  <2>1. "simplify" \in CallKinds /\ None \in Budget \cup {None}
    BY DEF CallKinds
  <2> HIDE DEF Accumulator
  <2> QED
    BY <1>1, <1>2, <1>3, <2>1, EnterStep
<1>5. Caches'
  BY <1>1, <1>3, CachesRevalidated
<1> QED
  BY <1>4, <1>5 DEF IInv

(* An integrate, an attempt, a scope or a comparison begins.  Only an integrate of the client
   lowers the budget: inside an operation the flag is up, and away calls make no integrate. *)
LEMMA OpenInv ==
    ASSUME IInv, (\E f \in Integrands : IntegrateMiss(f)) \/ \E kind \in {"scope", "equal", "attempt"} : Open(kind)
    PROVE  IInv'
<1>1. Types /\ Shape /\ Flag /\ Budgets /\ Charged /\ Caches
  BY DEF IInv
<1>2. Depth \in Nat
  BY <1>1, DepthIs
<1>3. /\ Begin /\ UNCHANGED <<facts, revision, last_assumptions_revision, simplify_cache, client>>
      /\ revision' \in Nat /\ last_assumptions_revision' \in Nat
  BY <1>1 DEF IntegrateMiss, Open, cacheVars, Types
<1>4. ASSUME NEW kind \in CallKinds \ {"simplify"}, Types', Shape', Flag', Budgets', Charged',
             Depth' = Depth + 1, \A i \in 1 .. Depth : stack'[i] = stack[i], stack'[Depth + 1].kind = kind
      PROVE  IInv'
  <2>1. \A i \in 1 .. Depth' : stack'[i].kind = "simplify" => i \in 1 .. Depth /\ stack[i].kind = "simplify"
    BY <1>2, <1>4
  <2> QED
    BY <1>1, <1>3, <1>4, <2>1, CachesUnchanged DEF IInv
<1>5. ASSUME NEW kind \in {"scope", "equal", "attempt"}, Open(kind) PROVE IInv'
  <2> DEFINE mark == IF kind = "attempt" THEN side_conditions ELSE Before
  <2>1. /\ Enter(kind, None, mark, None) /\ UNCHANGED <<max_operation_ops, max_operation_ops_explicit>>
        /\ kind \in CallKinds /\ None \in Budget \cup {None}
    BY <1>5 DEF Open, CallKinds
  <2>2. kind = "equal" => Depth = 0
    <3> SUFFICES ASSUME kind = "equal", ~Idle PROVE FALSE
      BY <1>1, DepthIs
    <3>1. MayCall("equal") /\ Depth \in 1 .. Depth
      BY <1>1, <1>5, DepthIs DEF Open
    <3>2. Framed(Top) /\ "equal" \in Callees[Top.kind]
      BY <1>1, <3>1 DEF MayCall, Types, Top
    <3>3. Top.kind \in CallKinds
      BY <3>2 DEF Framed
    <3> QED
      BY <3>2, <3>3 DEF Callees, CallKinds
  <2> HIDE DEF mark
  <2>3. /\ Types' /\ Shape' /\ Flag' /\ Budgets' /\ Charged'
        /\ Depth' = Depth + 1 /\ \A i \in 1 .. Depth : stack'[i] = stack[i]
        /\ stack'[Depth + 1].kind = kind
    BY <1>1, <1>3, <2>1, <2>2, EnterStep
  <2> QED
    BY <1>4, <2>1, <2>3
<1>6. ASSUME NEW f \in Integrands, IntegrateMiss(f) PROVE IInv'
  <2> DEFINE capped  == ~operation_active /\ CapLowers
             restore == IF capped THEN [max |-> max_operation_ops, explicit |-> max_operation_ops_explicit]
                        ELSE None
  <2>1. /\ Enter("integrate", f, Before, restore) /\ MayCall("integrate")
        /\ max_operation_ops' = IF capped THEN IntegrationCap ELSE max_operation_ops
        /\ max_operation_ops_explicit' = (capped \/ max_operation_ops_explicit)
    BY <1>6 DEF IntegrateMiss
  <2>2. restore \in Budget \cup {None} /\ (restore # None <=> capped)
    BY <1>1, SessionAssumption DEF SessionAssumption, Types, Budget
  <2>3. ~capped => UNCHANGED <<max_operation_ops, max_operation_ops_explicit>>
    BY <1>1, <2>1 DEF Types
  <2>4. ~operation_active => Depth = 0
    <3> SUFFICES ASSUME ~operation_active, ~Idle PROVE FALSE
      BY <1>1, DepthIs
    <3>1. Depth \in 1 .. Depth
      BY <1>1, DepthIs
    <3>2. Framed(Top) /\ Top.phase \in Away
      BY <1>1, <3>1 DEF Types, Flag, Top
    <3>3. CASE Top.phase = "hook"
      BY <2>1, <3>3 DEF MayCall
    <3>4. CASE Top.phase = "radical"
      <4>1. Top.kind = "equal"
        BY <1>1, <3>1, <3>4 DEF Shape, Top
      <4> QED
        BY <2>1, <4>1 DEF MayCall, Callees
    <3> QED
      BY <3>2, <3>3, <3>4 DEF Away
  <2>5. capped => /\ Depth = 0 /\ restore = client
                  /\ max_operation_ops' \in 1 .. (client.max - 1)
                  /\ max_operation_ops_explicit' \in BOOLEAN
    <3> SUFFICES ASSUME capped
                 PROVE  /\ Depth = 0 /\ restore = client
                        /\ max_operation_ops' \in 1 .. (client.max - 1)
                        /\ max_operation_ops_explicit' \in BOOLEAN
      OBVIOUS
    <3>1. Depth = 0
      BY <2>4
    <3>2. max_operation_ops = client.max /\ max_operation_ops_explicit = client.explicit /\ client \in Budget
      BY <1>1, <3>1 DEF Budgets, Types
    <3>3. restore = client
      BY <3>2 DEF Budget
    <3>4. IntegrationCap \in Nat
      BY SessionAssumption DEF SessionAssumption
    <3>5. max_operation_ops' \in 1 .. (client.max - 1)
      BY <2>1, <3>2, <3>4 DEF CapLowers, Budget
    <3> QED
      BY <2>1, <3>1, <3>3, <3>5
  <2>6. "integrate" \in CallKinds \ {"simplify"}
    BY DEF CallKinds
  <2> HIDE DEF capped, restore, Before
  <2>7. /\ Types' /\ Shape' /\ Flag' /\ Budgets' /\ Charged'
        /\ Depth' = Depth + 1 /\ \A i \in 1 .. Depth : stack'[i] = stack[i]
        /\ stack'[Depth + 1].kind = "integrate"
    BY <1>1, <1>3, <2>1, <2>2, <2>3, <2>5, <2>6, EnterStep
  <2> QED
    BY <1>4, <2>6, <2>7
<1> QED
  BY <1>5, <1>6

(* A top-level simplify closes its operation for the hook; a comparison hides its own from
   its radical test, and takes it back. *)
LEMMA PhaseInv ==
    ASSUME IInv, CloseAndHook \/ RadicalWindow("run", "radical", FALSE) \/ RadicalWindow("radical", "rest", TRUE)
    PROVE  IInv'
<1>1. Types /\ Shape /\ Flag /\ Budgets /\ Charged /\ Caches
  BY DEF IInv
<1>2. ASSUME NEW p \in {"hook", "radical", "rest"}, Depth >= 1, Top.owns, stack' = [stack EXCEPT ![Depth].phase = p],
             p = "hook" => Top.kind = "simplify", p # "hook" => Top.kind = "equal",
             operation_active' = (p \notin Away), ops_count' \in Nat,
             UNCHANGED <<facts, revision, cacheVars, max_operation_ops, max_operation_ops_explicit, client>>
      PROVE  IInv'
  <2>1. UNCHANGED <<last_assumptions_revision, simplify_cache>>
    BY <1>2 DEF cacheVars
  <2>2. p \in Phases \ {"run"}
    BY DEF Phases
  <2>3. /\ Types' /\ Shape' /\ Flag' /\ Budgets' /\ Charged'
        /\ Depth' = Depth /\ \A i \in 1 .. Depth : stack'[i].kind = stack[i].kind
    BY <1>1, <1>2, <2>1, <2>2, PhaseStep
  <2>4. Caches'
    BY <1>1, <1>2, <2>1, <2>3, CachesUnchanged
  <2> QED
    BY <2>3, <2>4 DEF IInv
<1>3. CASE CloseAndHook
  <2>1. Depth >= 1 /\ Top.kind = "simplify" /\ Top.owns
    BY <1>1, <1>3, AtIs DEF CloseAndHook
  <2> QED
    BY <1>2, <1>3, <2>1 DEF CloseAndHook, Away
<1>4. ASSUME NEW from, NEW to \in {"radical", "rest"}, RadicalWindow(from, to, to = "rest") PROVE IInv'
  <2>1. Depth >= 1 /\ Depth \in 1 .. Depth /\ Top.kind = "equal"
    BY <1>1, <1>4, AtIs DEF RadicalWindow
  <2>2. Top.owns
    <3>1. Depth = 1
      BY <1>1, <2>1 DEF Shape, Top
    <3> QED
      BY <1>1, <3>1 DEF Shape, Top
  <2>3. ops_count' \in Nat
    BY <1>1, <1>4 DEF Types, RadicalWindow
  <2>4. operation_active' = (to \notin Away)
    BY <1>4 DEF RadicalWindow, Away
  <2> QED
    BY <1>2, <1>4, <2>1, <2>2, <2>3, <2>4 DEF RadicalWindow
<1>5. CASE RadicalWindow("run", "radical", FALSE)
  <2>1. ("radical" = "rest") = FALSE
    OBVIOUS
  <2>2. RadicalWindow("run", "radical", "radical" = "rest")
    BY <1>5, <2>1 DEF RadicalWindow
  <2> QED
    BY <1>4, <2>2
<1>6. CASE RadicalWindow("radical", "rest", TRUE)
  <2>2. RadicalWindow("radical", "rest", "rest" = "rest")
    BY <1>6 DEF RadicalWindow
  <2> QED
    BY <1>4, <2>2
<1> QED
  BY <1>3, <1>5, <1>6

(* A call ends, well or not. *)
LEMMA ReturnsInv == ASSUME IInv, SimplifyDone \/ IntegrateDone \/ Done \/ Fail PROVE IInv'
<1>1. Types /\ Shape /\ Flag /\ Budgets /\ Charged /\ Caches
  BY DEF IInv
<1>2. CASE SimplifyDone
  <2>1. Depth >= 1 /\ Top.kind = "simplify" /\ Top.phase \in {"run", "hook"}
    BY <1>1, <1>2, AtIs DEF SimplifyDone
  <2>2. /\ Leave(TRUE, stack, side_conditions, ops_count)
        /\ UNCHANGED <<client, facts, revision, last_assumptions_revision>>
        /\ \E entry : entry.under = facts /\ simplify_cache' = Put(simplify_cache, entry)
    BY <1>2 DEF SimplifyDone
  <2>3. Types' /\ Shape' /\ Flag' /\ Budgets' /\ Charged'
    BY <2>1, <2>2, ReturnInv
  <2>4. Caches'
    BY <1>1, <2>1, <2>2, CachesStored
  <2> QED
    BY <2>3, <2>4 DEF IInv
<1>3. CASE IntegrateDone \/ Done \/ Fail
  <2>1. Depth >= 1 /\ Top.phase \in {"run", "rest"}
    <3>1. CASE IntegrateDone
      BY <1>1, <3>1, AtIs DEF IntegrateDone
    <3>2. CASE Done
      BY <1>1, <3>2, AtIs DEF Done
    <3>3. CASE Fail
      BY <1>1, <3>3, AtIs DEF Fail
    <3> QED
      BY <1>3, <3>1, <3>2, <3>3
  <2>2. /\ \E ok \in BOOLEAN : Leave(ok, stack, side_conditions, ops_count)
        /\ UNCHANGED <<client, facts, revision, last_assumptions_revision, simplify_cache>>
    BY <1>3 DEF IntegrateDone, Done, Fail, cacheVars
  <2>3. /\ Types' /\ Shape' /\ Flag' /\ Budgets' /\ Charged'
        /\ \A i \in 1 .. Depth' : stack'[i].kind = "simplify" => \E j \in 1 .. Depth : stack[j].kind = "simplify"
    BY <2>1, <2>2, ReturnInv
  <2>4. Caches'
    BY <1>1, <2>2, <2>3, CachesUnchanged
  <2> QED
    BY <2>3, <2>4 DEF IInv
<1> QED
  BY <1>2, <1>3

(* A node visit is charged to the operation that is open, and may end the call. *)
LEMMA VisitInv == ASSUME IInv, Visit PROVE IInv'
<1>1. Types /\ Shape /\ Flag /\ Budgets /\ Charged /\ Caches
  BY DEF IInv
<1>2. /\ Depth >= 1 /\ Depth \in Nat /\ Top.phase \in {"run", "hook"}
      /\ UNCHANGED <<facts, revision, last_assumptions_revision, simplify_cache, client>>
  BY <1>1, AtIs, DepthIs DEF Visit, cacheVars
<1>3. /\ Sequence(Visited) /\ Len(Visited) = Depth
      /\ \A i \in 1 .. Depth :
             /\ Framed(Visited[i]) /\ Same(Visited[i], stack[i])
             /\ stack[i].owns /\ stack[i].phase = "run" => Visited[i].visits = stack[i].visits + 1
  BY <1>1, VisitedKeeps
<1>4. /\ ops_count \in Nat /\ ops_count + 1 \in Nat
      /\ \A i \in 1 .. Depth : stack[i].owns /\ stack[i].phase = "run" => Visited[i].visits = ops_count + 1
  BY <1>1, <1>3 DEF Types, Charged
<1>5. CASE Leave(FALSE, Visited, side_conditions, ops_count + 1)
  <2> HIDE DEF Visited
  <2>1. /\ Types' /\ Shape' /\ Flag' /\ Budgets' /\ Charged'
        /\ Depth' = Depth - 1 /\ \A i \in 1 .. Depth - 1 : Same(stack'[i], stack[i])
    BY <1>1, <1>2, <1>3, <1>4, <1>5, LeaveStep
  <2>2. \A i \in 1 .. Depth' : i \in 1 .. Depth /\ stack'[i].kind = stack[i].kind
    BY <1>2, <2>1 DEF Same
  <2>3. Caches'
    BY <1>1, <1>2, <2>2, CachesUnchanged
  <2> QED
    BY <2>1, <2>3 DEF IInv
<1>6. CASE /\ ops_count' = ops_count + 1 /\ stack' = Visited
           /\ UNCHANGED <<operation_active, max_operation_ops, max_operation_ops_explicit>>
  <2>1. /\ Sequence(stack') /\ Depth' = Depth
        /\ \A i \in 1 .. Depth :
               /\ Framed(stack'[i]) /\ Same(stack'[i], stack[i])
               /\ stack[i].owns /\ stack[i].phase = "run" => ops_count' = stack'[i].visits
    BY <1>3, <1>4, <1>6 DEF Depth
  <2>2. Types'
    BY <1>1, <1>2, <1>4, <1>6, <2>1 DEF Types
  <2>3. Shape'
    BY <1>1, <1>2, <2>1 DEF Shape, Same
  <2>4. Flag'
    BY <1>1, <1>6, <2>1 DEF Flag, Same, IsOpen
  <2>5. Budgets'
    BY <1>1, <1>2, <1>6, <2>1 DEF Budgets, Same
  <2>6. Charged'
    BY <2>1 DEF Charged, Same
  <2>7. Caches'
    BY <1>1, <1>2, <2>1, CachesUnchanged DEF Same
  <2> QED
    BY <2>2, <2>3, <2>4, <2>5, <2>6, <2>7 DEF IInv
<1> QED
  BY <1>5, <1>6 DEF Visit

(* A rewrite takes a condition, or fails because the set is full. *)
LEMMA EmitInv == ASSUME IInv, NEW c \in Conditions, EmitSideCondition(c) PROVE IInv'
<1>1. Types /\ Shape /\ Flag /\ Budgets /\ Charged /\ Caches
  BY DEF IInv
<1>2. /\ Depth >= 1 /\ Depth \in 1 .. Depth /\ Top.phase \in {"run", "hook"}
      /\ UNCHANGED <<facts, revision, last_assumptions_revision, simplify_cache, client>>
      /\ revision' \in Nat /\ last_assumptions_revision' \in Nat
  BY <1>1, AtIs DEF EmitSideCondition, cacheVars, Types
<1>3. CASE Leave(FALSE, stack, Add(side_conditions, c), ops_count)
  <2>1. /\ Types' /\ Shape' /\ Flag' /\ Budgets' /\ Charged'
        /\ \A i \in 1 .. Depth' : stack'[i].kind = "simplify" => \E j \in 1 .. Depth : stack[j].kind = "simplify"
    BY <1>2, <1>3, ReturnInv
  <2> QED
    BY <1>1, <1>2, <2>1, CachesUnchanged DEF IInv
<1>4. CASE /\ stack' = stack \/ stack' = [stack EXCEPT ![Depth].due = @ \cup {c}]
           /\ UNCHANGED budgetVars
  <2>1. Kept(stack, stack', Depth)
    <3>1. CASE stack' = stack
      BY <1>1, <3>1, StackUnchanged
    <3>2. CASE stack' = [stack EXCEPT ![Depth].due = @ \cup {c}]
      <4> DEFINE n == Depth
                 f == stack[n]
                 g == [f EXCEPT !.due = f.due \cup {c}]
      <4>1. n \in Nat /\ n \in 1 .. n /\ DOMAIN stack = 1 .. n /\ \A i \in 1 .. n : Framed(stack[i])
        BY <1>1, <1>2, DepthIs DEF Types, Sequence, Depth
      <4>2. stack' = [stack EXCEPT ![n] = g]
        BY <3>2
      <4>3. Framed(g) /\ Same(g, f) /\ g.visits = f.visits
        <5>1. Framed(f)
          BY <4>1
        <5> HIDE DEF f
        <5> QED
          BY <5>1 DEF Framed, Same
      <4> HIDE DEF g, n
      <4>4. /\ stack' = [i \in 1 .. n |-> stack'[i]]
            /\ \A i \in 1 .. n : stack'[i] = IF i = n THEN g ELSE stack[i]
        BY <4>1, <4>2
      <4>5. Sequence(stack') /\ Len(stack') = n
        BY <4>1, <4>4, ListIs
      <4>6. \A i \in 1 .. n : Framed(stack'[i]) /\ Same(stack'[i], stack[i]) /\ stack'[i].visits = stack[i].visits
        BY <4>1, <4>3, <4>4 DEF Same
      <4> QED
        BY <4>5, <4>6 DEF Kept, n
    <3> QED
      BY <1>4, <3>1, <3>2
  <2>2. Types' /\ Shape' /\ Flag' /\ Budgets' /\ Charged'
    BY <1>1, <1>2, <1>4, <2>1, KeptStep
  <2>3. \A i \in 1 .. Depth' : i \in 1 .. Depth /\ stack'[i].kind = stack[i].kind
    BY <2>1 DEF Kept, Same, Depth
  <2> QED
    BY <1>1, <1>2, <2>2, <2>3, CachesUnchanged DEF IInv
<1> QED
  BY <1>3, <1>4 DEF EmitSideCondition

-----------------------------------------------------------------------------
(* The theorems. *)

(* Every step keeps the invariant. *)
LEMMA NextInv == IInv /\ [Next]_vars => IInv'
<1> SUFFICES ASSUME IInv, [Next]_vars PROVE IInv'
  OBVIOUS
<1>1. CASE \E c \in Assumable : Assume(c)
  BY <1>1, AssumeInv
<1>2. CASE \E c \in Conditions : EmitSideCondition(c)
  BY <1>2, EmitInv
<1>3. CASE Reset \/ \E enabled \in BOOLEAN : SetCachingEnabled(enabled)
  BY <1>3, ClientCachesInv
<1>4. CASE SetTimeout \/ \E ops \in OpsLimits : SetMaxOperationOps(ops)
  <2>1. \E budget \in Budget : SetBudget(budget)
    BY <1>4, SessionAssumption DEF SessionAssumption, SetTimeout, SetMaxOperationOps, Budget, IInv, Types
  <2> QED
    BY <2>1, SetBudgetInv
<1>5. CASE \E e \in Exprs : SimplifyHit(e) \/ SimplifyMiss(e)
  BY <1>5, HitInv, SimplifyMissInv
<1>6. CASE CloseAndHook \/ RadicalWindow("run", "radical", FALSE) \/ RadicalWindow("radical", "rest", TRUE)
  BY <1>6, PhaseInv
<1>7. CASE \E f \in Integrands : IntegrateHit(f) \/ IntegrateMiss(f)
  BY <1>7, HitInv, OpenInv
<1>8. CASE SimplifyDone \/ IntegrateDone \/ Done \/ Fail
  BY <1>8, ReturnsInv
<1>9. CASE \E kind \in {"scope", "equal", "attempt"} : Open(kind)
  BY <1>9, OpenInv
<1>10. CASE Visit
  BY <1>10, VisitInv
<1>11. CASE UNCHANGED vars
  <2>1. UNCHANGED <<facts, revision, last_assumptions_revision, simplify_cache, operation_active, ops_count,
                    max_operation_ops, max_operation_ops_explicit, stack, client>>
    BY <1>11 DEF vars, cacheVars, budgetVars
  <2> QED
    BY <2>1 DEF IInv, Types, Shape, Flag, Budgets, Charged, Caches, Depth, Stale, SimplifyCacheIsCurrent
<1> QED
  BY <1>1, <1>2, <1>3, <1>4, <1>5, <1>6, <1>7, <1>8, <1>9, <1>10, <1>11 DEF Next

(* The invariant holds of every session, however deep its calls nest. *)
THEOREM InvariantHolds == Spec => []IInv
<1>1. Init => IInv
  BY InitInv
<1>2. IInv /\ [Next]_vars => IInv'
  BY NextInv
<1> QED
  BY <1>1, <1>2, PTL DEF Spec

(* The operation flag is up exactly while an operation is open: no sequence of scopes, hooks,
   radical windows and failures leaves it up or drops it (context_core.cpp:75-90). *)
THEOREM FlagIsRaisedWhileOpen == Spec => []ActiveWhileOpen
<1>1. IInv => ActiveWhileOpen
  BY DEF IInv, Flag, IsOpen, ActiveWhileOpen
<1> QED
  BY <1>1, InvariantHolds, PTL

(* The budget in force is never more generous than the client's, and it is the client's again
   when no call is in progress (context_core.cpp:117-150). *)
THEOREM BudgetIsNeverWidened == Spec => []BudgetNeverWidens
<1>1. IInv => BudgetNeverWidens
  BY DepthIs DEF IInv, Budgets, BudgetNeverWidens
<1> QED
  BY <1>1, InvariantHolds, PTL

(* Whatever is visited inside an open operation is charged to it (integrate.cpp:33-44). *)
THEOREM VisitsAreCharged == Spec => []ChargedToTheOuterCall
<1>1. IInv => ChargedToTheOuterCall
  BY DEF IInv, Charged, ChargedToTheOuterCall
<1> QED
  BY <1>1, InvariantHolds, PTL

(* An entry that simplify can serve was computed under the assumptions in force
   (assumptions.hpp:83-92). *)
THEOREM ServedEntriesAreCurrent == Spec => []SimplifyCacheIsCurrent
<1>1. IInv => SimplifyCacheIsCurrent
  BY DEF IInv, Caches
<1> QED
  BY <1>1, InvariantHolds, PTL

-----------------------------------------------------------------------------
(* The conditions. *)

\* A set of conditions that an accumulator of this size may hold.
Fits(items) == items \in Seq(Conditions) /\ Len(items) <= MaxConds

\* Everything items says is said by after too.
Says(after, items) == \A c \in Conditions : Held(items, c) => Held(after, c)

-----------------------------------------------------------------------------
(* Induction, and how the recursive functions unfold. *)

\* f is what Select computes on the first n members of s.
Chosen(s, keep, f, n) ==
    f = [i \in 0 .. n |->
            IF i = 0 THEN <<>>
            ELSE IF s[i] \in keep THEN Append(f[i - 1], s[i]) ELSE f[i - 1]]

(* The recursion of Select has a solution on every prefix. *)
LEMMA ChosenExists ==
    ASSUME NEW s, Len(s) \in Nat, NEW keep
    PROVE  \A n \in Nat : n <= Len(s) => \E f : Chosen(s, keep, f, n)
<1> DEFINE P == {n \in Nat : n <= Len(s) => \E f : Chosen(s, keep, f, n)}
<1>1. 0 \in P
  <2>1. Chosen(s, keep, [i \in 0 .. 0 |-> <<>>], 0)
    BY DEF Chosen
  <2> QED
    BY <2>1
<1>2. ASSUME NEW n \in Nat, n \in P PROVE n + 1 \in P
  <2> SUFFICES ASSUME n + 1 <= Len(s) PROVE \E f : Chosen(s, keep, f, n + 1)
    OBVIOUS
  <2>1. PICK f : Chosen(s, keep, f, n)
    BY <1>2
  <2> DEFINE g == [i \in 0 .. n + 1 |->
                      IF i = n + 1 THEN IF s[i] \in keep THEN Append(f[i - 1], s[i]) ELSE f[i - 1]
                      ELSE f[i]]
  <2>2. g = [i \in 0 .. n + 1 |-> g[i]]
    OBVIOUS
  <2>3. ASSUME NEW i \in 0 .. n + 1
        PROVE  g[i] = IF i = 0 THEN <<>>
                      ELSE IF s[i] \in keep THEN Append(g[i - 1], s[i]) ELSE g[i - 1]
    <3>1. CASE i = n + 1
      BY <3>1
    <3>2. CASE i \in 0 .. n
      <4>1. g[i] = f[i] /\ (i # 0 => g[i - 1] = f[i - 1])
        BY <3>2
      <4> QED
        BY <2>1, <3>2, <4>1 DEF Chosen
    <3> QED
      BY <3>1, <3>2
  <2> HIDE DEF g
  <2>4. Chosen(s, keep, g, n + 1)
    BY <2>2, <2>3 DEF Chosen
  <2> QED
    BY <2>4
<1> HIDE DEF P
<1>3. Nat \subseteq P
  BY <1>1, <1>2, SetInduction
<1> QED
  BY <1>3 DEF P

(* Select is the last value of that solution. *)
LEMMA SelectUnfolds ==
    ASSUME NEW s, Len(s) \in Nat, NEW keep
    PROVE  \E f : Chosen(s, keep, f, Len(s)) /\ Select(s, keep) = f[Len(s)]
<1>0. \E f : Chosen(s, keep, f, Len(s))
  <2>1. Len(s) <= Len(s)
    OBVIOUS
  <2> QED
    BY <2>1, ChosenExists
<1> DEFINE chosen[i \in 0 .. Len(s)] ==
               IF i = 0 THEN <<>>
               ELSE IF s[i] \in keep THEN Append(chosen[i - 1], s[i]) ELSE chosen[i - 1]
<1>1. Chosen(s, keep, chosen, Len(s))
  BY <1>0 DEF Chosen
<1>2. Select(s, keep) = chosen[Len(s)]
  BY DEF Select
<1> HIDE DEF chosen
<1> QED
  BY <1>1, <1>2

\* f is what Merge computes on the first n members of other.
Merging(items, other, f, n) ==
    f = [i \in 0 .. n |->
            IF i = 0 THEN [items |-> items, ok |-> TRUE]
            ELSE LET acc == f[i - 1] IN
                 [items |-> IF acc.ok THEN Add(acc.items, other[i]) ELSE acc.items,
                  ok    |-> acc.ok /\ ~Refused(acc.items, other[i])]]

(* The recursion of Merge has a solution on every prefix. *)
LEMMA MergingExists ==
    ASSUME NEW items, NEW other, Len(other) \in Nat
    PROVE  \A n \in Nat : n <= Len(other) => \E f : Merging(items, other, f, n)
<1> DEFINE Step(acc, c) == [items |-> IF acc.ok THEN Add(acc.items, c) ELSE acc.items,
                            ok    |-> acc.ok /\ ~Refused(acc.items, c)]
           Solves(f, n) == f = [i \in 0 .. n |-> IF i = 0 THEN [items |-> items, ok |-> TRUE]
                                                 ELSE Step(f[i - 1], other[i])]
           P == {n \in Nat : n <= Len(other) => \E f : Solves(f, n)}
<1>1. \A f, n : Merging(items, other, f, n) <=> Solves(f, n)
  BY DEF Merging
<1> HIDE DEF Step
<1>2. 0 \in P
  <2>1. Solves([i \in 0 .. 0 |-> [items |-> items, ok |-> TRUE]], 0)
    OBVIOUS
  <2> QED
    BY <2>1
<1>3. ASSUME NEW n \in Nat, n \in P PROVE n + 1 \in P
  <2> SUFFICES ASSUME n + 1 <= Len(other) PROVE \E f : Solves(f, n + 1)
    OBVIOUS
  <2>1. PICK f : Solves(f, n)
    BY <1>3
  <2> DEFINE g == [i \in 0 .. n + 1 |-> IF i = n + 1 THEN Step(f[i - 1], other[i]) ELSE f[i]]
  <2>2. g = [i \in 0 .. n + 1 |-> g[i]]
    OBVIOUS
  <2>3. ASSUME NEW i \in 0 .. n + 1
        PROVE  g[i] = IF i = 0 THEN [items |-> items, ok |-> TRUE] ELSE Step(g[i - 1], other[i])
    <3>1. CASE i = n + 1
      BY <3>1
    <3>2. CASE i \in 0 .. n
      <4>1. g[i] = f[i] /\ (i # 0 => g[i - 1] = f[i - 1])
        BY <3>2
      <4> QED
        BY <2>1, <3>2, <4>1
    <3> QED
      BY <3>1, <3>2
  <2> HIDE DEF g
  <2>4. Solves(g, n + 1)
    BY <2>2, <2>3
  <2> HIDE DEF Solves
  <2> QED
    BY <2>4
<1> HIDE DEF P
<1>4. Nat \subseteq P
  BY <1>2, <1>3, SetInduction
<1> HIDE DEF Solves
<1> QED
  BY <1>1, <1>4 DEF P

(* Merge is the set of the last value of that solution. *)
LEMMA MergeUnfolds ==
    ASSUME NEW items, NEW other, Len(other) \in Nat
    PROVE  \E f : Merging(items, other, f, Len(other)) /\ Merge(items, other) = f[Len(other)].items
<1>0. \E f : Merging(items, other, f, Len(other))
  <2>1. Len(other) <= Len(other)
    OBVIOUS
  <2> QED
    BY <2>1, MergingExists
<1> DEFINE after[i \in 0 .. Len(other)] ==
               IF i = 0 THEN [items |-> items, ok |-> TRUE]
               ELSE LET acc == after[i - 1] IN
                    [items |-> IF acc.ok THEN Add(acc.items, other[i]) ELSE acc.items,
                     ok    |-> acc.ok /\ ~Refused(acc.items, other[i])]
<1>1. Merging(items, other, after, Len(other))
  BY <1>0 DEF Merging
<1>2. Merge(items, other) = after[Len(other)].items
  BY DEF Merge
<1> HIDE DEF after
<1> QED
  BY <1>1, <1>2

-----------------------------------------------------------------------------
(* Sequences of conditions by their members. *)

(* What Append adds to the members of a sequence. *)
LEMMA RangeAppend ==
    ASSUME NEW s \in Seq(Conditions), NEW c \in Conditions
    PROVE  /\ Append(s, c) \in Seq(Conditions) /\ Len(Append(s, c)) = Len(s) + 1
           /\ Range(Append(s, c)) = Range(s) \cup {c}
<1>1. /\ Append(s, c) \in Seq(Conditions) /\ Len(Append(s, c)) = Len(s) + 1
      /\ \A i \in 1 .. Len(s) : Append(s, c)[i] = s[i]
      /\ Append(s, c)[Len(s) + 1] = c
      /\ Len(s) \in Nat
  OBVIOUS
<1> DEFINE t == Append(s, c)
<1>2. DOMAIN t = 1 .. Len(s) + 1 /\ DOMAIN s = 1 .. Len(s)
  OBVIOUS
<1> HIDE DEF t
<1>3. Range(t) = {t[i] : i \in 1 .. Len(s) + 1} /\ Range(s) = {s[i] : i \in 1 .. Len(s)}
  BY <1>2 DEF Range
<1>4. \A i \in 1 .. Len(s) + 1 : i = Len(s) + 1 \/ i \in 1 .. Len(s)
  BY <1>1
<1>5. Len(s) + 1 \in 1 .. Len(s) + 1 /\ \A i \in 1 .. Len(s) : i \in 1 .. Len(s) + 1
  BY <1>1
<1>6. Range(t) = Range(s) \cup {c}
  BY <1>1, <1>3, <1>4, <1>5 DEF t
<1> QED
  BY <1>1, <1>6 DEF t

(* A set says a condition when one of its members does. *)
LEMMA HeldIs ==
    ASSUME NEW s \in Seq(Conditions), NEW c
    PROVE  Held(s, c) <=> \E d \in Range(s) : d = c \/ IsStrongerAndCovers(d, c)
<1>1. DOMAIN s = 1 .. Len(s)
  OBVIOUS
<1> QED
  BY <1>1 DEF Held, Range

(* Select keeps the members that are in keep; when it is as long as s, they all were. *)
LEMMA SelectIs ==
    ASSUME NEW s \in Seq(Conditions), NEW keep
    PROVE  /\ Select(s, keep) \in Seq(Conditions) /\ Len(Select(s, keep)) <= Len(s)
           /\ Range(Select(s, keep)) = Range(s) \cap keep
           /\ Len(Select(s, keep)) = Len(s) => Range(s) \subseteq keep
<1>0. Len(s) \in Nat /\ Len(s) <= Len(s) /\ Range(s) = {s[i] : i \in 1 .. Len(s)}
      /\ \A i \in 1 .. Len(s) : s[i] \in Conditions
  BY DEF Range
<1>1. PICK f : Chosen(s, keep, f, Len(s)) /\ Select(s, keep) = f[Len(s)]
  BY <1>0, SelectUnfolds
<1> DEFINE First(n) == {s[i] : i \in 1 .. n}
           Good(n) == /\ f[n] \in Seq(Conditions) /\ Len(f[n]) <= n
                      /\ Range(f[n]) = First(n) \cap keep
                      /\ Len(f[n]) = n => First(n) \subseteq keep
           P == {n \in Nat : n <= Len(s) => Good(n)}
<1>2. 0 \in P
  <2>1. f[0] = <<>>
    BY <1>0, <1>1 DEF Chosen
  <2>2. Range(<<>>) = {} /\ First(0) = {}
    BY DEF Range
  <2>3. <<>> \in Seq(Conditions) /\ Len(<<>>) = 0
    OBVIOUS
  <2> HIDE DEF First
  <2>4. Good(0)
    BY <2>1, <2>2, <2>3
  <2> HIDE DEF Good
  <2> QED
    BY <2>4
<1>3. ASSUME NEW n \in Nat, n \in P PROVE n + 1 \in P
  <2> SUFFICES ASSUME n + 1 <= Len(s) PROVE Good(n + 1)
    OBVIOUS
  <2>1. Good(n)
    BY <1>0, <1>3
  <2>2. /\ n + 1 \in 1 .. Len(s) /\ n + 1 \in 0 .. Len(s) /\ n + 1 # 0 /\ n + 1 - 1 = n
        /\ s[n + 1] \in Conditions
    BY <1>0
  <2>3. f[n + 1] = IF s[n + 1] \in keep THEN Append(f[n], s[n + 1]) ELSE f[n]
    <3>1. \A i \in 0 .. Len(s) :
              f[i] = IF i = 0 THEN <<>>
                     ELSE IF s[i] \in keep THEN Append(f[i - 1], s[i]) ELSE f[i - 1]
      BY ONLY <1>1 DEF Chosen
    <3> QED
      BY ONLY <2>2, <3>1
  <2>4. First(n + 1) = First(n) \cup {s[n + 1]}
    <3>1. \A i : i \in 1 .. n + 1 <=> i \in 1 .. n \/ i = n + 1
      OBVIOUS
    <3> QED
      BY <3>1
  <2> HIDE DEF First
  <2>5. CASE s[n + 1] \in keep
    <3>1. /\ f[n + 1] \in Seq(Conditions) /\ Len(f[n + 1]) = Len(f[n]) + 1
          /\ Range(f[n + 1]) = Range(f[n]) \cup {s[n + 1]}
      BY <2>1, <2>2, <2>3, <2>5, RangeAppend
    <3>2. Len(f[n]) \in Nat
      BY <2>1
    <3>3. Len(f[n + 1]) <= n + 1 /\ (Len(f[n + 1]) = n + 1 => Len(f[n]) = n)
      BY <2>1, <3>1, <3>2
    <3> QED
      BY <2>1, <2>4, <2>5, <3>1, <3>3
  <2>6. CASE s[n + 1] \notin keep
    <3>1. f[n + 1] = f[n] /\ Len(f[n]) \in Nat
      BY <2>1, <2>3, <2>6
    <3>2. Len(f[n + 1]) <= n + 1 /\ Len(f[n + 1]) # n + 1
      BY <2>1, <3>1
    <3> QED
      BY <2>1, <2>4, <2>6, <3>1, <3>2
  <2> QED
    BY <2>5, <2>6
<1> HIDE DEF P, Good
<1>4. Nat \subseteq P
  BY <1>2, <1>3, SetInduction
<1>5. Good(Len(s))
  BY <1>0, <1>4 DEF P
<1> QED
  BY <1>0, <1>1, <1>5 DEF Good

-----------------------------------------------------------------------------
(* What add, merge and since do to a set of conditions. *)

(* A set says what it says. *)
LEMMA SaysTransitive ==
    ASSUME NEW s, NEW t, NEW u, Says(t, s), Says(u, t)
    PROVE  Says(u, s)
BY DEF Says

(* What a condition covers is weaker than what it replaces: nothing said is lost. *)
LEMMA SaysByMembers ==
    ASSUME NEW s \in Seq(Conditions), NEW t \in Seq(Conditions),
           \A d \in Range(s) : \E e \in Range(t) : e = d \/ IsStrongerAndCovers(e, d)
    PROVE  Says(t, s)
<1> SUFFICES ASSUME NEW c \in Conditions, Held(s, c) PROVE Held(t, c)
  BY DEF Says
<1>1. PICK d \in Range(s) : d = c \/ IsStrongerAndCovers(d, c)
  BY HeldIs
<1>2. PICK e \in Range(t) : e = d \/ IsStrongerAndCovers(e, d)
  OBVIOUS
<1>3. e = c \/ IsStrongerAndCovers(e, c)
  BY <1>1, <1>2 DEF IsStrongerAndCovers
<1> QED
  BY <1>3, HeldIs

(* add keeps the set within its limit, adds nothing but c and loses nothing; it adds c or
   refuses it, and the set then says c or has gained nothing. *)
LEMMA AddIs ==
    ASSUME NEW items, Fits(items), NEW c \in Conditions
    PROVE  /\ Fits(Add(items, c)) /\ Range(Add(items, c)) \subseteq Range(items) \cup {c}
           /\ Says(Add(items, c), items)
           /\ ~Refused(items, c) => Held(Add(items, c), c)
           /\ Refused(items, c) => Range(Add(items, c)) \subseteq Range(items)
<1> DEFINE keep == {d \in Conditions : ~IsStrongerAndCovers(c, d)}
           rest == WithoutWeaker(items, c)
<1>0. /\ items \in Seq(Conditions) /\ Len(items) \in Nat /\ MaxConds \in Nat /\ Len(items) <= MaxConds
      /\ Range(items) \subseteq Conditions
  BY ConditionsAssumption DEF Fits, ConditionsAssumption, Range
<1>1. /\ rest \in Seq(Conditions) /\ Len(rest) <= Len(items) /\ Len(rest) \in Nat
      /\ Range(rest) = Range(items) \cap keep
      /\ Len(rest) = Len(items) => Range(items) \subseteq keep
  <2> HIDE DEF keep
  <2>1. /\ Select(items, keep) \in Seq(Conditions) /\ Len(Select(items, keep)) <= Len(items)
        /\ Range(Select(items, keep)) = Range(items) \cap keep
        /\ Len(Select(items, keep)) = Len(items) => Range(items) \subseteq keep
    BY <1>0, SelectIs
  <2> QED
    BY <2>1 DEF WithoutWeaker, keep
<1> HIDE DEF rest
<1>2. CASE Held(items, c)
  <2>1. Add(items, c) = items /\ ~Refused(items, c)
    BY <1>2 DEF Add, Refused
  <2> QED
    BY <1>2, <2>1 DEF Says
<1>3. CASE Refused(items, c)
  <2>1. Add(items, c) = rest /\ Len(rest) >= MaxConds
    BY <1>3 DEF Add, Refused, rest
  <2>2. Range(items) \subseteq Range(rest)
    BY <1>0, <1>1, <2>1
  <2>3. Says(rest, items)
    BY <1>0, <1>1, <2>2, SaysByMembers
  <2> QED
    BY <1>0, <1>1, <1>3, <2>1, <2>3 DEF Fits
<1>4. CASE ~Held(items, c) /\ ~Refused(items, c)
  <2>1. Add(items, c) = Append(rest, c) /\ ~(Len(rest) >= MaxConds)
    BY <1>4 DEF Add, Refused, rest
  <2>2. /\ Append(rest, c) \in Seq(Conditions) /\ Len(Append(rest, c)) = Len(rest) + 1
        /\ Range(Append(rest, c)) = Range(rest) \cup {c}
    BY <1>1, RangeAppend
  <2>3. Says(Append(rest, c), items)
    <3>1. \A d \in Range(items) : d \in Range(rest) \/ IsStrongerAndCovers(c, d)
      BY <1>0, <1>1
    <3> QED
      BY <1>0, <2>2, <3>1, SaysByMembers
  <2>4. Held(Append(rest, c), c)
    BY <2>2, HeldIs
  <2>5. Len(Append(rest, c)) <= MaxConds
    BY <1>0, <1>1, <2>1, <2>2
  <2> QED
    BY <1>1, <1>4, <2>1, <2>2, <2>3, <2>4, <2>5 DEF Fits
<1> QED
  BY <1>2, <1>3, <1>4

(* merge, whether it takes all of other or stops at a refusal: the set stays within its
   limit, gains nothing that is not in other and loses nothing. *)
LEMMA MergeIs ==
    ASSUME NEW items, Fits(items), NEW other \in Seq(Conditions)
    PROVE  /\ Fits(Merge(items, other))
           /\ Range(Merge(items, other)) \subseteq Range(items) \cup Range(other)
           /\ Says(Merge(items, other), items)
<1>0. /\ Len(other) \in Nat /\ Len(other) <= Len(other) /\ Range(other) = {other[i] : i \in 1 .. Len(other)}
      /\ \A i \in 1 .. Len(other) : other[i] \in Conditions
  BY DEF Range
<1>1. PICK f : Merging(items, other, f, Len(other)) /\ Merge(items, other) = f[Len(other)].items
  BY <1>0, MergeUnfolds
<1> DEFINE Good(s) == Fits(s) /\ Range(s) \subseteq Range(items) \cup Range(other) /\ Says(s, items)
           P == {n \in Nat : n <= Len(other) => Good(f[n].items)}
<1>2. 0 \in P
  <2>1. f[0].items = items
    BY <1>0, <1>1 DEF Merging
  <2> QED
    BY <2>1 DEF Says
<1>3. ASSUME NEW n \in Nat, n \in P PROVE n + 1 \in P
  <2> SUFFICES ASSUME n + 1 <= Len(other) PROVE Good(f[n + 1].items)
    OBVIOUS
  <2>1. Good(f[n].items)
    BY <1>0, <1>3
  <2>2. /\ n + 1 \in 1 .. Len(other) /\ n + 1 \in 0 .. Len(other) /\ n + 1 # 0 /\ n + 1 - 1 = n
        /\ other[n + 1] \in Conditions /\ other[n + 1] \in Range(other)
    BY <1>0
  <2>3. f[n + 1].items = f[n].items \/ f[n + 1].items = Add(f[n].items, other[n + 1])
    BY <1>1, <2>2 DEF Merging
  <2>4. Good(Add(f[n].items, other[n + 1]))
    <3> DEFINE s == f[n].items
               c == other[n + 1]
    <3> HIDE DEF s, c
    <3>1. Fits(s) /\ Range(s) \subseteq Range(items) \cup Range(other) /\ Says(s, items)
      BY <2>1 DEF s
    <3>2. c \in Conditions /\ c \in Range(other)
      BY <2>2 DEF c
    <3>3. /\ Fits(Add(s, c)) /\ Range(Add(s, c)) \subseteq Range(s) \cup {c}
          /\ Says(Add(s, c), s)
      BY <3>1, <3>2, AddIs
    <3>4. Says(Add(s, c), items)
      BY <3>1, <3>3, SaysTransitive
    <3>5. Good(Add(s, c))
      BY <3>1, <3>2, <3>3, <3>4
    <3> QED
      BY <3>5 DEF s, c
  <2> HIDE DEF Good
  <2> QED
    BY <2>1, <2>3, <2>4
<1> HIDE DEF P, Good
<1>4. Nat \subseteq P
  BY <1>2, <1>3, SetInduction
<1>5. Good(Merge(items, other))
  BY <1>0, <1>1, <1>4 DEF P
<1> QED
  BY <1>5 DEF Good

(* since returns the members that were not there at the mark. *)
LEMMA SinceIs ==
    ASSUME NEW items \in Seq(Conditions), NEW mark
    PROVE  /\ Since(items, mark) \in Seq(Conditions)
           /\ Range(Since(items, mark)) = Range(items) \ Range(mark)
<1>1. Range(items) \subseteq Conditions
  BY DEF Range
<1> QED
  BY <1>1, SelectIs DEF Since

-----------------------------------------------------------------------------
(* The session. *)

(* The fields of a frame that Framed leaves open. *)
Contents(f) ==
    /\ f.key \in Exprs \cup Integrands \cup {None}
    /\ Fits(f.mark) /\ f.due \subseteq Conditions
    /\ f.hit \in BOOLEAN /\ f.hooked \in BOOLEAN

Values ==
    /\ facts \subseteq Assumable /\ caching_enabled \in BOOLEAN
    /\ revision \in 0 .. MaxRevision /\ last_assumptions_revision \in 0 .. MaxRevision
    /\ simplify_cache \in [Exprs -> SimplifyEntries \cup {None}]
    /\ integrate_cache \in [Integrands -> IntegrateEntries \cup {None}]
    /\ Fits(side_conditions)
    /\ Depth <= MaxDepth
    /\ \A i \in 1 .. Depth : Contents(stack[i])

(* An entry carries only conditions its computation took. *)
Entries ==
    \A e \in Exprs : simplify_cache[e] # None =>
        Range(simplify_cache[e].conditions) \subseteq simplify_cache[e].due

(* A call whose mark is what the accumulator held when it began. *)
Marked(s, i) == i = 1 \/ s[i].kind \in {"simplify", "attempt"}

(* c was there when call i began, or a call from i to n has taken it. *)
Explained(s, i, n, c) == c \in Range(s[i].mark) \/ \E j \in i .. n : c \in s[j].due

(* Everything in the accumulator, and in what an attempt would put back, was taken. *)
Taken(s, items) ==
    /\ \A i \in 1 .. Len(s) : Marked(s, i) => \A c \in Range(items) : Explained(s, i, Len(s), c)
    /\ \A n \in 1 .. Len(s) : s[n].kind = "attempt" =>
          \A i \in 1 .. n - 1 : Marked(s, i) => \A c \in Range(s[n].mark) : Explained(s, i, n - 1, c)

(* Nothing has cleared the accumulator under call j, nor answered for it from a cache. *)
Clean(s, j) ==
    /\ ~s[j].hit /\ ~s[j].hooked /\ s[j].kind # "equal"
    /\ \A k \in j + 1 .. Len(s) : ~s[k].owns

(* What a clean call has taken, the accumulator says, and goes on to say when an attempt
   above it is abandoned. *)
Said(s, items) ==
    /\ \A j \in 1 .. Len(s) : Clean(s, j) => \A c \in s[j].due : Held(items, c)
    /\ \A i \in 1 .. Len(s) : s[i].kind = "attempt" =>
          \A j \in 1 .. i - 1 : Clean(s, j) => \A c \in s[j].due : Held(s[i].mark, c)

Settled == last # None => Idle /\ FreshReportIsComplete /\ ReportedWasTaken

ConditionInv ==
    /\ Values /\ Entries /\ Settled
    /\ Taken(stack, side_conditions) /\ Said(stack, side_conditions)

CInv == IInv /\ ConditionInv

(* Two frames with the same histories. *)
Alike(f, g) ==
    /\ f.kind = g.kind /\ f.owns = g.owns /\ f.mark = g.mark
    /\ f.due = g.due /\ f.hit = g.hit /\ f.hooked = g.hooked

(* t is s, but for what the innermost call has taken or been told since. *)
Grown(s, t, extra) ==
    LET n == Len(s) IN
    /\ Len(t) = n
    /\ \A i \in 1 .. n - 1 : Alike(t[i], s[i])
    /\ t[n].kind = s[n].kind /\ t[n].owns = s[n].owns /\ t[n].mark = s[n].mark
    /\ t[n].due = s[n].due \cup extra
    /\ (s[n].hit => t[n].hit) /\ (s[n].hooked => t[n].hooked)

(* t is s without its innermost call, whose histories have gone to the n-th and whose
   accumulator is now after. *)
Left(s, t, n, items, after, extra) ==
    /\ n \in Nat \ {0} /\ Len(s) = n + 1 /\ Len(t) = n
    /\ \A i \in 1 .. n + 1 : s[i].due \subseteq Conditions
    /\ \A i \in 1 .. n - 1 : Alike(t[i], s[i])
    /\ t[n].kind = s[n].kind /\ t[n].owns = s[n].owns /\ t[n].mark = s[n].mark
    /\ t[n].due = s[n].due \cup extra
    /\ (s[n].hit \/ s[n + 1].hit => t[n].hit) /\ (s[n].hooked \/ s[n + 1].hooked => t[n].hooked)
    /\ s[n + 1].kind # "equal"
    /\ s[n + 1].owns => (t[n].hooked \/ t[n].kind = "equal") /\ (n = 1 \/ s[n].owns)
    /\ \/ s[n + 1].kind = "attempt" /\ after = s[n + 1].mark /\ extra = {}
       \/ Range(after) \subseteq Range(items) /\ Says(after, items) /\ extra = s[n + 1].due

-----------------------------------------------------------------------------
(* Accumulator and stack, as values. *)

(* The innermost call takes conditions. *)
LEMMA GrownKeeps ==
    ASSUME NEW s, NEW t, NEW items, NEW after, NEW extra, Len(s) \in Nat \ {0},
           Taken(s, items), Said(s, items), Grown(s, t, extra),
           \A c \in Range(after) : c \in Range(items) \/ c \in extra,
           \A j \in 1 .. Len(s) - 1 : Clean(s, j) => Says(after, items),
           \A i \in 1 .. Len(s) : s[i].due \subseteq Conditions,
           Clean(t, Len(s)) => \A c \in s[Len(s)].due \cup extra : Held(after, c)
    PROVE  Taken(t, after) /\ Said(t, after)
<1> DEFINE n == Len(s)
<1>0. n \in Nat /\ n \in 1 .. n /\ Len(t) = n
  BY DEF Grown
<1>1. \A i \in 1 .. n - 1 : Alike(t[i], s[i])
  BY DEF Grown
<1>2. /\ t[n].kind = s[n].kind /\ t[n].owns = s[n].owns /\ t[n].mark = s[n].mark
      /\ t[n].due = s[n].due \cup extra
      /\ (s[n].hit => t[n].hit) /\ (s[n].hooked => t[n].hooked)
  BY DEF Grown
<1>3. \A i \in 1 .. n : i = n \/ i \in 1 .. n - 1
  BY <1>0
<1> HIDE DEF n
<1>4. \A i \in 1 .. n : /\ t[i].kind = s[i].kind /\ t[i].owns = s[i].owns /\ t[i].mark = s[i].mark
                        /\ s[i].due \subseteq t[i].due
  BY <1>1, <1>2, <1>3 DEF Alike
<1>5. \A i \in 1 .. n - 1 : t[i].due = s[i].due
  BY <1>1 DEF Alike
<1>6. \A j \in 1 .. n : Clean(t, j) => Clean(s, j)
  <2> SUFFICES ASSUME NEW j \in 1 .. n, Clean(t, j) PROVE Clean(s, j)
    OBVIOUS
  <2>1. \A k \in j + 1 .. n : k \in 1 .. n
    BY <1>0
  <2>2. ~s[j].hit /\ ~s[j].hooked
    BY <1>1, <1>2, <1>3 DEF Clean, Alike
  <2> QED
    BY <1>0, <1>4, <2>1, <2>2 DEF Clean, n
<1>7. Taken(t, after)
  <2>1. ASSUME NEW i \in 1 .. n, Marked(t, i), NEW c \in Range(after)
        PROVE  Explained(t, i, n, c)
    <3>1. CASE c \in extra
      BY <1>0, <1>2, <3>1 DEF Explained
    <3>2. CASE c \in Range(items)
      <4>1. Explained(s, i, n, c)
        BY <1>4, <2>1, <3>2 DEF Taken, Marked, n
      <4>2. \A j \in i .. n : j \in 1 .. n
        BY <1>0
      <4> QED
        BY <1>4, <4>1, <4>2 DEF Explained
    <3> QED
      BY <3>1, <3>2
  <2>2. ASSUME NEW m \in 1 .. n, t[m].kind = "attempt", NEW i \in 1 .. m - 1, Marked(t, i),
               NEW c \in Range(t[m].mark)
        PROVE  Explained(t, i, m - 1, c)
    <3>1. i \in 1 .. n /\ \A j \in i .. m - 1 : j \in 1 .. n - 1
      BY <1>0
    <3>2. Explained(s, i, m - 1, c)
      BY <1>4, <2>2, <3>1 DEF Taken, Marked, n
    <3> QED
      BY <1>4, <1>5, <3>1, <3>2 DEF Explained
  <2> QED
    BY <1>0, <2>1, <2>2 DEF Taken
<1>8. Said(t, after)
  <2>1. ASSUME NEW j \in 1 .. n, Clean(t, j), NEW c \in t[j].due PROVE Held(after, c)
    <3>1. CASE j = n
      BY <1>2, <2>1, <3>1 DEF n
    <3>2. CASE j \in 1 .. n - 1
      <4>1. Clean(s, j) /\ c \in s[j].due /\ c \in Conditions
        BY <1>5, <1>6, <2>1, <3>2 DEF n
      <4>2. Held(items, c) /\ Says(after, items)
        BY <3>2, <4>1 DEF Said, n
      <4> QED
        BY <4>1, <4>2 DEF Says
    <3> QED
      BY <1>3, <3>1, <3>2
  <2>2. ASSUME NEW i \in 1 .. n, t[i].kind = "attempt", NEW j \in 1 .. i - 1, Clean(t, j), NEW c \in t[j].due
        PROVE  Held(t[i].mark, c)
    <3>1. j \in 1 .. n /\ j \in 1 .. n - 1
      BY <1>0
    <3>2. Clean(s, j) /\ c \in s[j].due
      BY <1>5, <1>6, <2>2, <3>1
    <3> QED
      BY <1>4, <2>2, <3>1, <3>2 DEF Said, n
  <2> QED
    BY <1>0, <2>1, <2>2 DEF Said
<1> QED
  BY <1>7, <1>8

(* A call begins: it may clear the accumulator only when it owns its operation. *)
LEMMA EnteredKeeps ==
    ASSUME NEW s, NEW t, NEW items, NEW after, Len(s) \in Nat,
           Taken(s, items), Said(s, items),
           Len(t) = Len(s) + 1, \A i \in 1 .. Len(s) : t[i] = s[i],
           t[Len(s) + 1].due = {},
           Range(after) \subseteq Range(items),
           Marked(t, Len(s) + 1) => t[Len(s) + 1].mark = after,
           t[Len(s) + 1].owns \/ after = items
    PROVE  Taken(t, after) /\ Said(t, after)
<1> DEFINE n == Len(s)
           g == t[n + 1]
<1>0. n \in Nat /\ Len(t) = n + 1 /\ n + 1 \in Nat
  OBVIOUS
<1>1. \A i \in 1 .. n + 1 : i = n + 1 \/ i \in 1 .. n
  BY <1>0
<1>2. \A i \in 1 .. n : t[i] = s[i]
  OBVIOUS
<1>3. g.due = {} /\ (Marked(t, n + 1) => g.mark = after) /\ (g.owns \/ after = items)
  OBVIOUS
<1> HIDE DEF n, g
<1>4. \A j \in 1 .. n : Clean(t, j) => Clean(s, j) /\ after = items
  <2> SUFFICES ASSUME NEW j \in 1 .. n, Clean(t, j) PROVE Clean(s, j) /\ after = items
    OBVIOUS
  <2>1. \A k \in j + 1 .. n : k \in 1 .. n /\ k \in j + 1 .. Len(t)
    BY <1>0
  <2>2. n + 1 \in j + 1 .. Len(t)
    BY <1>0
  <2>3. ~g.owns /\ \A k \in j + 1 .. n : ~s[k].owns
    BY <1>2, <2>1, <2>2 DEF Clean, g
  <2> QED
    BY <1>2, <1>3, <2>3 DEF Clean, n
<1>5. \A i \in 1 .. n : Marked(t, i) <=> Marked(s, i)
  BY <1>2 DEF Marked
<1>6. ASSUME NEW i \in 1 .. n, NEW m \in 0 .. n, NEW c, Explained(s, i, m, c) PROVE Explained(t, i, m, c)
  <2>1. \A j \in i .. m : j \in 1 .. n
    BY <1>0
  <2> QED
    BY <1>2, <1>6, <2>1 DEF Explained
<1>7. Taken(t, after)
  <2>1. ASSUME NEW i \in 1 .. n + 1, Marked(t, i), NEW c \in Range(after)
        PROVE  Explained(t, i, n + 1, c)
    <3>1. CASE i = n + 1
      BY <1>3, <2>1, <3>1 DEF Explained, g
    <3>2. CASE i \in 1 .. n
      <4>1. Explained(s, i, n, c) /\ n \in 0 .. n
        BY <1>0, <1>5, <2>1, <3>2 DEF Taken, n
      <4>2. Explained(t, i, n, c)
        BY <1>6, <3>2, <4>1
      <4>3. \A j \in i .. n : j \in i .. n + 1
        BY <1>0
      <4> QED
        BY <4>2, <4>3 DEF Explained
    <3> QED
      BY <1>1, <3>1, <3>2
  <2>2. ASSUME NEW m \in 1 .. n + 1, t[m].kind = "attempt", NEW i \in 1 .. m - 1, Marked(t, i),
               NEW c \in Range(t[m].mark)
        PROVE  Explained(t, i, m - 1, c)
    <3>1. i \in 1 .. n /\ m - 1 \in 0 .. n
      BY <1>0
    <3>2. CASE m = n + 1
      <4>1. Marked(t, n + 1) /\ m - 1 = n
        BY <1>0, <2>2, <3>2 DEF Marked
      <4>2. c \in Range(items)
        BY <1>3, <2>2, <3>2, <4>1 DEF g
      <4>3. Explained(s, i, n, c)
        BY <1>5, <2>2, <3>1, <4>2 DEF Taken, n
      <4> QED
        BY <1>6, <3>1, <4>1, <4>3
    <3>3. CASE m \in 1 .. n
      <4>1. Explained(s, i, m - 1, c)
        BY <1>2, <1>5, <2>2, <3>1, <3>3 DEF Taken, n
      <4> QED
        BY <1>6, <3>1, <4>1
    <3> QED
      BY <1>1, <3>2, <3>3
  <2> QED
    BY <1>0, <2>1, <2>2 DEF Taken
<1>8. Said(t, after)
  <2>1. ASSUME NEW j \in 1 .. n + 1, Clean(t, j), NEW c \in t[j].due PROVE Held(after, c)
    <3>1. CASE j = n + 1
      BY <1>3, <2>1, <3>1 DEF g
    <3>2. CASE j \in 1 .. n
      BY <1>2, <1>4, <2>1, <3>2 DEF Said, n
    <3> QED
      BY <1>1, <3>1, <3>2
  <2>2. ASSUME NEW i \in 1 .. n + 1, t[i].kind = "attempt", NEW j \in 1 .. i - 1, Clean(t, j), NEW c \in t[j].due
        PROVE  Held(t[i].mark, c)
    <3>1. j \in 1 .. n
      BY <1>0
    <3>2. Clean(s, j) /\ after = items /\ c \in s[j].due
      BY <1>2, <1>4, <2>2, <3>1
    <3>3. CASE i = n + 1
      <4>1. t[i].mark = items
        BY <1>3, <2>2, <3>2, <3>3 DEF Marked, g
      <4> QED
        BY <3>1, <3>2, <4>1 DEF Said, n
    <3>4. CASE i \in 1 .. n
      BY <1>2, <2>2, <3>2, <3>4 DEF Said, n
    <3> QED
      BY <1>1, <3>3, <3>4
  <2> QED
    BY <1>0, <2>1, <2>2 DEF Said
<1> QED
  BY <1>7, <1>8

(* The innermost call returns to the one below: its own conditions go with it, unless it is
   an attempt that is abandoned, which puts its mark back. *)
LEMMA LeftKeeps ==
    ASSUME NEW s, NEW t, NEW n, NEW items, NEW after, NEW extra,
           Taken(s, items), Said(s, items), Left(s, t, n, items, after, extra)
    PROVE  Taken(t, after) /\ Said(t, after)
<1> USE DEF Left
<1>0. n \in 1 .. n /\ n + 1 \in 1 .. n + 1 /\ \A i \in 1 .. n : i \in 1 .. n + 1 /\ (i = n \/ i \in 1 .. n - 1)
  OBVIOUS
<1>1. \A i \in 1 .. n : /\ t[i].kind = s[i].kind /\ t[i].owns = s[i].owns /\ t[i].mark = s[i].mark
                        /\ s[i].due \subseteq t[i].due
                        /\ (s[i].hit => t[i].hit) /\ (s[i].hooked => t[i].hooked)
  BY <1>0 DEF Alike
<1>2. \A i \in 1 .. n - 1 : t[i].due = s[i].due
  BY DEF Alike
<1>3. \A j \in 1 .. n : Clean(t, j) => Clean(s, j)
  <2> SUFFICES ASSUME NEW j \in 1 .. n, Clean(t, j) PROVE Clean(s, j)
    OBVIOUS
  <2>1. ~s[n + 1].owns
    <3> SUFFICES ASSUME s[n + 1].owns PROVE FALSE
      OBVIOUS
    <3>1. CASE j = n
      BY <3>1 DEF Clean
    <3>2. CASE j \in 1 .. n - 1
      <4>1. s[n].owns /\ n \in j + 1 .. Len(t)
        BY <3>2
      <4> QED
        BY <4>1 DEF Clean
    <3> QED
      BY <1>0, <3>1, <3>2
  <2>2. \A k \in j + 1 .. Len(s) : k = n + 1 \/ (k \in j + 1 .. Len(t) /\ k \in 1 .. n)
    OBVIOUS
  <2> QED
    BY <1>1, <2>1, <2>2 DEF Clean
<1>4. Clean(t, n) => Clean(s, n + 1)
  <2>1. \A k \in n + 2 .. n + 1 : FALSE
    OBVIOUS
  <2> QED
    BY <2>1 DEF Clean
<1>5. \A i \in 1 .. n : Marked(t, i) <=> Marked(s, i)
  BY <1>1 DEF Marked
<1>6. Taken(t, after)
  <2>1. ASSUME NEW i \in 1 .. n, Marked(t, i), NEW c \in Range(after)
        PROVE  Explained(t, i, n, c)
    <3>0. \A j \in i .. n : j \in 1 .. n
      OBVIOUS
    <3>1. CASE s[n + 1].kind = "attempt" /\ after = s[n + 1].mark
      <4>1. Explained(s, i, n, c)
        <5>1. i \in 1 .. n + 1 - 1 /\ n + 1 - 1 = n
          OBVIOUS
        <5> QED
          BY <1>0, <1>5, <2>1, <3>1, <5>1 DEF Taken
      <4> QED
        BY <1>1, <3>0, <4>1 DEF Explained
    <3>2. CASE Range(after) \subseteq Range(items) /\ extra = s[n + 1].due
      <4>1. Explained(s, i, n + 1, c)
        BY <1>0, <1>5, <2>1, <3>2 DEF Taken
      <4>2. \A j \in i .. n + 1 : j = n + 1 \/ j \in i .. n
        OBVIOUS
      <4>3. n \in i .. n
        OBVIOUS
      <4>4. CASE c \in s[n + 1].due
        BY <3>2, <4>3, <4>4 DEF Explained
      <4>5. CASE Explained(s, i, n, c)
        BY <1>1, <3>0, <4>5 DEF Explained
      <4> QED
        BY <4>1, <4>2, <4>4, <4>5 DEF Explained
    <3> QED
      BY <3>1, <3>2
  <2>2. ASSUME NEW m \in 1 .. n, t[m].kind = "attempt", NEW i \in 1 .. m - 1, Marked(t, i),
               NEW c \in Range(t[m].mark)
        PROVE  Explained(t, i, m - 1, c)
    <3>1. i \in 1 .. n /\ \A j \in i .. m - 1 : j \in 1 .. n - 1
      OBVIOUS
    <3>2. Explained(s, i, m - 1, c)
      BY <1>0, <1>1, <1>5, <2>2, <3>1 DEF Taken
    <3> QED
      BY <1>1, <1>2, <3>1, <3>2 DEF Explained
  <2> QED
    BY <2>1, <2>2 DEF Taken
<1>7. Said(t, after)
  <2>1. ASSUME NEW j \in 1 .. n, Clean(t, j), NEW c \in t[j].due PROVE Held(after, c)
    <3>1. Clean(s, j) /\ j \in 1 .. n + 1
      BY <1>3, <2>1
    <3>2. CASE s[n + 1].kind = "attempt" /\ after = s[n + 1].mark /\ extra = {}
      <4>1. c \in s[j].due /\ j \in 1 .. n + 1 - 1
        BY <1>0, <1>2, <2>1, <3>2
      <4> QED
        BY <1>0, <3>1, <3>2, <4>1 DEF Said
    <3>3. CASE Says(after, items) /\ extra = s[n + 1].due
      <4>1. c \in s[j].due \/ (j = n /\ c \in s[n + 1].due)
        BY <1>0, <1>2, <2>1, <3>3
      <4>2. c \in Conditions
        BY <3>1, <4>1
      <4>3. Held(items, c)
        BY <1>0, <1>4, <2>1, <3>1, <4>1 DEF Said
      <4> QED
        BY <3>3, <4>2, <4>3 DEF Says
    <3> QED
      BY <3>2, <3>3
  <2>2. ASSUME NEW i \in 1 .. n, t[i].kind = "attempt", NEW j \in 1 .. i - 1, Clean(t, j), NEW c \in t[j].due
        PROVE  Held(t[i].mark, c)
    <3>1. j \in 1 .. n /\ j \in 1 .. n - 1 /\ i \in 1 .. n + 1
      OBVIOUS
    <3>2. Clean(s, j) /\ c \in s[j].due /\ s[i].kind = "attempt" /\ s[i].mark = t[i].mark
      BY <1>1, <1>2, <1>3, <2>2, <3>1
    <3> QED
      BY <2>2, <3>1, <3>2 DEF Said
  <2> QED
    BY <2>1, <2>2 DEF Said
<1> QED
  BY <1>6, <1>7

-----------------------------------------------------------------------------
(* What the steps of a call do to the frames. *)

(* A report goes to the innermost of the frames that are left. *)
LEMMA DeliverParts ==
    ASSUME NEW STATE frames, NEW STATE report, Sequence(frames), Len(frames) >= 1,
           Framed(frames[Len(frames)]), Contents(frames[Len(frames)]),
           report.due \subseteq Conditions, Deliver(report, frames)
    PROVE  LET n == Len(frames)
               f == frames[n]
               g == stack'[n]
           IN  /\ Len(stack') = n /\ \A i \in 1 .. n - 1 : stack'[i] = frames[i]
               /\ g.kind = f.kind /\ g.owns = f.owns /\ g.mark = f.mark
               /\ g.due = f.due \cup report.due
               /\ g.hit <=> f.hit \/ report.hit
               /\ g.hooked <=> f.hooked \/ report.hooked \/ f.phase = "hook"
               /\ Contents(g) /\ last' = None
<1> DEFINE n == Len(frames)
           f == frames[n]
           h == (f.hit \/ report.hit)
           k == (f.hooked \/ report.hooked \/ f.phase = "hook")
           d == f.due \cup report.due
           g == [f EXCEPT !.due = d, !.hit = h, !.hooked = k]
<1>1. n \in Nat /\ n \in 1 .. n /\ DOMAIN frames = 1 .. n /\ frames # <<>>
  BY DEF Sequence
<1>2. stack' = [frames EXCEPT ![n] = g] /\ last' = None
  BY <1>1 DEF Deliver
<1>3. h \in BOOLEAN /\ k \in BOOLEAN /\ d \subseteq Conditions
  BY DEF Contents
<1>4. Framed(f) /\ Contents(f)
  OBVIOUS
<1>5. /\ g.kind = f.kind /\ g.owns = f.owns /\ g.mark = f.mark
      /\ g.due = d /\ g.hit = h /\ g.hooked = k /\ Contents(g)
  <2> HIDE DEF f, h, k, d
  <2> QED
    BY <1>3, <1>4 DEF Framed, Contents
<1> HIDE DEF g, n
<1>6. /\ stack' = [i \in 1 .. n |-> stack'[i]]
      /\ \A i \in 1 .. n : stack'[i] = IF i = n THEN g ELSE frames[i]
  BY <1>1, <1>2
<1>7. Len(stack') = n
  BY <1>1, <1>6, ListIs
<1>8. \A i \in 1 .. n - 1 : stack'[i] = frames[i]
  BY <1>1, <1>6
<1>9. stack'[n] = g
  BY <1>1, <1>6
<1> QED
  BY <1>2, <1>5, <1>7, <1>8, <1>9 DEF n

(* Under a call that owns its operation, the caller is away: it runs its hook or hides its
   operation from a radical test. *)
LEMMA OwnerAbove ==
    ASSUME Types, Shape, NEW n \in Nat \ {0}, n + 1 \in 1 .. Depth, stack[n + 1].owns
    PROVE  \/ stack[n].phase = "hook" /\ stack[n].owns
           \/ stack[n].kind = "equal" /\ n = 1
<1>1. n \in 1 .. Depth /\ n \in 1 .. n + 1 - 1
  BY DepthIs
<1>2. stack[n].phase \in Away
  BY <1>1 DEF Shape
<1> QED
  BY <1>1, <1>2 DEF Shape, Away

(* The innermost call returns; frames is the stack, with the visits of this step. *)
LEMMA LeaveConditions ==
    ASSUME CInv, Depth >= 1,
           NEW STATE frames, Sequence(frames), Len(frames) = Depth,
           \A i \in 1 .. Depth : /\ Framed(frames[i]) /\ Same(frames[i], stack[i])
                                 /\ Alike(frames[i], stack[i]) /\ Contents(frames[i]),
           NEW ok \in BOOLEAN, NEW STATE conditions, NEW STATE ops, Leave(ok, frames, conditions, ops),
           Fits(conditions), Range(conditions) \subseteq Range(side_conditions),
           Says(conditions, side_conditions)
    PROVE  /\ Taken(stack', side_conditions') /\ Said(stack', side_conditions') /\ Settled'
           /\ Fits(side_conditions') /\ Depth' = Depth - 1
           /\ \A i \in 1 .. Depth' : Contents(stack'[i])
<1> DEFINE f         == frames[Depth]
           abandoned == f.kind = "attempt" /\ ~ok
           rest      == SubSeq(frames, 1, Depth - 1)
           report    == [kind |-> f.kind, ok |-> ok, cached |-> FALSE, under |-> facts,
                         before |-> f.mark, due |-> IF abandoned THEN {} ELSE f.due,
                         hit |-> f.hit, hooked |-> f.hooked]
<1>0. /\ IInv /\ Types /\ Shape /\ Depth \in Nat /\ Depth \in 1 .. Depth /\ Depth - 1 \in 0 .. Depth
      /\ Depth - 1 \in Nat
      /\ Taken(stack, side_conditions) /\ Said(stack, side_conditions)
      /\ Values /\ side_conditions \in Seq(Conditions)
  BY DepthIs DEF CInv, ConditionInv, IInv, Values, Fits
<1>1. /\ side_conditions' = IF abandoned THEN f.mark ELSE conditions
      /\ Deliver(report, rest)
  BY DEF Leave
<1>2. Sequence(rest) /\ Len(rest) = Depth - 1 /\ \A i \in 1 .. Depth - 1 : rest[i] = frames[i]
  BY <1>0, PrefixIs
<1>3. Framed(f) /\ Same(f, Top) /\ Alike(f, Top) /\ Contents(f)
  BY <1>0 DEF Top
<1>4. Fits(side_conditions')
  BY <1>1, <1>3 DEF Contents
<1>5. /\ report.due = (IF abandoned THEN {} ELSE f.due) /\ report.before = f.mark
      /\ report.kind = f.kind /\ report.ok = ok /\ report.hit = f.hit /\ report.hooked = f.hooked
  OBVIOUS
<1> HIDE DEF f, rest, report
<1>6. CASE Depth = 1
  <2>1. rest = <<>>
    BY <1>2, <1>6 DEF Sequence
  <2>2. stack' = <<>> /\ last' = report
    BY <1>1, <2>1 DEF Deliver
  <2>3. Depth' = 0 /\ Idle' /\ Len(stack') = 0
    BY <2>2 DEF Depth, Idle
  <2>3a. 1 .. 0 = {}
    OBVIOUS
  <2>4. Taken(stack', side_conditions') /\ Said(stack', side_conditions')
    BY <2>3, <2>3a DEF Taken, Said
  <2>5. FreshReportIsComplete'
    <3> SUFFICES ASSUME Simplified', ~last'.hit, ~last'.hooked, NEW c \in last'.due
                 PROVE  Held(side_conditions', c)
      BY DEF FreshReportIsComplete, Unreported
    <3>1. f.kind = "simplify" /\ ~f.hit /\ ~f.hooked
      BY <1>5, <2>2 DEF Simplified
    <3>2. ~abandoned /\ c \in f.due
      BY <1>5, <2>2, <3>1
    <3>3. Clean(stack, 1)
      <4>1. \A k \in 1 + 1 .. Len(stack) : FALSE
        BY <1>6 DEF Depth
      <4> QED
        BY <1>3, <1>6, <3>1, <4>1 DEF Clean, Alike, Top
    <3>4. c \in stack[1].due /\ 1 \in 1 .. Len(stack)
      BY <1>3, <1>6, <3>2 DEF Alike, Top, Depth
    <3>5. Held(side_conditions, c)
      BY <1>0, <3>3, <3>4 DEF Said
    <3>6. c \in Conditions
      BY <1>3, <3>2 DEF Contents
    <3> QED
      BY <1>1, <3>2, <3>5, <3>6 DEF Says
  <2>6. ReportedWasTaken'
    <3>1. CASE abandoned
      BY <1>1, <1>5, <2>2, <3>1 DEF ReportedWasTaken
    <3>2. CASE ~abandoned
      <4> SUFFICES ASSUME NEW c \in Range(conditions) PROVE c \in Range(f.mark) \cup f.due
        BY <1>1, <1>5, <2>2, <3>2 DEF ReportedWasTaken
      <4>1. 1 \in 1 .. Len(stack) /\ Len(stack) = 1 /\ Marked(stack, 1)
        BY <1>6 DEF Depth, Marked
      <4>2. Explained(stack, 1, 1, c)
        BY <1>0, <4>1 DEF Taken
      <4>3. \A j \in 1 .. 1 : j = 1
        OBVIOUS
      <4> QED
        BY <1>3, <1>6, <4>2, <4>3 DEF Explained, Alike, Top
    <3> QED
      BY <3>1, <3>2
  <2> QED
    BY <1>4, <1>6, <2>3, <2>3a, <2>4, <2>5, <2>6 DEF Settled
<1>7. CASE Depth # 1
  <2> DEFINE n == Depth - 1
             g == stack'[n]
  <2>0. n \in Nat \ {0} /\ Depth = n + 1 /\ n \in 1 .. Depth /\ n + 1 \in 1 .. Depth /\ n >= 1
    BY <1>0, <1>7
  <2>1. /\ Framed(rest[n]) /\ Contents(rest[n]) /\ rest[n] = frames[n]
        /\ Same(rest[n], stack[n]) /\ Alike(rest[n], stack[n])
    BY <1>2, <2>0
  <2>2. report.due \subseteq Conditions
    BY <1>3, <1>5 DEF Contents
  <2>3. /\ Len(stack') = n /\ \A i \in 1 .. n - 1 : stack'[i] = rest[i]
        /\ g.kind = rest[n].kind /\ g.owns = rest[n].owns /\ g.mark = rest[n].mark
        /\ g.due = rest[n].due \cup report.due
        /\ g.hit <=> rest[n].hit \/ report.hit
        /\ g.hooked <=> rest[n].hooked \/ report.hooked \/ rest[n].phase = "hook"
        /\ Contents(g) /\ last' = None
    <3>1. Len(rest) = n /\ Len(rest) >= 1
      BY <1>2, <2>0
    <3> HIDE DEF n
    <3> QED
      BY <1>1, <1>2, <2>1, <2>2, <3>1, DeliverParts
  <2> HIDE DEF g, n
  <2>4. \A i \in 1 .. n - 1 : i \in 1 .. Depth /\ stack'[i] = frames[i]
    BY <1>2, <2>0, <2>3
  <2>5. Depth' = n /\ \A i \in 1 .. n : Contents(stack'[i])
    <3>1. \A i \in 1 .. n : i = n \/ i \in 1 .. n - 1
      BY <2>0
    <3> QED
      BY <2>3, <2>4, <3>1 DEF Depth, g
  <2>6. Taken(stack', side_conditions') /\ Said(stack', side_conditions')
    <3>1. Len(stack) = n + 1 /\ \A i \in 1 .. n + 1 : stack[i].due \subseteq Conditions
      BY <1>0, <2>0 DEF Values, Contents, Depth
    <3>2. \A i \in 1 .. n - 1 : Alike(stack'[i], stack[i])
      BY <2>4
    <3>3. /\ g.kind = stack[n].kind /\ g.owns = stack[n].owns /\ g.mark = stack[n].mark
          /\ g.due = stack[n].due \cup report.due
          /\ (stack[n].hit \/ stack[n + 1].hit => g.hit)
          /\ (stack[n].hooked \/ stack[n + 1].hooked => g.hooked)
      BY <1>3, <1>5, <2>0, <2>1, <2>3 DEF Alike, Top
    <3>4. stack[n + 1].kind # "equal"
      BY <1>0, <2>0 DEF Shape
    <3>5. stack[n + 1].owns => (g.hooked \/ g.kind = "equal") /\ (n = 1 \/ stack[n].owns)
      <4> SUFFICES ASSUME stack[n + 1].owns
                   PROVE  (g.hooked \/ g.kind = "equal") /\ (n = 1 \/ stack[n].owns)
        OBVIOUS
      <4>1. \/ stack[n].phase = "hook" /\ stack[n].owns
            \/ stack[n].kind = "equal" /\ n = 1
        BY <1>0, <2>0, OwnerAbove
      <4> QED
        BY <2>1, <2>3, <4>1 DEF Same
    <3>6. \/ /\ stack[n + 1].kind = "attempt" /\ side_conditions' = stack[n + 1].mark /\ report.due = {}
          \/ /\ Range(side_conditions') \subseteq Range(side_conditions)
             /\ Says(side_conditions', side_conditions) /\ report.due = stack[n + 1].due
      BY <1>1, <1>3, <1>5, <2>0 DEF Alike, Top
    <3>7. Left(stack, stack', n, side_conditions, side_conditions', report.due)
      BY <2>0, <2>3, <3>1, <3>2, <3>3, <3>4, <3>5, <3>6 DEF Left, g
    <3> QED
      BY <1>0, <3>7, LeftKeeps
  <2>7. Settled'
    BY <2>3 DEF Settled
  <2> QED
    BY <1>4, <2>5, <2>6, <2>7 DEF n
<1> QED
  BY <1>6, <1>7

(* A call begins, with the accumulator it starts from. *)
LEMMA EnterConditions ==
    ASSUME CInv, NEW kind, NEW STATE key, NEW STATE mark, NEW STATE restore,
           key \in Exprs \cup Integrands \cup {None}, Fits(mark),
           MayCall(kind), Enter(kind, key, mark, restore),
           Range(side_conditions') \subseteq Range(side_conditions),
           Depth = 0 \/ kind \in {"simplify", "attempt"} => mark = side_conditions',
           ~operation_active \/ side_conditions' = side_conditions
    PROVE  /\ Taken(stack', side_conditions') /\ Said(stack', side_conditions') /\ Settled'
           /\ Depth' <= MaxDepth /\ \A i \in 1 .. Depth' : Contents(stack'[i])
<1> DEFINE n == Len(stack)
           f == [kind |-> kind, key |-> key, phase |-> "run", owns |-> ~operation_active,
                 mark |-> mark, restore |-> restore, due |-> {}, visits |-> 0, hit |-> FALSE, hooked |-> FALSE]
           after == side_conditions'
<1>0. /\ Types /\ Values /\ Taken(stack, side_conditions) /\ Said(stack, side_conditions)
      /\ n \in Nat /\ Depth = n /\ (Idle <=> n = 0) /\ operation_active \in BOOLEAN
  BY DepthIs DEF CInv, ConditionInv, IInv, Types, Depth
<1>1. stack' = Append(stack, f) /\ Sequence(stack) /\ last' = None
  BY <1>0 DEF Enter, Types
<1>2. /\ f.kind = kind /\ f.owns = ~operation_active /\ f.mark = mark /\ f.due = {} /\ Contents(f)
  BY DEF Contents
<1> HIDE DEF f, n, after
<1>3. /\ Len(stack') = n + 1 /\ \A i \in 1 .. n : stack'[i] = stack[i]
      /\ stack'[n + 1] = f
  BY <1>1, AppendIs DEF n
<1>4. Taken(stack', after) /\ Said(stack', after)
  <2>1. Marked(stack', n + 1) => mark = after
    <3>1. n + 1 = 1 => Depth = 0
      BY <1>0
    <3> QED
      BY <1>2, <1>3, <3>1 DEF Marked, after
  <2>2. f.owns \/ after = side_conditions
    BY <1>2 DEF after
  <2>3. Range(after) \subseteq Range(side_conditions)
    BY DEF after
  <2> HIDE DEF Marked
  <2> QED
    BY <1>0, <1>2, <1>3, <2>1, <2>2, <2>3, EnteredKeeps DEF n
<1>5. Depth' = n + 1
  BY <1>3 DEF Depth
<1>6. Depth' <= MaxDepth
  BY <1>0, <1>5, SessionAssumption DEF MayCall, SessionAssumption
<1>7. \A i \in 1 .. Depth' : Contents(stack'[i])
  <2>1. \A i \in 1 .. n + 1 : i = n + 1 \/ i \in 1 .. n
    BY <1>0
  <2> QED
    BY <1>0, <1>2, <1>3, <1>5, <2>1 DEF Values
<1> QED
  BY <1>1, <1>4, <1>6, <1>7 DEF Settled, after

(* A step that leaves the accumulator and the histories of every frame as they are. *)
LEMMA QuietConditions ==
    ASSUME CInv, Depth' = Depth,
           \A i \in 1 .. Depth : Alike(stack'[i], stack[i]) /\ stack'[i].key = stack[i].key,
           UNCHANGED <<side_conditions, last>>, ~Idle
    PROVE  /\ Taken(stack', side_conditions') /\ Said(stack', side_conditions') /\ Settled'
           /\ \A i \in 1 .. Depth' : Contents(stack'[i])
<1> DEFINE n == Len(stack)
<1>0. /\ Types /\ Values /\ Taken(stack, side_conditions) /\ Said(stack, side_conditions) /\ Settled
      /\ n \in Nat \ {0} /\ Depth = n /\ Len(stack') = n /\ n \in 1 .. n
  BY DepthIs DEF CInv, ConditionInv, IInv, Depth
<1>1. \A i \in 1 .. n : Alike(stack'[i], stack[i]) /\ Contents(stack[i])
  BY <1>0 DEF Values
<1> HIDE DEF n
<1>2. Grown(stack, stack', {})
  BY <1>0, <1>1 DEF Grown, Alike, n
<1>3. \A i \in 1 .. n : stack[i].due \subseteq Conditions
  BY <1>1 DEF Contents
<1>4. Clean(stack', n) => \A c \in stack[n].due \cup {} : Held(side_conditions, c)
  <2> SUFFICES ASSUME Clean(stack', n), NEW c \in stack[n].due PROVE Held(side_conditions, c)
    OBVIOUS
  <2>1. Clean(stack, n)
    BY <1>0, <1>1 DEF Clean, Alike, n
  <2> QED
    BY <1>0, <2>1 DEF Said, n
<1>5. Says(side_conditions, side_conditions)
  BY DEF Says
<1>6. Taken(stack', side_conditions) /\ Said(stack', side_conditions)
  BY <1>0, <1>2, <1>3, <1>4, <1>5, GrownKeeps DEF n
<1>7. \A i \in 1 .. Depth' : Contents(stack'[i])
  BY <1>0, <1>1 DEF Contents, Alike
<1>8. Settled'
  BY <1>0 DEF Settled
<1> QED
  BY <1>6, <1>7, <1>8

(* A call of another call is answered from a cache. *)
LEMMA HitConditions ==
    ASSUME CInv, ~Idle, NEW STATE report, Deliver(report, stack),
           report.hit = TRUE, report.due \subseteq Conditions,
           \A c \in Range(side_conditions') : c \in Range(side_conditions) \/ c \in report.due,
           operation_active => Says(side_conditions', side_conditions)
    PROVE  /\ Taken(stack', side_conditions') /\ Said(stack', side_conditions') /\ Settled'
           /\ Depth' = Depth /\ \A i \in 1 .. Depth' : Contents(stack'[i])
<1> DEFINE n == Len(stack)
           after == side_conditions'
<1>0. /\ Types /\ Shape /\ Flag /\ Values /\ Taken(stack, side_conditions) /\ Said(stack, side_conditions)
      /\ n \in Nat \ {0} /\ Depth = n /\ n \in 1 .. n /\ n >= 1
      /\ Sequence(stack) /\ \A i \in 1 .. n : Framed(stack[i]) /\ Contents(stack[i])
  BY DepthIs DEF CInv, ConditionInv, IInv, Depth, Types, Values
<1> HIDE DEF n
<1>1. /\ Len(stack') = n /\ \A i \in 1 .. n - 1 : stack'[i] = stack[i]
      /\ stack'[n].kind = stack[n].kind /\ stack'[n].owns = stack[n].owns /\ stack'[n].mark = stack[n].mark
      /\ stack'[n].due = stack[n].due \cup report.due
      /\ stack'[n].hit <=> stack[n].hit \/ report.hit
      /\ stack'[n].hooked <=> stack[n].hooked \/ report.hooked \/ stack[n].phase = "hook"
      /\ Contents(stack'[n]) /\ last' = None
  BY <1>0, DeliverParts DEF n
<1>2. Grown(stack, stack', report.due)
  <2>1. \A i \in 1 .. n - 1 : Alike(stack'[i], stack[i])
    BY <1>1 DEF Alike
  <2> QED
    BY <1>1, <2>1 DEF Grown, n
<1>3. ASSUME NEW j \in 1 .. n - 1, Clean(stack, j) PROVE Says(after, side_conditions)
  <2>1. CASE operation_active
    BY <2>1
  <2>2. CASE ~operation_active
    <3>1. stack[n].phase \in Away
      BY <1>0, <2>2 DEF Flag
    <3>2. CASE stack[n].phase = "hook"
      <4>1. stack[n].owns /\ n \in j + 1 .. Len(stack)
        BY <1>0, <3>2 DEF Shape, n
      <4> QED
        BY <1>3, <4>1 DEF Clean
    <3>3. CASE stack[n].phase = "radical"
      <4>1. n = 1
        BY <1>0, <3>3 DEF Shape
      <4> QED
        BY <4>1
    <3> QED
      BY <3>1, <3>2, <3>3 DEF Away
  <2> QED
    BY <1>0, <2>1, <2>2 DEF Types
<1>4. ~Clean(stack', n)
  BY <1>1 DEF Clean
<1>5. \A i \in 1 .. n : stack[i].due \subseteq Conditions
  BY <1>0 DEF Contents
<1>5a. \A c \in Range(after) : c \in Range(side_conditions) \/ c \in report.due
  OBVIOUS
<1> HIDE DEF after
<1>6. Taken(stack', after) /\ Said(stack', after)
  BY <1>0, <1>2, <1>3, <1>4, <1>5, <1>5a, GrownKeeps DEF n
<1>7. \A i \in 1 .. n : Contents(stack'[i])
  <2>1. \A i \in 1 .. n : i = n \/ i \in 1 .. n - 1
    BY <1>0
  <2> QED
    BY <1>0, <1>1, <2>1
<1> QED
  BY <1>0, <1>1, <1>6, <1>7 DEF Settled, Depth, after

-----------------------------------------------------------------------------
(* The steps of the client. *)

(* Before anything has happened there is no call and no condition. *)
LEMMA InitConditions == Init => ConditionInv
<1> SUFFICES ASSUME Init PROVE ConditionInv
  OBVIOUS
<1> USE DEF Init
<1>1. Depth = 0 /\ Len(stack) = 0 /\ 1 .. 0 = {} /\ Fits(<<>>)
  BY ConditionsAssumption DEF Depth, Fits, ConditionsAssumption
<1>2. Values
  <2>1. 0 \in 0 .. MaxRevision /\ 0 <= MaxDepth
    BY SessionAssumption DEF SessionAssumption
  <2>2. \A i \in 1 .. Depth : Contents(stack[i])
    BY <1>1
  <2> HIDE DEF Depth
  <2> QED
    BY <1>1, <2>1, <2>2 DEF Values
<1>3. Taken(stack, side_conditions) /\ Said(stack, side_conditions)
  BY <1>1 DEF Taken, Said
<1> QED
  BY <1>2, <1>3 DEF ConditionInv, Entries, Settled

(* The client changes its assumptions, its caches or its budget between two calls. *)
LEMMA ClientConditions ==
    ASSUME CInv,
           \/ \E c \in Assumable : Assume(c)
           \/ Reset \/ \E enabled \in BOOLEAN : SetCachingEnabled(enabled)
           \/ \E budget : SetBudget(budget)
    PROVE  ConditionInv'
<1>0. Values /\ Entries /\ Taken(stack, side_conditions) /\ Said(stack, side_conditions)
  BY DEF CInv, ConditionInv
<1>1. UNCHANGED <<stack, side_conditions, last_assumptions_revision>> /\ last' = None
  BY DEF Assume, Reset, SetCachingEnabled, SetBudget, cacheVars
<1>2. /\ simplify_cache' = simplify_cache \/ simplify_cache' = [e \in Exprs |-> None]
      /\ integrate_cache' = integrate_cache \/ integrate_cache' = [f \in Integrands |-> None]
  BY DEF Assume, Reset, SetCachingEnabled, SetBudget, cacheVars
<1>3. /\ facts' \subseteq Assumable /\ caching_enabled' \in BOOLEAN /\ revision' \in 0 .. MaxRevision
  <2>1. CASE \E c \in Assumable : Assume(c)
    BY <1>0, <2>1, SessionAssumption DEF Assume, Values, cacheVars, SessionAssumption
  <2>2. CASE Reset
    BY <1>0, <2>2, SessionAssumption DEF Reset, Values, SessionAssumption
  <2>3. CASE \E enabled \in BOOLEAN : SetCachingEnabled(enabled)
    BY <1>0, <2>3 DEF SetCachingEnabled, Values
  <2>4. CASE \E budget : SetBudget(budget)
    BY <1>0, <2>4 DEF SetBudget, Values, cacheVars
  <2> QED
    BY <2>1, <2>2, <2>3, <2>4
<1>4. Values'
  BY <1>0, <1>1, <1>2, <1>3 DEF Values, Depth
<1>5. Entries'
  BY <1>0, <1>2 DEF Entries
<1> QED
  BY <1>0, <1>1, <1>4, <1>5 DEF ConditionInv, Settled

-----------------------------------------------------------------------------
(* The steps of simplify. *)

(* A cache that simplify may clear before it uses it. *)
LEMMA CurrentIs ==
    ASSUME Values, Entries
    PROVE  /\ Current(simplify_cache, Exprs) \in [Exprs -> SimplifyEntries \cup {None}]
           /\ Current(integrate_cache, Integrands) \in [Integrands -> IntegrateEntries \cup {None}]
           /\ \A e \in Exprs : Current(simplify_cache, Exprs)[e] # None =>
                 /\ Current(simplify_cache, Exprs)[e] \in SimplifyEntries
                 /\ Range(Current(simplify_cache, Exprs)[e].conditions)
                        \subseteq Current(simplify_cache, Exprs)[e].due
<1>1. CASE Stale
  BY <1>1 DEF Current
<1>2. CASE ~Stale
  BY <1>2 DEF Current, Values, Entries
<1> QED
  BY <1>1, <1>2

(* What simplify leaves of the caches when it begins. *)
LEMMA RevalidateKeeps ==
    ASSUME Values, Entries, Revalidate, UNCHANGED <<facts, revision, caching_enabled>>
    PROVE  /\ Entries'
           /\ facts' \subseteq Assumable /\ caching_enabled' \in BOOLEAN
           /\ revision' \in 0 .. MaxRevision /\ last_assumptions_revision' \in 0 .. MaxRevision
           /\ simplify_cache' \in [Exprs -> SimplifyEntries \cup {None}]
           /\ integrate_cache' \in [Integrands -> IntegrateEntries \cup {None}]
BY CurrentIs DEF Values, Entries, Revalidate

(* A simplify begins with the conditions of its caller, or with none. *)
LEMMA AccumulatorIs ==
    ASSUME CInv
    PROVE  /\ Fits(Accumulator) /\ Range(Accumulator) \subseteq Range(side_conditions)
           /\ Idle => Accumulator = <<>>
           /\ operation_active => Accumulator = side_conditions
           /\ operation_active \in BOOLEAN
<1>1. Fits(<<>>) /\ Range(<<>>) = {} /\ Fits(side_conditions) /\ operation_active \in BOOLEAN
  BY ConditionsAssumption DEF Fits, Range, ConditionsAssumption, CInv, ConditionInv, Values, IInv, Types
<1>2. Idle => ~operation_active
  <2>1. Idle => Depth = 0 /\ 1 .. 0 = {}
    BY DepthIs DEF CInv, IInv
  <2> QED
    BY <2>1 DEF CInv, IInv, Flag
<1> QED
  BY <1>1, <1>2 DEF Accumulator

(* simplify answers from its cache, with the conditions cached with the result. *)
LEMMA SimplifyHitConditions ==
    ASSUME CInv, NEW e \in Exprs, SimplifyHit(e)
    PROVE  ConditionInv'
<1> DEFINE entry  == Current(simplify_cache, Exprs)[e]
           report == [kind |-> "simplify", ok |-> TRUE, cached |-> TRUE, under |-> entry.under,
                      before |-> <<>>, due |-> entry.due, hit |-> TRUE, hooked |-> FALSE]
<1>0. Values /\ Entries
  BY DEF CInv, ConditionInv
<1>1. /\ entry # None /\ Revalidate /\ side_conditions' = Merge(Accumulator, entry.conditions)
      /\ Deliver(report, stack) /\ UNCHANGED <<facts, revision, caching_enabled>>
  BY DEF SimplifyHit
<1>2. /\ entry.conditions \in Seq(Conditions) /\ entry.due \subseteq Conditions
      /\ Range(entry.conditions) \subseteq entry.due
  BY <1>0, <1>1, CurrentIs DEF SimplifyEntries
<1>3. /\ report.kind = "simplify" /\ report.before = <<>> /\ report.due = entry.due /\ report.hit = TRUE
  OBVIOUS
<1> HIDE DEF entry, report
<1>4. /\ Fits(side_conditions')
      /\ Range(side_conditions') \subseteq Range(Accumulator) \cup Range(entry.conditions)
      /\ Says(side_conditions', Accumulator)
  BY <1>1, <1>2, AccumulatorIs, MergeIs
<1>5. /\ Taken(stack', side_conditions') /\ Said(stack', side_conditions') /\ Settled'
      /\ Depth' = Depth /\ \A i \in 1 .. Depth' : Contents(stack'[i])
  <2>1. CASE ~Idle
    <3>1. \A c \in Range(side_conditions') : c \in Range(side_conditions) \/ c \in report.due
      BY <1>2, <1>3, <1>4, AccumulatorIs
    <3>2. operation_active => Says(side_conditions', side_conditions)
      BY <1>4, AccumulatorIs
    <3> QED
      BY <1>1, <1>2, <1>3, <2>1, <3>1, <3>2, HitConditions
  <2>2. CASE Idle
    <3>1. stack' = <<>> /\ last' = report
      BY <1>1, <2>2 DEF Deliver, Idle
    <3>2. Len(stack') = 0 /\ Depth' = 0 /\ Depth = 0 /\ Idle' /\ 1 .. 0 = {}
      BY <2>2, <3>1 DEF Idle, Depth
    <3>3. FreshReportIsComplete'
      BY <1>3, <3>1 DEF FreshReportIsComplete
    <3>4. ReportedWasTaken'
      <4>1. Range(<<>>) = {}
        BY DEF Range
      <4>2. Range(side_conditions') \subseteq report.due
        BY <1>2, <1>3, <1>4, <2>2, <4>1, AccumulatorIs
      <4> QED
        BY <3>1, <4>2 DEF ReportedWasTaken
    <3> QED
      BY <3>2, <3>3, <3>4 DEF Taken, Said, Settled
  <2> QED
    BY <2>1, <2>2
<1>6. Values' /\ Entries'
  BY <1>0, <1>1, <1>4, <1>5, RevalidateKeeps DEF Values
<1> QED
  BY <1>5, <1>6 DEF ConditionInv

(* simplify begins to compute. *)
LEMMA SimplifyMissConditions ==
    ASSUME CInv, NEW e \in Exprs, SimplifyMiss(e)
    PROVE  ConditionInv'
<1>0. Values /\ Entries
  BY DEF CInv, ConditionInv
<1>1. /\ MayCall("simplify") /\ Revalidate /\ side_conditions' = Accumulator
      /\ Enter("simplify", e, Accumulator, None) /\ UNCHANGED <<facts, revision, caching_enabled>>
  BY DEF SimplifyMiss
<1>2. /\ Fits(side_conditions') /\ Range(side_conditions') \subseteq Range(side_conditions)
      /\ ~operation_active \/ side_conditions' = side_conditions
  BY <1>1, AccumulatorIs
<1>3. /\ Taken(stack', side_conditions') /\ Said(stack', side_conditions') /\ Settled'
      /\ Depth' <= MaxDepth /\ \A i \in 1 .. Depth' : Contents(stack'[i])
  BY <1>1, <1>2, EnterConditions
<1>4. Values' /\ Entries'
  BY <1>0, <1>1, <1>2, <1>3, RevalidateKeeps DEF Values
<1> QED
  BY <1>3, <1>4 DEF ConditionInv

-----------------------------------------------------------------------------
(* The ends of calls. *)

(* The innermost call returns with its frames as they are. *)
LEMMA ReturnConditions ==
    ASSUME CInv, Depth >= 1, NEW ok \in BOOLEAN, NEW STATE conditions,
           Leave(ok, stack, conditions, ops_count),
           Fits(conditions), Range(conditions) \subseteq Range(side_conditions),
           Says(conditions, side_conditions)
    PROVE  /\ Taken(stack', side_conditions') /\ Said(stack', side_conditions') /\ Settled'
           /\ Fits(side_conditions') /\ Depth' <= MaxDepth
           /\ \A i \in 1 .. Depth' : Contents(stack'[i])
<1>1. /\ Sequence(stack) /\ Len(stack) = Depth
      /\ \A i \in 1 .. Depth : Framed(stack[i]) /\ Contents(stack[i])
  BY DEF CInv, ConditionInv, IInv, Types, Values, Depth
<1>2. \A i \in 1 .. Depth : Same(stack[i], stack[i]) /\ Alike(stack[i], stack[i])
  BY DEF Same, Alike
<1>3. /\ Taken(stack', side_conditions') /\ Said(stack', side_conditions') /\ Settled'
      /\ Fits(side_conditions') /\ Depth' = Depth - 1
      /\ \A i \in 1 .. Depth' : Contents(stack'[i])
  BY <1>1, <1>2, LeaveConditions
<1>4. Depth' <= MaxDepth
  BY <1>3, DepthIs, SessionAssumption DEF CInv, ConditionInv, IInv, Values, SessionAssumption
<1> QED
  BY <1>3, <1>4

(* The accumulator as it is. *)
LEMMA SameConditions ==
    ASSUME CInv
    PROVE  /\ Fits(side_conditions) /\ Range(side_conditions) \subseteq Range(side_conditions)
           /\ Says(side_conditions, side_conditions)
           /\ Depth \in Nat /\ (~Idle <=> Depth >= 1)
BY DepthIs DEF CInv, ConditionInv, IInv, Values, Says

(* A simplify ends well and stores its result with the conditions added since its mark. *)
LEMMA SimplifyDoneConditions ==
    ASSUME CInv, SimplifyDone
    PROVE  ConditionInv'
<1> DEFINE n     == Len(stack)
           entry == [under |-> facts, due |-> Top.due,
                     conditions |-> Since(side_conditions, Top.mark)]
<1>0. /\ Values /\ Entries /\ Taken(stack, side_conditions)
      /\ Depth >= 1 /\ Depth = n /\ n \in Nat /\ n \in 1 .. n
  BY SameConditions DEF CInv, ConditionInv, SimplifyDone, At, Depth
<1>1. /\ simplify_cache' = Put(simplify_cache, entry)
      /\ Leave(TRUE, stack, side_conditions, ops_count) /\ Top.kind = "simplify"
      /\ UNCHANGED <<facts, revision, last_assumptions_revision, caching_enabled, integrate_cache>>
  BY DEF SimplifyDone, At
<1>2. /\ Taken(stack', side_conditions') /\ Said(stack', side_conditions') /\ Settled'
      /\ Fits(side_conditions') /\ Depth' <= MaxDepth
      /\ \A i \in 1 .. Depth' : Contents(stack'[i])
  BY <1>0, <1>1, SameConditions, ReturnConditions
<1>3. /\ Since(side_conditions, Top.mark) \in Seq(Conditions)
      /\ Range(Since(side_conditions, Top.mark)) = Range(side_conditions) \ Range(Top.mark)
  BY SameConditions, SinceIs DEF Fits
<1>4. Range(Since(side_conditions, Top.mark)) \subseteq Top.due
  <2> SUFFICES ASSUME NEW c \in Range(side_conditions), c \notin Range(Top.mark) PROVE c \in Top.due
    BY <1>3
  <2>1. Top = stack[n] /\ Marked(stack, n)
    BY <1>0, <1>1 DEF Top, Marked
  <2>2. Explained(stack, n, n, c)
    BY <1>0, <2>1 DEF Taken
  <2>3. \A j \in n .. n : j = n
    BY <1>0
  <2> QED
    BY <2>1, <2>2, <2>3 DEF Explained
<1>5. Top.due \subseteq Conditions
  BY <1>0 DEF Top, Values, Contents
<1>6. entry \in SimplifyEntries /\ Range(entry.conditions) \subseteq entry.due
  BY <1>0, <1>3, <1>4, <1>5 DEF SimplifyEntries, Values
<1> DEFINE k == Top.key
<1>7. simplify_cache' = simplify_cache \/ simplify_cache' = [simplify_cache EXCEPT ![k] = entry]
  BY <1>1 DEF Put
<1> HIDE DEF entry, k
<1>8. /\ simplify_cache' \in [Exprs -> SimplifyEntries \cup {None}]
      /\ \A e \in Exprs : simplify_cache'[e] = simplify_cache[e] \/ simplify_cache'[e] = entry
  BY <1>0, <1>6, <1>7 DEF Values
<1>9. Entries'
  BY <1>0, <1>6, <1>8 DEF Entries
<1>10. Values'
  BY <1>0, <1>1, <1>2, <1>8 DEF Values
<1> QED
  BY <1>2, <1>9, <1>10 DEF ConditionInv

(* The other calls end, well or not. *)
LEMMA OtherReturnsConditions ==
    ASSUME CInv, IntegrateDone \/ Done \/ Fail
    PROVE  ConditionInv'
<1>0. Values /\ Entries /\ Depth >= 1
  BY SameConditions DEF CInv, ConditionInv, IntegrateDone, Done, Fail, At
<1>1. /\ \E ok \in BOOLEAN : Leave(ok, stack, side_conditions, ops_count)
      /\ UNCHANGED <<facts, revision, last_assumptions_revision, caching_enabled, simplify_cache>>
  BY DEF IntegrateDone, Done, Fail, cacheVars
<1>2. /\ Taken(stack', side_conditions') /\ Said(stack', side_conditions') /\ Settled'
      /\ Fits(side_conditions') /\ Depth' <= MaxDepth
      /\ \A i \in 1 .. Depth' : Contents(stack'[i])
  BY <1>0, <1>1, SameConditions, ReturnConditions
<1>3. integrate_cache' \in [Integrands -> IntegrateEntries \cup {None}]
  <2>1. CASE IntegrateDone
    <3> DEFINE entry == [under |-> facts]
               k     == Top.key
    <3>1. entry \in IntegrateEntries
      BY <1>0 DEF IntegrateEntries, Values
    <3>2. integrate_cache' = integrate_cache \/ integrate_cache' = [integrate_cache EXCEPT ![k] = entry]
      BY <2>1 DEF IntegrateDone, Put
    <3> HIDE DEF entry, k
    <3> QED
      BY <1>0, <3>1, <3>2 DEF Values
  <2>2. CASE Done \/ Fail
    BY <1>0, <2>2 DEF Values, Done, Fail, cacheVars
  <2> QED
    BY <2>1, <2>2
<1>4. Values'
  BY <1>0, <1>1, <1>2, <1>3, SameConditions DEF Values
<1>5. Entries'
  BY <1>0, <1>1 DEF Entries
<1> QED
  BY <1>2, <1>4, <1>5 DEF ConditionInv

-----------------------------------------------------------------------------
(* The work of a call. *)

(* A node visit takes no condition; it may end the call. *)
LEMMA VisitConditions ==
    ASSUME CInv, Visit
    PROVE  ConditionInv'
<1>0. /\ IInv /\ Types /\ Values /\ Entries /\ Depth >= 1 /\ ~Idle
      /\ UNCHANGED <<facts, revision, last_assumptions_revision, caching_enabled, simplify_cache, integrate_cache>>
  BY SameConditions DEF CInv, ConditionInv, IInv, Visit, At, cacheVars
<1>1. /\ Sequence(Visited) /\ Len(Visited) = Depth
      /\ \A i \in 1 .. Depth : Framed(Visited[i]) /\ Same(Visited[i], stack[i])
  BY <1>0, VisitedKeeps
<1>2. ASSUME NEW i \in 1 .. Depth
      PROVE  Alike(Visited[i], stack[i]) /\ Visited[i].key = stack[i].key /\ Contents(Visited[i])
  <2> DEFINE f == stack[i]
  <2>1. Framed(f) /\ Contents(f)
    BY <1>0 DEF Types, Values
  <2>2. Visited[i] = IF f.owns /\ f.phase = "run" THEN [f EXCEPT !.visits = @ + 1] ELSE f
    BY DEF Visited
  <2> HIDE DEF f
  <2>3. LET g == [f EXCEPT !.visits = @ + 1] IN Alike(g, f) /\ g.key = f.key /\ Contents(g)
    BY <2>1 DEF Framed, Alike, Contents
  <2> QED
    BY <2>1, <2>2, <2>3 DEF f, Alike
<1>3. /\ Taken(stack', side_conditions') /\ Said(stack', side_conditions') /\ Settled'
      /\ Fits(side_conditions') /\ Depth' <= Depth
      /\ \A i \in 1 .. Depth' : Contents(stack'[i])
  <2>1. CASE Leave(FALSE, Visited, side_conditions, ops_count + 1)
    <3> HIDE DEF Visited
    <3>1. /\ Taken(stack', side_conditions') /\ Said(stack', side_conditions') /\ Settled'
          /\ Fits(side_conditions') /\ Depth' = Depth - 1
          /\ \A i \in 1 .. Depth' : Contents(stack'[i])
      BY <1>0, <1>1, <1>2, <2>1, SameConditions, LeaveConditions
    <3> QED
      BY <3>1, SameConditions
  <2>2. CASE stack' = Visited /\ UNCHANGED <<side_conditions, last>>
    <3>1. Depth' = Depth
      BY <1>1, <2>2 DEF Depth
    <3> HIDE DEF Visited
    <3>2. /\ Taken(stack', side_conditions') /\ Said(stack', side_conditions') /\ Settled'
          /\ \A i \in 1 .. Depth' : Contents(stack'[i])
      BY <1>0, <1>2, <2>2, <3>1, QuietConditions
    <3> QED
      BY <2>2, <3>1, <3>2, SameConditions
  <2> QED
    BY <2>1, <2>2 DEF Visit
<1>4. Depth' <= MaxDepth
  <2>1. Depth' \in Nat
    <3>1. Types'
      BY <1>0, VisitInv DEF CInv, IInv
    <3> QED
      BY <3>1 DEF Types, Sequence, Depth
  <2> QED
    BY <1>0, <1>3, <2>1, SameConditions, SessionAssumption DEF Values, SessionAssumption
<1>5. Values'
  BY <1>0, <1>3, <1>4 DEF Values
<1>6. Entries'
  BY <1>0 DEF Entries
<1> QED
  BY <1>3, <1>5, <1>6 DEF ConditionInv

(* A rewrite takes a condition: the accumulator says it, or refuses it and is as before. *)
LEMMA EmitConditions ==
    ASSUME CInv, NEW c \in Conditions, EmitSideCondition(c)
    PROVE  ConditionInv'
<1> DEFINE n     == Len(stack)
           after == Add(side_conditions, c)
<1>0. /\ Types /\ Values /\ Entries /\ Settled /\ Taken(stack, side_conditions) /\ Said(stack, side_conditions)
      /\ ~Idle /\ Depth >= 1 /\ Depth = n /\ n \in Nat \ {0} /\ n \in 1 .. n
      /\ Fits(side_conditions) /\ Range(side_conditions) \subseteq Range(side_conditions)
      /\ Says(side_conditions, side_conditions)
      /\ UNCHANGED <<facts, revision, last_assumptions_revision, caching_enabled, simplify_cache, integrate_cache>>
      /\ \A i \in 1 .. n : Framed(stack[i]) /\ Contents(stack[i])
  BY SameConditions DEF CInv, ConditionInv, IInv, EmitSideCondition, At, cacheVars, Depth, Types, Values
<1>1. /\ Fits(after) /\ Range(after) \subseteq Range(side_conditions) \cup {c}
      /\ Says(after, side_conditions)
      /\ ~Refused(side_conditions, c) => Held(after, c)
      /\ Refused(side_conditions, c) => Range(after) \subseteq Range(side_conditions)
  BY <1>0, AddIs
<1> HIDE DEF after, n
<1>2. CASE Leave(FALSE, stack, Add(side_conditions, c), ops_count) /\ Refused(side_conditions, c)
  <2>1. /\ Taken(stack', side_conditions') /\ Said(stack', side_conditions') /\ Settled'
        /\ Fits(side_conditions') /\ Depth' <= MaxDepth
        /\ \A i \in 1 .. Depth' : Contents(stack'[i])
    BY <1>0, <1>1, <1>2, ReturnConditions DEF after
  <2> QED
    BY <1>0, <2>1 DEF ConditionInv, Values, Entries
<1>3. ASSUME NEW extra \in {{}, {c}}, side_conditions' = after, UNCHANGED last,
             extra = {} => stack' = stack /\ Range(after) \subseteq Range(side_conditions),
             extra = {c} => stack' = [stack EXCEPT ![Depth].due = @ \cup {c}] /\ Held(after, c)
      PROVE  ConditionInv'
  <2> DEFINE f == stack[n]
             g == IF extra = {c} THEN [f EXCEPT !.due = @ \cup {c}] ELSE f
  <2>1. /\ g.kind = f.kind /\ g.owns = f.owns /\ g.mark = f.mark /\ g.due = f.due \cup extra
        /\ g.hit = f.hit /\ g.hooked = f.hooked /\ Contents(g)
    <3>1. Framed(f) /\ Contents(f)
      BY <1>0
    <3> HIDE DEF f
    <3>2. LET h == [f EXCEPT !.due = @ \cup {c}]
          IN  /\ h.kind = f.kind /\ h.owns = f.owns /\ h.mark = f.mark /\ h.due = f.due \cup {c}
              /\ h.hit = f.hit /\ h.hooked = f.hooked /\ Contents(h)
      BY <3>1 DEF Framed, Contents
    <3>3. extra = {} \/ extra = {c}
      OBVIOUS
    <3> QED
      BY <3>1, <3>2, <3>3
  <2>2. /\ Len(stack') = n /\ \A i \in 1 .. n - 1 : stack'[i] = stack[i]
        /\ stack'[n] = g
    <3>1. DOMAIN stack = 1 .. n /\ n \in Nat
      BY <1>0 DEF Types, Sequence, n
    <3>2. CASE extra = {}
      <4>1. stack' = stack /\ extra # {c}
        BY <1>3, <3>2
      <4> QED
        BY <1>0, <4>1 DEF n
    <3>3. CASE extra = {c}
      <4>1. stack' = [stack EXCEPT ![n] = g]
        BY <1>0, <1>3, <3>3
      <4> HIDE DEF g
      <4>2. /\ stack' = [i \in 1 .. n |-> stack'[i]]
            /\ \A i \in 1 .. n : stack'[i] = IF i = n THEN g ELSE stack[i]
        BY <3>1, <4>1
      <4>3. Len(stack') = n
        BY <3>1, <4>2, ListIs
      <4>4. \A i \in 1 .. n - 1 : stack'[i] = stack[i]
        BY <3>1, <4>2
      <4> QED
        BY <1>0, <4>2, <4>3, <4>4
    <3> QED
      BY <3>2, <3>3
  <2> HIDE DEF g
  <2>3. Grown(stack, stack', extra)
    <3>1. \A i \in 1 .. n - 1 : Alike(stack'[i], stack[i])
      BY <2>2 DEF Alike
    <3> QED
      BY <2>1, <2>2, <3>1 DEF Grown, n
  <2>4. \A d \in Range(after) : d \in Range(side_conditions) \/ d \in extra
    BY <1>1, <1>3
  <2>5. Clean(stack', n) => \A d \in stack[n].due \cup extra : Held(after, d)
    <3> SUFFICES ASSUME Clean(stack', n), NEW d \in stack[n].due \cup extra PROVE Held(after, d)
      OBVIOUS
    <3>1. CASE d \in stack[n].due
      <4>1. Clean(stack, n)
        BY <1>0, <2>1, <2>2 DEF Clean, n
      <4>2. Held(side_conditions, d) /\ d \in Conditions
        BY <1>0, <3>1, <4>1 DEF Said, Contents, n
      <4> QED
        BY <1>1, <4>2 DEF Says
    <3>2. CASE d \in extra
      BY <1>3, <3>2
    <3> QED
      BY <3>1, <3>2
  <2>6. Taken(stack', after) /\ Said(stack', after)
    <3>1. \A i \in 1 .. n : stack[i].due \subseteq Conditions
      BY <1>0 DEF Contents
    <3> QED
      BY <1>0, <1>1, <2>3, <2>4, <2>5, <3>1, GrownKeeps DEF n
  <2>7. Depth' = n /\ \A i \in 1 .. n : Contents(stack'[i])
    <3>1. \A i \in 1 .. n : i = n \/ i \in 1 .. n - 1
      BY <1>0
    <3> QED
      BY <1>0, <2>1, <2>2, <3>1 DEF Depth
  <2>8. Settled'
    BY <1>0, <1>3 DEF Settled
  <2> QED
    BY <1>0, <1>1, <1>3, <2>6, <2>7, <2>8 DEF ConditionInv, Values, Entries
<1>4. CASE side_conditions' = after /\ UNCHANGED last /\ Refused(side_conditions, c) /\ stack' = stack
  BY <1>1, <1>3, <1>4
<1>5. CASE /\ side_conditions' = after /\ UNCHANGED last /\ ~Refused(side_conditions, c)
           /\ stack' = [stack EXCEPT ![Depth].due = @ \cup {c}]
  BY <1>1, <1>3, <1>5
<1> QED
  BY <1>2, <1>4, <1>5 DEF EmitSideCondition, after

(* integrate answers from its cache, to its caller or to the client. *)
LEMMA IntegrateHitConditions ==
    ASSUME CInv, NEW f \in Integrands, IntegrateHit(f)
    PROVE  ConditionInv'
<1> DEFINE report == [kind |-> "integrate", ok |-> TRUE, cached |-> TRUE, under |-> integrate_cache[f].under,
                      before |-> Before, due |-> {}, hit |-> TRUE, hooked |-> FALSE]
<1>0. Values /\ Entries
  BY DEF CInv, ConditionInv
<1>1. /\ Deliver(report, stack)
      /\ UNCHANGED <<facts, revision, last_assumptions_revision, caching_enabled, simplify_cache,
                     integrate_cache, side_conditions>>
  BY DEF IntegrateHit, cacheVars
<1>2. report.kind = "integrate" /\ report.before = Before /\ report.due = {} /\ report.hit = TRUE
  OBVIOUS
<1> HIDE DEF report
<1>3. /\ Taken(stack', side_conditions') /\ Said(stack', side_conditions') /\ Settled'
      /\ Depth' = Depth /\ \A i \in 1 .. Depth' : Contents(stack'[i])
  <2>1. CASE ~Idle
    BY <1>1, <1>2, <2>1, SameConditions, HitConditions
  <2>2. CASE Idle
    <3>1. stack' = <<>> /\ last' = report
      BY <1>1, <2>2 DEF Deliver, Idle
    <3>2. Len(stack') = 0 /\ Depth' = 0 /\ Depth = 0 /\ Idle' /\ 1 .. 0 = {}
      BY <2>2, <3>1 DEF Idle, Depth
    <3>3. FreshReportIsComplete' /\ ReportedWasTaken'
      BY <1>1, <1>2, <2>2, <3>1 DEF FreshReportIsComplete, Simplified, ReportedWasTaken, Before
    <3> QED
      BY <3>2, <3>3 DEF Taken, Said, Settled
  <2> QED
    BY <2>1, <2>2
<1>4. Values' /\ Entries'
  BY <1>0, <1>1, <1>3 DEF Values, Entries
<1> QED
  BY <1>3, <1>4 DEF ConditionInv

(* integrate begins, or a scope, a comparison or an attempt opens. *)
LEMMA OpenConditions ==
    ASSUME CInv,
           \/ \E f \in Integrands : IntegrateMiss(f)
           \/ \E kind \in {"scope", "equal", "attempt"} : Open(kind)
    PROVE  ConditionInv'
<1>0. /\ Values /\ Entries
      /\ UNCHANGED <<facts, revision, last_assumptions_revision, caching_enabled, simplify_cache,
                     integrate_cache, side_conditions>>
  BY DEF CInv, ConditionInv, IntegrateMiss, Open, cacheVars
<1>1. Fits(Before) /\ Fits(side_conditions) /\ (Depth = 0 => Before = side_conditions)
  <2>1. Fits(<<>>)
    BY ConditionsAssumption DEF Fits, ConditionsAssumption
  <2>2. Depth = 0 <=> Idle
    BY DepthIs DEF CInv, IInv
  <2> QED
    BY <1>0, <2>1, <2>2 DEF Before, Values
<1>2. /\ Taken(stack', side_conditions') /\ Said(stack', side_conditions') /\ Settled'
      /\ Depth' <= MaxDepth /\ \A i \in 1 .. Depth' : Contents(stack'[i])
  <2>1. ASSUME NEW f \in Integrands, IntegrateMiss(f)
        PROVE  /\ Taken(stack', side_conditions') /\ Said(stack', side_conditions') /\ Settled'
               /\ Depth' <= MaxDepth /\ \A i \in 1 .. Depth' : Contents(stack'[i])
    <3>1. MayCall("integrate") /\ \E restore : Enter("integrate", f, Before, restore)
      BY <2>1 DEF IntegrateMiss
    <3> HIDE DEF Before
    <3> QED
      BY <1>0, <1>1, <3>1, EnterConditions
  <2>2. ASSUME NEW kind \in {"scope", "equal", "attempt"}, Open(kind)
        PROVE  /\ Taken(stack', side_conditions') /\ Said(stack', side_conditions') /\ Settled'
               /\ Depth' <= MaxDepth /\ \A i \in 1 .. Depth' : Contents(stack'[i])
    <3> DEFINE mark == IF kind = "attempt" THEN side_conditions ELSE Before
    <3>1. MayCall(kind) /\ Enter(kind, None, mark, None)
      BY <2>2 DEF Open
    <3>2. Fits(mark) /\ (Depth = 0 \/ kind \in {"simplify", "attempt"} => mark = side_conditions')
      <4>1. kind = "attempt" => ~Idle
        BY <3>1 DEF MayCall
      <4> QED
        BY <1>0, <1>1, <4>1, SameConditions
    <3> HIDE DEF mark
    <3> QED
      BY <1>0, <3>1, <3>2, EnterConditions
  <2> QED
    BY <2>1, <2>2
<1>3. Values' /\ Entries'
  BY <1>0, <1>1, <1>2 DEF Values, Entries
<1> QED
  BY <1>2, <1>3 DEF ConditionInv

(* The innermost call goes on to another phase. *)
LEMMA PhaseConditions ==
    ASSUME CInv, ~Idle, NEW p, stack' = [stack EXCEPT ![Depth].phase = p],
           UNCHANGED <<facts, revision, cacheVars, side_conditions, last>>
    PROVE  ConditionInv'
<1> DEFINE n == Len(stack)
           f == stack[n]
           g == [f EXCEPT !.phase = p]
<1>0. /\ Types /\ Values /\ Entries /\ Depth = n /\ n \in Nat /\ n \in 1 .. n /\ DOMAIN stack = 1 .. n
      /\ UNCHANGED <<last_assumptions_revision, caching_enabled, simplify_cache, integrate_cache>>
  BY SameConditions DEF CInv, ConditionInv, IInv, Types, Sequence, Depth, cacheVars
<1>1. Alike(g, f) /\ g.key = f.key
  <2>1. Framed(f)
    BY <1>0 DEF Types
  <2> HIDE DEF f
  <2> QED
    BY <2>1 DEF Framed, Alike
<1>2. stack' = [stack EXCEPT ![n] = g]
  BY <1>0
<1> HIDE DEF g, n
<1>3. /\ stack' = [i \in 1 .. n |-> stack'[i]]
      /\ \A i \in 1 .. n : stack'[i] = IF i = n THEN g ELSE stack[i]
  BY <1>0, <1>2
<1>4. Depth' = n
  BY <1>0, <1>3, ListIs DEF Depth
<1>5. \A i \in 1 .. n : Alike(stack'[i], stack[i]) /\ stack'[i].key = stack[i].key
  BY <1>1, <1>3 DEF Alike, f
<1>6. /\ Taken(stack', side_conditions') /\ Said(stack', side_conditions') /\ Settled'
      /\ \A i \in 1 .. Depth' : Contents(stack'[i])
  BY <1>0, <1>4, <1>5, QuietConditions
<1>7. Values' /\ Entries'
  BY <1>0, <1>4, <1>6 DEF Values, Entries
<1> QED
  BY <1>6, <1>7 DEF ConditionInv

-----------------------------------------------------------------------------
(* The theorems. *)

(* Every step keeps what is known of the conditions. *)
LEMMA NextConditions == CInv /\ [Next]_vars => CInv'
<1> SUFFICES ASSUME CInv, [Next]_vars PROVE CInv'
  OBVIOUS
<1>0. IInv'
  BY NextInv DEF CInv
<1>1. CASE (\E c \in Assumable : Assume(c)) \/ Reset \/ \E enabled \in BOOLEAN : SetCachingEnabled(enabled)
  BY <1>0, <1>1, ClientConditions DEF CInv
<1>2. CASE SetTimeout \/ \E ops \in OpsLimits : SetMaxOperationOps(ops)
  <2>1. \E budget : SetBudget(budget)
    BY <1>2 DEF SetTimeout, SetMaxOperationOps
  <2> QED
    BY <1>0, <2>1, ClientConditions DEF CInv
<1>3. CASE \E c \in Conditions : EmitSideCondition(c)
  BY <1>0, <1>3, EmitConditions DEF CInv
<1>4. CASE \E e \in Exprs : SimplifyHit(e) \/ SimplifyMiss(e)
  BY <1>0, <1>4, SimplifyHitConditions, SimplifyMissConditions DEF CInv
<1>5. CASE \/ CloseAndHook
           \/ RadicalWindow("run", "radical", FALSE) \/ RadicalWindow("radical", "rest", TRUE)
  <2>1. /\ ~Idle /\ UNCHANGED <<facts, revision, cacheVars, side_conditions, last>>
        /\ \E p : stack' = [stack EXCEPT ![Depth].phase = p]
    BY <1>5 DEF CloseAndHook, RadicalWindow, At
  <2> QED
    BY <1>0, <2>1, PhaseConditions DEF CInv
<1>6. CASE \E f \in Integrands : IntegrateHit(f) \/ IntegrateMiss(f)
  BY <1>0, <1>6, IntegrateHitConditions, OpenConditions DEF CInv
<1>7. CASE SimplifyDone
  BY <1>0, <1>7, SimplifyDoneConditions DEF CInv
<1>8. CASE IntegrateDone \/ Done \/ Fail
  BY <1>0, <1>8, OtherReturnsConditions DEF CInv
<1>9. CASE \E kind \in {"scope", "equal", "attempt"} : Open(kind)
  BY <1>0, <1>9, OpenConditions DEF CInv
<1>10. CASE Visit
  BY <1>0, <1>10, VisitConditions DEF CInv
<1>11. CASE UNCHANGED vars
  <2>1. UNCHANGED <<facts, revision, last_assumptions_revision, caching_enabled, simplify_cache,
                    integrate_cache, side_conditions, stack, last>>
    BY <1>11 DEF vars, cacheVars
  <2>2. Values' /\ Entries'
    BY <2>1 DEF CInv, ConditionInv, Values, Entries, Depth
  <2>3. Settled'
    BY <2>1 DEF CInv, ConditionInv, Settled, Idle, FreshReportIsComplete, ReportedWasTaken, Simplified, Unreported
  <2>4. Taken(stack', side_conditions') /\ Said(stack', side_conditions')
    BY <2>1 DEF CInv, ConditionInv
  <2> QED
    BY <1>0, <2>2, <2>3, <2>4 DEF CInv, ConditionInv
<1> QED
  BY <1>1, <1>2, <1>3, <1>4, <1>5, <1>6, <1>7, <1>8, <1>9, <1>10, <1>11 DEF Next

(* Whatever is reported or would be put back was taken, and what a clean call has taken is
   said, however the calls nest, fail, are abandoned or are answered from a cache. *)
THEOREM ConditionsAreKept == Spec => []CInv
<1>1. Init => CInv
  BY InitInv, InitConditions DEF CInv
<1>2. CInv /\ [Next]_vars => CInv'
  BY NextConditions
<1> QED
  BY <1>1, <1>2, PTL DEF Spec

(* Every variable and every frame stays within its type: the condition sets within
   max_side_conditions above all (side_conditions.cpp:30-49). *)
THEOREM TypeInvariant == Spec => []TypeOK
<1>1. CInv => TypeOK
  <2> SUFFICES ASSUME CInv PROVE TypeOK
    OBVIOUS
  <2>1. Types /\ Values
    BY DEF CInv, ConditionInv, IInv
  <2>2. ASSUME NEW i \in 1 .. Depth
        PROVE  /\ stack[i].kind \in DOMAIN Callees
               /\ stack[i].phase \in {"run", "hook", "radical", "rest"}
               /\ stack[i].key \in Exprs \cup Integrands \cup {None}
               /\ stack[i].mark \in Seq(Conditions) /\ stack[i].due \subseteq Conditions
               /\ stack[i].visits \in Nat
               /\ {stack[i].owns, stack[i].hit, stack[i].hooked} \subseteq BOOLEAN
               /\ stack[i].restore \in Budget \cup {None}
    <3>1. Framed(stack[i]) /\ Contents(stack[i])
      BY <2>1 DEF Types, Values
    <3>2. DOMAIN Callees = CallKinds
      BY DEF Callees, CallKinds
    <3> QED
      BY <3>1, <3>2 DEF Framed, Contents, Fits, Phases
  <2> QED
    BY <2>1, <2>2 DEF TypeOK, Types, Values, Fits
<1> QED
  BY <1>1, ConditionsAreKept, PTL

(* A result computed afresh, without a cache and without the simplify of a hook, reports
   every condition taken for it, however deep (symbolic.hpp:128-134). *)
THEOREM FreshReportsAreComplete == Spec => []FreshReportIsComplete
<1>1. CInv => FreshReportIsComplete
  BY DEF CInv, ConditionInv, Settled, FreshReportIsComplete, Simplified
<1> QED
  BY <1>1, ConditionsAreKept, PTL

(* No call reports a condition that was not taken for it: not one of an earlier call, nor one
   taken only by an abandoned attempt (symbolic.hpp:296-312). *)
THEOREM ReportsAreTaken == Spec => []ReportedWasTaken
<1>1. CInv => ReportedWasTaken
  BY DEF CInv, ConditionInv, Settled, ReportedWasTaken
<1> QED
  BY <1>1, ConditionsAreKept, PTL

=============================================================================
