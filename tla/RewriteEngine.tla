--------------------------- MODULE RewriteEngine ---------------------------
(***************************************************************************)
(* Pattern rewriting: instantiation, and the application of a rule at one  *)
(* node and over a tree.                                                   *)
(***************************************************************************)
EXTENDS Patterns, SequencesExt

RECURSIVE InstantiatePattern(_, _), BottomUp(_, _), TopDown(_, _), FixPoint(_, _)

\* instantiate_pattern: a wildcard that is not bound stays.
InstantiatePattern(p, bound) ==
    IF IsWildcard(p) /\ Named(bound, p.tag) # {} THEN (CHOOSE b \in Named(bound, p.tag) : TRUE)[2]
    ELSE [p EXCEPT !.args = [i \in 1 .. Len(p.args) |-> InstantiatePattern(p.args[i], bound)]]

ConditionHolds(rule, bound) ==
    \A w \in rule.integers : Named(bound, w) # {} /\ \A b \in Named(bound, w) : b[2].kind = "IntegerLit"

\* build_ac_expr.
BuildAc(kind, operands) ==
    CASE operands = <<>> -> IntegerLit(IF kind = "Sum" THEN 0 ELSE 1)
      [] Len(operands) = 1 -> operands[1]
      [] OTHER -> Node(kind, 0, operands)

\* The operands at the positions in S, in their order.
At(es, S) == [i \in 1 .. Cardinality(S) |-> es[SetToSortSeq(S, <)[i]]]

\* Fault: the operands that were matched are kept and the others lost.
TakenInstead(es, taken) == At(es, taken)

Untaken(es, taken) == At(es, DOMAIN es \ taken)

\* try_apply_rule_here: the whole node, else some of the operands of a sum or of a
\* product; a result that is no strict reduction is dropped.
TryApplyHere(e, rule) ==
    LET Image(m)     == InstantiatePattern(rule.replacement, m.bound)
        Reduced(r)   == IF IsStrictRewriteReduction(e, r) THEN r ELSE e
        Applies(m)   == m.ok /\ ConditionHolds(rule, m.bound)
        Whole(m)     == IF Applies(m) THEN Reduced(Image(m)) ELSE e
        Part(m)      == IF Applies(m)
                        THEN Reduced(BuildAc(e.kind, Append(Untaken(e.args, m.taken), Image(m))))
                        ELSE e
        Otherwise(r) == IF r # e THEN r
                        ELSE IF /\ e.kind \in Associative /\ rule.pattern.kind = e.kind
                                /\ Len(e.args) > Len(rule.pattern.args)
                             THEN Part(MatchOperands(e, rule.pattern))
                             ELSE e
    IN  Otherwise(Whole(MatchPattern(e, rule.pattern, {})))

RewriteChildren(e, children) == [e EXCEPT !.args = children]

BottomUp(e, rule) ==
    TryApplyHere(RewriteChildren(e, [i \in 1 .. Len(e.args) |-> BottomUp(e.args[i], rule)]), rule)

TopDown(e, rule) ==
    LET Down(h) == RewriteChildren(h, [i \in 1 .. Len(h.args) |-> TopDown(h.args[i], rule)])
    IN  Down(TryApplyHere(e, rule))

FixPoint(e, rule) ==
    LET Again(next) == IF next = e THEN e ELSE FixPoint(next, rule) IN Again(BottomUp(e, rule))

\* apply_rule, its error apart: a rule that is not oriented is refused.
Refused(rule) == ~IsStronglyNormalizing(<<rule>>)

ApplyRule(e, rule, strategy) ==
    CASE strategy = "BottomUp" -> BottomUp(e, rule)
      [] strategy = "TopDown"  -> TopDown(e, rule)
      [] strategy = "FixPoint" -> FixPoint(e, rule)
=============================================================================
