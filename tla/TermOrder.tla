----------------------------- MODULE TermOrder -----------------------------
(***************************************************************************)
(* The orders of the rewriter: the canonical order, a lexicographic path   *)
(* order, a weight order, and the comparison that takes the path order     *)
(* where it decides and the weight order where it does not.  A recursion   *)
(* over trees is a function on the trees up to some height.                *)
(***************************************************************************)
EXTENDS Expr

CONSTANT MaxHeight      \* bound: the height of a tree

ASSUME HeightAssumption == MaxHeight \in Nat

Sign(a, b) == IF a < b THEN -1 ELSE IF a > b THEN 1 ELSE 0

\* A comparison and, where it does not decide, the next one.
Then(cmp, next) == IF cmp # 0 THEN cmp ELSE next

Shorter(a, b) == IF Len(a.args) < Len(b.args) THEN Len(a.args) ELSE Len(b.args)

Least(S) == CHOOSE i \in S : \A j \in S : i <= j

\* The children one by one, then their number.
CompareChildren(cmp, a, b) ==
    LET decided == {i \in 1 .. Shorter(a, b) : cmp[<<a.args[i], b.args[i]>>] # 0}
        first   == Least(decided)
    IN  IF decided # {} THEN cmp[<<a.args[first], b.args[first]>>]
        ELSE Sign(Len(a.args), Len(b.args))

TermKindRank == [IntegerLit |-> 1, RationalLit |-> 1, DecimalLit |-> 1, Constant |-> 1, ComplexLit |-> 1,
                 Symbol |-> 2, Unary |-> 3, Binary |-> 4, Sum |-> 5, Product |-> 6, FuncCall |-> 7]

\* The kinds by their place in their enumeration, where those left out stand too.
KindOrdinal == [IntegerLit |-> 1, RationalLit |-> 2, DecimalLit |-> 3, Symbol |-> 4, Constant |-> 5,
                Unary |-> 6, Binary |-> 7, FuncCall |-> 8, Sum |-> 9, Product |-> 10, ComplexLit |-> 15]

\* The trees of at most so many levels.
TermsUpTo(height) ==
    LET terms[h \in 0 .. height] ==
            IF h = 0 THEN {}
            ELSE [kind : DOMAIN TermKindRank, tag : Int, args : Seq(terms[h - 1])]
    IN  terms[height]
Terms == TermsUpTo(MaxHeight)

\* expr_weight: the nodes of a tree.
WeightOfAll(es, weight) ==
    LET sum[i \in 0 .. Len(es)] == IF i = 0 THEN 0 ELSE sum[i - 1] + weight[es[i]]
    IN  sum[Len(es)]
Weight(e) ==
    LET weight[t \in Terms] == 1 + WeightOfAll(t.args, weight)
    IN  weight[e]

BuiltinPrecedence(f) == CASE f = FnSin -> 78 [] f = FnCos -> 77 [] OTHER -> 1

BinaryPrecedence(op) ==
    CASE op = Pow -> 60 [] op \in {Mul, Div} -> 40 [] op \in {Add, Sub} -> 30
      [] op = Mod -> 20 [] OTHER -> 10

CompareKinds(a, b)    == Sign(TermKindRank[a.kind], TermKindRank[b.kind])
CompareOrdinals(a, b) == Sign(KindOrdinal[a.kind], KindOrdinal[b.kind])

\* Fault: functions of one precedence are not told apart by their names.
ByPrecedenceOnly(f, g) == Sign(BuiltinPrecedence(f), BuiltinPrecedence(g))

CompareFunctions(f, g) ==
    Then(Sign(BuiltinPrecedence(f), BuiltinPrecedence(g)), Sign(f, g))

\* compare_head_precedence: the sums have one head, the products another, and all the
\* literals a third.
CompareHeads(a, b) ==
    IF a = b \/ CompareKinds(a, b) # 0 THEN CompareKinds(a, b)
    ELSE CASE a.kind = "Binary" ->
                  Then(Sign(BinaryPrecedence(a.tag), BinaryPrecedence(b.tag)), Sign(a.tag, b.tag))
           [] a.kind = "FuncCall" -> CompareFunctions(a.tag, b.tag)
           [] a.kind \in {"Unary", "Symbol"} -> Sign(a.tag, b.tag)
           [] OTHER -> 0

\* canonical_compare: the rank of the kind, the kind, the value, name or operator, the
\* children.  It has no branch for the values of two kinds of literal.
Valueless == {"DecimalLit", "ComplexLit"}
CompareTags(a, b) ==
    CASE a.kind = "FuncCall" -> CompareFunctions(a.tag, b.tag)
      [] a.kind \in Valueless -> 0
      [] OTHER -> Sign(a.tag, b.tag)
CanonicalCompare(a, b) ==
    LET compare[p \in Terms \X Terms] ==
            IF p[1] = p[2] THEN 0
            ELSE Then(CompareKinds(p[1], p[2]), Then(CompareOrdinals(p[1], p[2]),
                 Then(CompareTags(p[1], p[2]), CompareChildren(compare, p[1], p[2]))))
    IN  compare[<<a, b>>]

\* term_order_gt: a child reaches b, or a dominates the children of b and its head
\* is greater, or the heads agree and the first differing children decide.
Differing(a, b)      == {i \in 1 .. Shorter(a, b) : a.args[i] # b.args[i]}
Reaches(gt, a, b)    == \E i \in DOMAIN a.args : a.args[i] = b \/ gt[<<a.args[i], b>>]
Dominates(gt, a, b)  == \A i \in DOMAIN b.args : gt[<<a, b.args[i]>>]
FirstAbove(gt, a, b) ==
    /\ Differing(a, b) # {}
    /\ gt[<<a.args[Least(Differing(a, b))], b.args[Least(Differing(a, b))]>>]

TermOrderGt(a, b) ==
    LET gt[p \in Terms \X Terms] ==
            LET s == p[1]
                t == p[2]
            IN  /\ s # t
                /\ \/ Reaches(gt, s, t)
                   \/ CompareHeads(s, t) > 0 /\ Dominates(gt, s, t)
                   \/ /\ CompareHeads(s, t) = 0 /\ Len(s.args) = Len(t.args)
                      /\ Dominates(gt, s, t) /\ FirstAbove(gt, s, t)
    IN  gt[<<a, b>>]

\* compare_knuth_bendix_weight_order.
CompareWeights(a, b) ==
    LET compare[p \in Terms \X Terms] ==
            IF p[1] = p[2] THEN 0
            ELSE Then(Sign(Weight(p[1]), Weight(p[2])),
                 Then(CompareHeads(p[1], p[2]),
                 Then(CompareChildren(compare, p[1], p[2]),
                      CanonicalCompare(p[1], p[2]))))
    IN  compare[<<a, b>>]

\* compare_rewrite_terms: -1, 0 or 1.
CompareRewriteTerms(a, b) ==
    LET Path(above, below) == IF above # below THEN IF above THEN 1 ELSE -1 ELSE CompareWeights(a, b)
    IN  IF a = b THEN 0 ELSE Path(TermOrderGt(a, b), TermOrderGt(b, a))

IsStrictRewriteReduction(before, after) == CompareRewriteTerms(after, before) < 0

\* rewrite_rule_is_oriented, for each rule of the list.
IsStronglyNormalizing(rules) ==
    \A i \in DOMAIN rules : IsStrictRewriteReduction(rules[i].pattern, rules[i].replacement)
=============================================================================
