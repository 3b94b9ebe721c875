------------------------------ MODULE Patterns ------------------------------
(***************************************************************************)
(* Pattern matching modulo the order of the operands of sums and products. *)
(* What the wildcards are bound to is a set of pairs of a name and a tree. *)
(* A match that fails is NoMatch: what it bound before it failed is left   *)
(* out.                                                                    *)
(***************************************************************************)
EXTENDS TermOrder

Bindings == SUBSET (Int \X Terms)

\* The bindings of one wildcard: none or one.
Named(bound, name) == {b \in bound : b[1] = name}

NoMatch == [ok |-> FALSE, bound |-> {}, taken |-> {}]
Match(bound, taken) == [ok |-> TRUE, bound |-> bound, taken |-> taken]

Associative == {"Sum", "Product"}

\* Some patterns as they are tried: heaviest first.
HeaviestFirst(patterns) ==
    LET places  == DOMAIN patterns
        weighed == {<<Weight(patterns[i]), i>> : i \in places}
        Before(p, q) == p[1] > q[1] \/ (p[1] = q[1] /\ p[2] < q[2])
        order   == CHOOSE o \in [places -> weighed] :
                       \A i, j \in places : i < j => Before(o[i], o[j])
    IN  [i \in places |-> patterns[order[i][2]]]

Tried(kind, patterns) == IF kind \in Associative THEN HeaviestFirst(patterns) ELSE patterns

SameRoot(e, p) == e.kind = p.kind /\ e.tag = p.tag /\ Len(e.args) = Len(p.args)

\* A bound wildcard matches what it is bound to.
MatchWildcard(e, name, bound) ==
    IF Named(bound, name) = {} THEN Match(bound \cup {<<name, e>>}, {})
    ELSE IF Named(bound, name) = {<<name, e>>} THEN Match(bound, {}) ELSE NoMatch

\* match_sequence_ac_internal, the lengths apart, and the loops over other operands: a
\* pattern takes the first free operand, or the one at its own place, that it matches
\* and that lets the later patterns match; a match inside an operand is not reconsidered.
TakeOperands(match, kind, es, patterns, bound) ==
    LET ps == Tried(kind, patterns)
        take[q \in (1 .. Len(ps) + 1) \X Bindings \X SUBSET DOMAIN es] ==
            LET j       == q[1]
                Here(k) == match[<<es[k], ps[j], q[2]>>]
                Rest(k) == take[<<j + 1, Here(k).bound, q[3] \cup {k}>>]
                free    == IF kind \in Associative THEN DOMAIN es \ q[3] ELSE {j}
                good    == {k \in free : Here(k).ok /\ Rest(k).ok}
            IN  IF j > Len(ps) THEN Match(q[2], q[3])
                ELSE IF good = {} THEN NoMatch ELSE Rest(Least(good))
    IN  take[<<1, bound, {}>>]

\* match_pattern_impl.
Matching[q \in Terms \X Terms \X Bindings] ==
    IF IsWildcard(q[2]) THEN MatchWildcard(q[1], q[2].tag, q[3])
    ELSE IF SameRoot(q[1], q[2]) THEN TakeOperands(Matching, q[1].kind, q[1].args, q[2].args, q[3])
    ELSE NoMatch

MatchPattern(e, p, bound) == Matching[<<e, p, bound>>]

\* match_sequence_ac_internal for a part of a sum or of a product: more operands than
\* patterns leave some untaken.
MatchOperands(e, p) ==
    IF Len(e.args) < Len(p.args) THEN NoMatch
    ELSE TakeOperands(Matching, e.kind, e.args, p.args, {})
=============================================================================
