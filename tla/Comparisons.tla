---------------------------- MODULE Comparisons ----------------------------
(***************************************************************************)
(* A client of the orders: it takes a term, and the property judges how    *)
(* the term compares with all the others.                                  *)
(***************************************************************************)
EXTENDS TermOrder

CONSTANT Compared       \* the terms to compare

ASSUME ComparedAssumption == Compared \subseteq Terms

VARIABLE chosen

OInit == chosen = <<>>

ChooseTerm == chosen = <<>> /\ \E t \in Compared : chosen' = <<t>>

OSpec == OInit /\ [][ChooseTerm]_chosen

-----------------------------------------------------------------------------

AboveByPath   == [a \in Compared |-> {b \in Compared : TermOrderGt(a, b)}]
AboveByWeight == [a \in Compared |-> {b \in Compared : CompareWeights(a, b) > 0}]
AboveInCanon  == [a \in Compared |-> {b \in Compared : CanonicalCompare(a, b) > 0}]

\* Two terms that differ at most in the values of their decimals and complex numbers.
Indistinct(a, b) ==
    LET same[p \in Terms \X Terms] ==
            /\ p[1].kind = p[2].kind /\ Len(p[1].args) = Len(p[2].args)
            /\ p[1].kind \in Valueless \/ p[1].tag = p[2].tag
            /\ \A i \in DOMAIN p[1].args : same[<<p[1].args[i], p[2].args[i]>>]
    IN  same[<<a, b>>]

\* Each of the three orders the rewriter is built from is irreflexive and transitive.  The
\* weight order and the canonical order decide between two terms unless these differ only
\* in the values of decimals and complex numbers, and then neither decides: operands are
\* sorted by them, and a comparison that does not decide is taken for equality.
OrdersAreStrict == chosen # <<>> =>
    LET t == chosen[1]
    IN  /\ \A above \in {AboveByPath, AboveByWeight, AboveInCanon} :
               t \notin above[t] /\ \A b \in above[t] : above[b] \subseteq above[t]
        /\ \A above \in {AboveByWeight, AboveInCanon} :
               \A b \in Compared : (b \in above[t]) # (t \in above[b]) <=> ~Indistinct(b, t)
=============================================================================
