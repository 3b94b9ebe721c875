-------------------------- MODULE MCRelationProver --------------------------
(***************************************************************************)
(* Two symbols, the number one and zero; three facts in all, about pairs   *)
(* chosen so that chains, cycles, parallel edges, the bridge from zero and *)
(* the comparison of numbers all occur.                                    *)
(***************************************************************************)
EXTENDS RelationProver

CONSTANTS a, b, zero, one

MCValue == [n \in {zero, one} |-> IF n = one THEN 1 ELSE 0]
MCValues == -3 .. 3
MCComparable == {<<a, zero>>, <<b, a>>, <<a, b>>, <<zero, b>>, <<one, a>>}
MCBounds == {<<zero, zero>>, <<zero, one>>}
=============================================================================
