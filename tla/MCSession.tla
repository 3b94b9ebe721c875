----------------------------- MODULE MCSession -----------------------------
(***************************************************************************)
(* A small session.  For the caches and the budget: two unrelated facts    *)
(* that may each be the first the client states, so that one revision can  *)
(* stand for different facts; they differ in their subject only, so the    *)
(* subjects may be exchanged.  For the conditions: two of them, and a      *)
(* stronger one that takes the place of both and may be assumed.           *)
(***************************************************************************)
EXTENDS Session

CONSTANTS x, y, e1, e2, f1

MCFacts  == {[kind |-> "Real", subject |-> s] : s \in {x, y}}
Subjects == Permutations({x, y})

MCAssumable  == {[kind |-> "Positive", subject |-> x]}
MCConditions == MCAssumable \cup {[kind |-> k, subject |-> x] : k \in {"NonNegative", "NonZero"}}
=============================================================================
