----------------------------- MODULE MCAstArena -----------------------------
(***************************************************************************)
(* A small arena: a hot constant and two symbols of equal hash, so that    *)
(* with two shards they share one, and a chain limit that two of them      *)
(* already exceed.                                                         *)
(***************************************************************************)
EXTENDS AstArena

CONSTANTS zero, x, y

MCKeys == {zero, x, y}
MCHotKeys == {zero}
MCHash == [k \in MCKeys |-> IF k = zero THEN 0 ELSE 1]
=============================================================================
