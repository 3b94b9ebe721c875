---------------------------- MODULE InternTable ----------------------------
(***************************************************************************)
(* What the AST arena promises the rest of the engine: hash-consing.  Each *)
(* structural key (the kind and the fields of a node) has at most one      *)
(* canonical node, every caller that asks for the key while the table      *)
(* lives is handed that node, and the table forgets only as a whole (a     *)
(* reset, or a collection that keeps the reachable keys at new addresses). *)
(* The engine compares expressions by pointer on the strength of this.     *)
(***************************************************************************)
CONSTANTS Keys, Addrs, Null

VARIABLES interned,  \* the canonical node of each key, Null when it has none
          handed     \* the <<key, node>> pairs given to callers since the last Forget

vars == <<interned, handed>>

Injective(f) == \A k, m \in Keys : f[k] = f[m] /\ f[k] # Null => k = m

Init == interned = [k \in Keys |-> Null] /\ handed = {}

(* A node becomes the canonical one of a key that had none. *)
Publish(k) ==
    /\ interned[k] = Null
    /\ \E a \in Addrs \ {interned[m] : m \in Keys} :
         /\ interned' = [interned EXCEPT ![k] = a]
         /\ handed' \in {handed, handed \cup {<<k, a>>}}

(* A caller is given the canonical node. *)
Answer(k) ==
    /\ interned[k] # Null
    /\ handed' = handed \cup {<<k, interned[k]>>}
    /\ UNCHANGED interned

(* Every pointer given out becomes void; some keys may keep a node. *)
Forget ==
    /\ interned' \in [Keys -> Addrs \cup {Null}]
    /\ Injective(interned')
    /\ handed' = {}

Next ==
    \/ \E k \in Keys : Publish(k) \/ Answer(k)
    \/ Forget

Spec == Init /\ [][Next]_vars
=============================================================================
