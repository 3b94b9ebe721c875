------------------------------- MODULE RuleNet -------------------------------
(***************************************************************************)
(* The discrimination net, which proposes rules for a tree: buckets of     *)
(* rules by kind, by function name, and those whose pattern is a wildcard. *)
(* A client inserts its rules in any order and clears the net.  A rule is  *)
(* [pattern, replacement, integers]: its condition holds when the names in *)
(* integers are bound to integers.  The vector that lookup returns is a    *)
(* value here; in the code it may be one that the next lookup overwrites.  *)
(***************************************************************************)
EXTENDS Patterns

CONSTANTS
    Rulebook,       \* the rules of the client
    Probes,         \* the trees that are looked up
    MaxRules        \* bound: the rules in the net

ASSUME RulebookAssumption ==
    /\ Rulebook \subseteq [pattern : Terms, replacement : Terms, integers : SUBSET Int]
    /\ Probes \subseteq Terms /\ MaxRules \in Nat

VARIABLES
    net,
    inserted        \* history: the rules inserted since the net was empty, in order

nvars == <<net, inserted>>

EmptyNet == [kinds |-> [k \in DOMAIN TermKindRank |-> <<>>],
             calls |-> [f \in {} |-> <<>>], universal |-> <<>>, size |-> 0]

Bucket(n, f) == IF f \in DOMAIN n.calls THEN n.calls[f] ELSE <<>>

\* insert, into exactly one bucket.
Insert(n, rule) ==
    LET p == rule.pattern
    IN  CASE IsWildcard(p) -> [n EXCEPT !.universal = Append(@, rule), !.size = @ + 1]
          [] ~IsWildcard(p) /\ p.kind = "FuncCall" ->
               [n EXCEPT !.calls = [f \in DOMAIN @ \cup {p.tag} |->
                                       IF f = p.tag THEN Append(Bucket(n, f), rule) ELSE @[f]],
                         !.size = @ + 1]
          [] OTHER -> [n EXCEPT !.kinds[p.kind] = Append(@, rule), !.size = @ + 1]

Specific(n, e) == IF e.kind = "FuncCall" THEN Bucket(n, e.tag) ELSE n.kinds[e.kind]

\* Fault: the call has a bucket of its own, so the universal rules are left out.
LookupSpecific(n, e) ==
    IF e.kind = "FuncCall" /\ Specific(n, e) # <<>> THEN Specific(n, e)
    ELSE Specific(n, e) \o n.universal

\* lookup: the specific rules first, then the universal ones.
Lookup(n, e) == Specific(n, e) \o n.universal

NInit == net = EmptyNet /\ inserted = <<>>

InsertRule ==
    /\ Len(inserted) < MaxRules
    /\ \E rule \in Rulebook :
          /\ \A i \in DOMAIN inserted : inserted[i] # rule
          /\ net' = Insert(net, rule)
          /\ inserted' = Append(inserted, rule)

\* clear.
ClearNet == net' = EmptyNet /\ inserted' = <<>>

NNext == InsertRule \/ ClearNet

NSpec == NInit /\ [][NNext]_nvars

-----------------------------------------------------------------------------

\* The rule at a was inserted before the rule at b, of two in one bucket; else the
\* second is universal.
Precedes(a, b) ==
    IF IsWildcard(a.pattern) <=> IsWildcard(b.pattern)
    THEN \E i, j \in DOMAIN inserted : i < j /\ inserted[i] = a /\ inserted[j] = b
    ELSE IsWildcard(b.pattern)

\* The net may propose too many rules for a tree but never leaves out one that would
\* match there, nor proposes one that was cleared; it proposes each once, those of a
\* wildcard last and the others in the order of their insertion.
NetMissesNothing == net.size = Len(inserted) /\ \A t \in Probes :
    LET proposed == Lookup(net, t)
    IN  /\ \A i \in DOMAIN inserted : MatchPattern(t, inserted[i].pattern, {}).ok =>
               \E k \in DOMAIN proposed : proposed[k] = inserted[i]
        /\ \A k \in DOMAIN proposed : \E i \in DOMAIN inserted : inserted[i] = proposed[k]
        /\ \A i, k \in DOMAIN proposed : i < k => Precedes(proposed[i], proposed[k])
=============================================================================
