--------------------------- MODULE SideConditions ---------------------------
(***************************************************************************)
(* The set of domain conditions of cas::symbolic::SideConditionSet: the    *)
(* conditions in insertion order, without duplicates and without a         *)
(* condition that a stronger member covers, up to a maximum size.  A       *)
(* subject is any value; a condition is a kind and a subject.              *)
(***************************************************************************)
EXTENDS Naturals, Sequences, SequencesExt

CONSTANTS
    Conditions,         \* the DomainConditions a rewrite may take
    MaxConds            \* max_side_conditions

Kinds == {"NonZero", "Positive", "NonNegative", "Real", "IntegerVal", "PrincipalBranch"}

ASSUME ConditionsAssumption ==
    /\ \A c \in Conditions : c.kind \in Kinds /\ c = [kind |-> c.kind, subject |-> c.subject]
    /\ MaxConds \in Nat \ {0}

IsStrongerAndCovers(stronger, c) ==
    /\ stronger.kind = "Positive"
    /\ c.kind \in {"NonZero", "NonNegative"}
    /\ stronger.subject = c.subject

\* The set already says c, in these words or in stronger ones.
Held(items, c) ==
    \E i \in 1..Len(items) : items[i] = c \/ IsStrongerAndCovers(items[i], c)

\* The members of s that are in keep, in their order: SelectSeq for a set, and
\* as a function, which a proof can unfold.
Select(s, keep) ==
    LET chosen[i \in 0..Len(s)] ==
            IF i = 0 THEN <<>>
            ELSE IF s[i] \in keep THEN Append(chosen[i - 1], s[i]) ELSE chosen[i - 1]
    IN  chosen[Len(s)]

WithoutWeaker(items, c) == Select(items, {d \in Conditions : ~IsStrongerAndCovers(c, d)})

\* Fault: the size is tested after the insertion it should prevent.
RefusedTooLate(items, c) == ~Held(items, c) /\ Len(WithoutWeaker(items, c)) > MaxConds

\* The two outcomes of add: refused (false), and the set it leaves behind.
Refused(items, c) == ~Held(items, c) /\ Len(WithoutWeaker(items, c)) >= MaxConds

Add(items, c) ==
    IF Held(items, c) THEN items
    ELSE IF Refused(items, c) THEN WithoutWeaker(items, c)
    ELSE Append(WithoutWeaker(items, c), c)

\* merge adds the members of other in order and stops at the first refusal.
Merge(items, other) ==
    LET after[i \in 0..Len(other)] ==
            IF i = 0 THEN [items |-> items, ok |-> TRUE]
            ELSE LET acc == after[i - 1] IN
                 [items |-> IF acc.ok THEN Add(acc.items, other[i]) ELSE acc.items,
                  ok    |-> acc.ok /\ ~Refused(acc.items, other[i])]
    IN  after[Len(other)].items

\* The members that were not there at the mark.
Since(items, mark) == Select(items, Conditions \ Range(mark))

=============================================================================
