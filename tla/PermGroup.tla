----------------------------- MODULE PermGroup -----------------------------
(***************************************************************************)
(* The permutation groups behind the Galois computations: the closure of   *)
(* some generators, the deterministic Schreier-Sims chain that gives the   *)
(* order of a group and its members without listing them, and the systems  *)
(* of blocks of a transitive group.  A permutation of 0 .. n - 1 is a      *)
(* function.  A loop is a function of what its next round starts with.     *)
(***************************************************************************)
EXTENDS Integers, Sequences, FiniteSets

Points(n)       == 0 .. n - 1
Mappings(n)     == [Points(n) -> Points(n)]
Symmetric(n) == {p \in Mappings(n) : \A x, y \in Points(n) : p[x] = p[y] => x = y}

Identity(n)   == [i \in Points(n) |-> i]
Compose(a, b) == [i \in DOMAIN b |-> a[b[i]]]
Undone(a)     == [y \in DOMAIN a |-> CHOOSE x \in DOMAIN a : a[x] = y]

Moved(p)  == {x \in DOMAIN p : p[x] # x}
Lowest(S) == CHOOSE x \in S : \A y \in S : x <= y

\* PermGroup::closure: products of generators from the identity on.
Closure(n, gens) ==
    LET closed[found \in SUBSET Mappings(n)] ==
            LET more == found \cup {Compose(gens[i], p) : i \in DOMAIN gens, p \in found}
            IN  IF more = found THEN found ELSE closed[more]
    IN  closed[{Identity(n)}]

-----------------------------------------------------------------------------
(* The chain: its base and its strong generators, and per level the         *)
(* generators that fix the base points before it, with the orbit of its     *)
(* own base point: reps[x] takes the base point to x, and orbit holds the   *)
(* points in the order they are found.                                      *)

\* The image of a point of the orbit under a generator joins it.
Via(o, x, g) ==
    IF g[x] \in DOMAIN o.reps THEN o
    ELSE [orbit |-> Append(o.orbit, g[x]),
          reps  |-> [y \in DOMAIN o.reps \cup {g[x]} |->
                        IF y = g[x] THEN Compose(g, o.reps[x]) ELSE o.reps[y]]]

ViaAll(o, x, gens) ==
    LET via[j \in 0 .. Len(gens)] == IF j = 0 THEN o ELSE Via(via[j - 1], x, gens[j])
    IN  via[Len(gens)]

\* orbit_transversal: a round for each point of the orbit, of which there are at most n.
Orbit(n, b, gens) ==
    LET round[k \in 0 .. n] ==
            IF k = 0 THEN [orbit |-> <<b>>, reps |-> [x \in {b} |-> Identity(n)]]
            ELSE LET o == round[k - 1]
                 IN  IF k > Len(o.orbit) THEN o ELSE ViaAll(o, o.orbit[k], gens)
    IN  round[n]

\* fixes_prefix, and the generators of a level.
Fixes(s, base, level) == \A t \in 1 .. level - 1 : s[base[t]] = base[t]
LevelGenerators(base, strong, level) ==
    LET kept[j \in 0 .. Len(strong)] ==
            IF j = 0 THEN <<>>
            ELSE IF Fixes(strong[j], base, level) THEN Append(kept[j - 1], strong[j])
            ELSE kept[j - 1]
    IN  kept[Len(strong)]

\* rebuild.
Level(n, base, strong, i) ==
    LET gens == LevelGenerators(base, strong, i)
        o    == Orbit(n, base[i], gens)
    IN  [gens |-> gens, orbit |-> o.orbit, reps |-> o.reps]
Rebuilt(n, base, strong) ==
    [base |-> base, strong |-> strong,
     levels |-> [i \in 1 .. Len(base) |-> Level(n, base, strong, i)]]

\* strip, sift, from a level on: where h leaves the chain, and what is left of it there.
Strip(chain, from, h) ==
    LET strip[p \in (1 .. Len(chain.base) + 1) \X [DOMAIN h -> DOMAIN h]] ==
            IF p[1] > Len(chain.base) THEN [level |-> p[1], residue |-> p[2]]
            ELSE LET reps == chain.levels[p[1]].reps
                     x    == p[2][chain.base[p[1]]]
                 IN  IF x \notin DOMAIN reps THEN [level |-> p[1], residue |-> p[2]]
                     ELSE strip[<<p[1] + 1, Compose(Undone(reps[x]), p[2])>>]
    IN  strip[<<from, h>>]

\* Fault: a generator that fixes the base does not extend it.
AddWithoutBase(base, strong, r) == [base |-> base, strong |-> Append(strong, r)]

\* add_strong: the base must not be fixed by any strong generator.
AddStrong(base, strong, r) ==
    [base   |-> IF \E i \in DOMAIN base : r[base[i]] # base[i] THEN base
                ELSE Append(base, Lowest(Moved(r))),
     strong |-> Append(strong, r)]

\* The Schreier generators of a level, in the order they are examined.
SchreierGenerators(level) ==
    LET m == Len(level.gens)
        at(k) == LET x == level.orbit[((k - 1) \div m) + 1]
                     s == level.gens[((k - 1) % m) + 1]
                 IN  Compose(Undone(level.reps[s[x]]), Compose(s, level.reps[x]))
    IN  [k \in 1 .. m * Len(level.orbit) |-> at(k)]

\* The generators but for the identity become strong.
Started(gens) ==
    LET start[j \in 0 .. Len(gens)] ==
            IF j = 0 THEN [base |-> <<>>, strong |-> <<>>]
            ELSE IF Moved(gens[j]) = {} THEN start[j - 1]
            ELSE AddStrong(start[j - 1].base, start[j - 1].strong, gens[j])
    IN  start[Len(gens)]

\* Where the verification may be: at a level of the chain, or past the first one.
Progress(n) ==
    {s \in [base : Seq(Points(n)), strong : Seq(Symmetric(n)), level : Nat] :
        s.level <= Len(s.base)}

\* The verification of the levels from the i-th up to the first: a Schreier generator
\* that does not strip to the identity becomes strong, and the verification goes on from
\* the level where it left the chain.
Verified(n, start) ==
    LET verified[s \in Progress(n)] ==
            LET chain    == Rebuilt(n, s.base, s.strong)
                schreier == SchreierGenerators(chain.levels[s.level])
                stripped == [k \in DOMAIN schreier |-> Strip(chain, 1, schreier[k])]
                left     == {k \in DOMAIN schreier : Moved(stripped[k].residue) # {}}
                first    == stripped[Lowest(left)]
                after    == AddStrong(s.base, s.strong, first.residue)
            IN  IF s.level = 0 THEN chain
                ELSE IF left = {} THEN verified[[s EXCEPT !.level = s.level - 1]]
                ELSE verified[[base |-> after.base, strong |-> after.strong, level |-> first.level]]
    IN  verified[[base |-> start.base, strong |-> start.strong, level |-> Len(start.base)]]

\* BsgsGroup::build, order and contains.
Build(n, gens) == Verified(n, Started(gens))

Order(chain) ==
    LET product[i \in 0 .. Len(chain.base)] ==
            IF i = 0 THEN 1 ELSE product[i - 1] * Cardinality(DOMAIN chain.levels[i].reps)
    IN  product[Len(chain.base)]
HasMember(chain, p) == Moved(Strip(chain, 1, p).residue) = {}

\* The orbit of the point 0 is everything.
IsTransitive(n, gens) == DOMAIN Orbit(n, 0, gens).reps = Points(n)

-----------------------------------------------------------------------------
(* Systems of blocks: the number of the block of each point.                *)

\* unite: the smaller root is kept; the pair waits for its turn if it was apart.
United(s, x, y) ==
    LET roots == {s.root[x], s.root[y]}
    IN  IF s.root[x] = s.root[y] THEN s
        ELSE [root |-> [p \in DOMAIN s.root |->
                           IF s.root[p] \in roots THEN Lowest(roots) ELSE s.root[p]],
              work |-> Append(s.work, <<x, y>>)]

\* Fault: the images of a united pair are not united in their turn.
UniteImagesOnce(s, gens) == [root |-> s.root, work |-> SubSeq(s.work, 1, Len(s.work) - 1)]

\* One pair of the worklist, the last: the images of its points under each generator
\* are united.
UniteImages(s, gens) ==
    LET u == s.work[Len(s.work)][1]
        v == s.work[Len(s.work)][2]
        rest == SubSeq(s.work, 1, Len(s.work) - 1)
        united[j \in 0 .. Len(gens)] ==
            IF j = 0 THEN [root |-> s.root, work |-> rest]
            ELSE United(united[j - 1], gens[j][u], gens[j][v])
    IN  united[Len(gens)]

Spread(n, gens, start) ==
    LET spread[s \in [root : Mappings(n), work : Seq(Points(n) \X Points(n))]] ==
            IF s.work = <<>> THEN s.root ELSE spread[UniteImages(s, gens)]
    IN  spread[start]

\* congruence_closure of 0 ~ beta: the blocks are numbered by their first points.
CongruenceClosure(n, gens, beta) ==
    LET root == Spread(n, gens, United([root |-> Identity(n), work |-> <<>>], 0, beta))
    IN  [p \in Points(n) |-> Cardinality({q \in Points(n) : root[q] = q /\ q < root[p]})]

Blocks(sys) == {sys[p] : p \in DOMAIN sys}

\* minimal_block_systems of a transitive group: the system of beta, once, when every
\* other point of the block of 0 gives the same one.
MinimalBlockSystems(n, gens) ==
    LET all == [beta \in 1 .. n - 1 |-> CongruenceClosure(n, gens, beta)]
    IN  {all[beta] : beta \in {beta \in 1 .. n - 1 :
            /\ Cardinality(Blocks(all[beta])) > 1
            /\ \A gamma \in 1 .. n - 1 :
                   all[beta][gamma] = 0 => gamma >= beta /\ all[gamma] = all[beta]}}

IsPrimitive(n, gens) ==
    \A beta \in 1 .. n - 1 : Cardinality(Blocks(CongruenceClosure(n, gens, beta))) <= 1
=============================================================================
