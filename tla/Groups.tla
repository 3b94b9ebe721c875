------------------------------- MODULE Groups -------------------------------
(***************************************************************************)
(* A client of the permutation groups: it takes generators, one after the  *)
(* other, and the properties judge what is computed from them.             *)
(***************************************************************************)
EXTENDS PermGroup

CONSTANTS Candidates,       \* the permutations to take
          MaxGenerators     \* bound

ASSUME CandidatesAssumption ==
    /\ \A p \in Candidates :
          /\ IsFiniteSet(DOMAIN p) /\ DOMAIN p # {}
          /\ p \in Symmetric(Cardinality(DOMAIN p))
    /\ MaxGenerators \in Nat

VARIABLE generators

GInit == generators = <<>>

\* The generators of a group have one degree.
TakeGenerator ==
    /\ Len(generators) < MaxGenerators
    /\ \E p \in Candidates :
          /\ generators # <<>> => DOMAIN p = DOMAIN generators[1]
          /\ generators' = Append(generators, p)

GSpec == GInit /\ [][TakeGenerator]_generators

-----------------------------------------------------------------------------

Degree == Cardinality(DOMAIN generators[1])

\* The chain has the order of the group that the generators generate and recognises
\* exactly its elements: no Schreier generator escaped the verification.
ChainIsExact == generators # <<>> =>
    \A elements \in {Closure(Degree, generators)}, chain \in {Build(Degree, generators)} :
        /\ Order(chain) = Cardinality(elements)
        /\ \A p \in Candidates : DOMAIN p = DOMAIN generators[1] =>
               (HasMember(chain, p) <=> p \in elements)

\* The partitions of the points, their blocks numbered by their first points.
Partitions(n) ==
    {f \in Mappings(n) :
        \A p \in Points(n) : \A b \in 0 .. f[p] : \E q \in 0 .. p : f[q] = b}

\* The partitions into blocks, neither all of the points nor one point each, that the
\* generators keep.
Systems(n, gens) ==
    {f \in Partitions(n) :
        /\ Cardinality(Blocks(f)) \in 2 .. n - 1
        /\ \A i \in DOMAIN gens : \A p, q \in Points(n) :
               f[p] = f[q] => f[gens[i][p]] = f[gens[i][q]]}

Finer(f, h) == \A p, q \in DOMAIN f : f[p] = f[q] => h[p] = h[q]

\* The systems found for a transitive group are the minimal ones among all partitions
\* the generators keep, and there are none exactly when the group is primitive.
BlocksAreMinimal == generators # <<>> /\ IsTransitive(Degree, generators) =>
    \A systems \in {Systems(Degree, generators)} :
        /\ MinimalBlockSystems(Degree, generators) =
               {f \in systems : \A h \in systems : Finer(h, f) => h = f}
        /\ IsPrimitive(Degree, generators) <=> systems = {}
=============================================================================
