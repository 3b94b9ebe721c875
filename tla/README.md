# A specification of the REAL CAS engine

The engine is a symbolic computer algebra library in C++20: expressions are immutable, hash-consed
nodes of an arena; a session object (`cas::symbolic::CASContext`) keeps assumptions, variables, memo
caches and budgets; simplification, calculus and polynomial algebra are functions of an expression and
a session. This directory specifies the stateful core in TLA+, checks it with TLC on small instances,
and proves the main invariants for all instances with TLAPS.

## The system: inventory

| Component | State | Operations | Who it interacts with | What is hard |
|---|---|---|---|---|
| AST arena (`ast_arena.hpp`, `ast.cpp`) | intern tables and mutexes per shard, hot cells (0, 1, -1, constants), blocks, node count, budget, two sticky flags | `make`, `reset`, `configure_shards`, budget setters, move | every component builds nodes with it; worker threads share it | lock order, lock-free reads, sticky flags, refused nodes, moves |
| Assumptions (`assumptions_*.cpp`) | sign sets, ranges, relation graph, revision | `assume_*`, `is_greater*`, `check_consistency` | the simplifier asks it; the caches are keyed on its revision | order-dependent graph search, cycles, zero as a null pointer |
| Session (`context_core.cpp`, `symbolic.hpp`) | three memo caches, last revision, operation flag, visit counter, budgets, accumulator of side conditions, hook, trace | `simplify`, `substitute`, setters, `clear_*`, `collect_garbage` | called by everything, calls the simplifier and the hook, which call it back | nesting, failures in the middle, stale entries, who clears what |
| Side conditions (`side_conditions.cpp`) | the conditions of a call, in order | `add`, `merge`, `since`, rollback | session, simplifier, integrator | subsumption, the size limit, abandoned attempts |
| Simplifier (`src/symbolic/simplify_*`) | depth and cycle guards, visit count of the session | `simplify` | arena, assumptions, session | termination, budget, 16k lines of rules |
| Rewrite engine (`src/rewrite`, `symbolic/rewrite_*`, `term_order*`) | rule index (discrimination net) | match, rewrite, compare | simplifier | operands lost in a partial match, orders that must be strict, loops |
| Integrator (`src/calculus/integrate*`) | cache, depth guard | `integrate`, a cascade of attempts | session, algebra | attempts that fail after taking conditions, shared budget |
| Differentiation, limits, series, ODE, transforms | derivative cache | pure functions of a session | session | the derivative cache |
| Garbage collection (`context_core.cpp`) | none of its own | `collect_garbage` | session, arena, client roots | every pointer has to be replaced, the accounting is kept |
| Polynomial algebra, Groebner bases | none | gcd, factor, resultant, bases | session budget | algorithmic correctness |
| Galois groups (`perm_*`, `galois_*`) | a process-wide memo of subgroup lattices | closure, chain, blocks | polynomial algebra | restarts of the verification after a rebuild |
| BigInt, Rational | thread-local limb budget and flag | arithmetic | all | corrections that are rarely needed, a zero in place of a product |
| LRU cache container | map, recency list, limit | `get`, `put`, `set_max_size`, `clear` | session, collection | eviction, two structures that must agree |
| Lexer, parser, formatter | none | `parse`, `format` | client | precedence and brackets |
| C API, linear algebra, numeric, statistics | handles | pure or thin | session | |

What makes them correct: the arena keeps one pointer per expression (expressions are compared by
pointer); the prover never says yes to what does not follow; a cached result belongs to the
assumptions in force; a budget is never widened and always restored; a result is reported with
exactly the conditions it was obtained under. `PROJECT.json` lists each component with its status and,
under "hazards", each place in the code where one of these could go wrong.

## Modules

    InternTable        what an arena promises             (abstract specification)
    AstArena           the arena; refines InternTable     MCAstArena          AstArena_proofs
    RelationProver     assumptions and order prover       MCRelationProver    RelationProver_proofs
    SideConditions     the set of conditions (operators)                       Session_proofs
    Session            the session; EXTENDS SideConditions MCSession           Session_proofs
    LruPolicy          what a memo cache promises          (abstract specification)
    LruCache           the container; refines LruPolicy    MCKernels           LruCache_proofs
    Collector          the session's memory and collection MCCollector         Collector_proofs
    Expr, TermOrder    terms and their orders              MCKernels           Kernels_proofs
    Comparisons        a client of TermOrder               MCKernels           Kernels_proofs
    Patterns           matching with backtracking          MCKernels           Kernels_proofs
    RuleNet            the net of rules and a client       MCKernels           Kernels_proofs
    RewriteEngine      application, strategies             MCKernels
    BigInt, Gcd        products, divisions and gcds        MCKernels           Kernels_proofs
    Arithmetic         a client of both                    MCKernels           Kernels_proofs
    PermGroup          permutation groups and blocks       MCKernels           Groups_proofs
    Groups             a client of PermGroup               MCKernels           Groups_proofs
    Syntax             parser and text formatter           MCKernels, MCTextFormat
    Recursion          induction and recursion, for the proofs

**AstArena.** One action per step of `make` (the fast path, the shard lock, the search, the
allocation lock, the allocation, the check of the flags, the hot cell, the insertion), of `reset` (each
shard lock, the allocation lock, the destruction of the nodes, the tables, each hot cell, the counters, each unlock), and
one per operation of the owner. The lock-free read is two steps: the load of a hot cell (`FastPathLoad`) and the return of
what was loaded (`FastPathReturn`). No lock orders them with a reset, and in the code as in the model a reader whose load and
return are not both before the destruction, or both after the cell was cleared, is given a destroyed node. `overtaken` is the history
of these reads: nothing is promised of them, and `HandedUnique` speaks of all others. The contract of the project agrees: `reset`
is intentionally destructive and has no caller in `src/` (`TASKLIST_MASTER.md:186`).
`pc[t]` is where thread t is; `shard_mutex` and `alloc_mutex` name their holders; `mem` maps an address
to the structural key of the node there; `handed` is a history of the pointers returned since the last
reset destroyed the nodes. A key stands for the kind and fields of a node, with its hash; all nodes have one size and a
block holds `BlockNodes` of them; the bucket a node lands in may hold any nodes of its shard besides
those of its hash. The flag read at `ast_arena.hpp:85` is a step of its own: writes of other shards may
come before it. A collection is one action, with every thread outside the arena, as its callers need
it to be. It moves the nodes and tables and leaves the byte count, the budget and the flags of the
target, which the move assignment does not mention. The new arena was filled through `make`, so that its own hash-DoS flag may
have gone up on the way: what was asked for later is allocated and refused (`orphans` in `Collect`), and its copy is null.

**RelationProver.** The client states facts; each mutator is an action. A predicate is a call:
`Ask` makes the tests that precede the search, and the loop of `prove_relation` takes one action per
popped entry (`Found`, `Skip`, `Expand`), with its vector as `stack` and its set as `visited`.
`is_greater_equal` falls through to a second, strict search. `check_consistency` is the sign tests and
then one search per atom and per strict edge. Iteration over a hash map is a free choice of order. Expressions are atoms: symbols,
non-zero numbers and zero, whose null pointer is the constant `Zero`. `stated` is the history of the
facts, against which the answers are judged.

**SideConditions / Session.** One client thread; a frame of `stack` is a C++ call in progress, with
the scope objects that its return will destroy: `owns` (it raised the operation flag), `restore` (the
budget its cap replaced), `mark` (the accumulator a rollback restores, or the one `since` is taken
from). `Leave` is every return, good or bad. A computation is left open: it visits nodes (`Visit`, which is
`check_timeout`), takes conditions, calls other operations (`Callees`), and may fail at any point; the
code base throws nothing, so each failure is a returned error. The phases "hook" and "radical" are
the two windows in which a call is in progress and the flag is down: the post-simplify hook, and the
radical test of `mathematically_equal`. `MayCall` holds what calls what: `mathematically_equal` is
called outside operations (summation and ODE code), and the hook simplifies the minimal polynomial of a
`RootOf`, whose own result holds no `RootOf`, so one level of hook is enough. `due`, `hit`, `hooked`, `under`, `visits`,
`client` and `last` are histories: what the frame's work took, whether caches or the hook were
involved, under which facts an entry was computed, what the client set and how its last call ended.
`Reset` is `clear_assumptions` together with `clear_caches`, the contract of `symbolic.hpp:113-114`,
as the golden runner does. Left out: the high-water mark and hints; an interrupt or a wall-clock timeout is a
`Fail`. The trace, the variables, the derivative cache, the cache limit and the modes that bypass the caches are in
`Collector`.

**LruPolicy / LruCache.** The container is a map and a list that separate statements update. `LruCache` keeps both,
with `used`, the time of the last use of each key, as a history; `LruPolicy` knows only the entries, the limit and the
times, and says which entries may be forgotten: the least recently used ones, and no more of them than the limit
asks for. A collection fills a new container in the order of the hash map, so the order of use is lost there (`Rebuild`);
the policy allows it, and it is the only step that may change an order of use without a use.

**Collector.** A pointer is an expression with the number of the arena it points into; a collection makes a new arena
and gives every field of the session its clone. An operation of the session is one step here, with its result
open: `Simplify` (top-level), `Diff` (which simplifies its raw derivative at top level), `Integrate` (which simplifies a
part inside its own operation) and `Fails` (out of memory, anywhere). They store pointers in
the trace, the accumulator, the caches; the client stores them in variables, assumptions and the roots it registers.
`assume_domain(s, Natural)` is the exception (`assumptions_core.cpp:43`): it keeps the address of the caller's own `Symbol`, in no arena
(`Borrowed`), and the caller may destroy that object (`Discard`, `discarded`). A collection reads every target of a relation and
copies it, so that a borrowed pointer is replaced as well; if the object is gone by then, what is copied is whatever the memory holds
(`ghosts`), which is the undefined read of the code. The clones go through `make`, which refuses them once a bucket of the new arena is too long:
then the null that `clone_into_arena` stores at `ast_clone.cpp:152` takes the place of the expression wherever it is kept (`lost`, `Clone`), and keys
that have become one, as nulls do, leave one entry (`Survivors`). In a relation null means zero, so that such a relation reads as one about zero.
`CollectionKeepsAnswers` states what is true in spite of it: no answer is given that was not copied whole, and without a refusal nothing changes.
A cached null is served by `simplify` and `diff`; `integrate` refuses a null before it caches it.
`revised` says that the revision differs from the one the last simplify saw, which then clears the
three caches. `counted` is the byte counter in nodes: the move assignment keeps it while the new arena has been
filled without a budget. The entries that a limit drops are any (`Cut`): `LruCache` says which.

**TermOrder / Comparisons / Patterns / RuleNet / RewriteEngine.** Expressions are trees (`Expr`): one arena interns them, so the comparison of pointers
is equality. `TermOrder` has the canonical order, the path order, the weight order and their combination. The five kinds of literal share
a rank, and `canonical_compare` has no branch for the values of a `DecimalLit` or a `ComplexLit`: two different ones tie (`Valueless`), and so do terms
that differ only there (`Indistinct`). This is stated, not hidden, by `OrdersAreStrict`. In the code, sorting leaves the order of such operands open, and what takes a tie
for equality equates them: factors cancelled at `limit_quotient_d2.cpp:91`, denominators at `limit_helpers.cpp:259`, monomials at `normal_form.hpp:31`.
Each order calls itself on children, and is a function on the terms of at most `MaxHeight` levels or on pairs of them. `Comparisons` is a client that takes a term,
and the property judges how the term compares with all the others.
`Patterns` has the matcher, a function on a term, a pattern and what is bound so far: a pattern of a sum or product takes the first
free operand that it matches and that lets the later patterns match (`TakeOperands`), any other the operand at its own place.
`RuleNet` has the discrimination net under a client that inserts its rules, each once, and clears; `inserted` is a history. What `lookup`
returns is a value there; in the code it may be the scratch vector of the net, which the next `lookup` overwrites, although the
comment in `discrimination_net.hpp` calls it valid until the next `insert`. No code outside the tests looks a rule up yet.
`RewriteEngine` has the instantiation, `TryApplyHere` with its partial matches and its reduction test, and the three strategies.

**BigInt / Gcd / Arithmetic.** A magnitude is a number cut into limbs where the algorithm cuts it: the recursions of Karatsuba, Toom-3
and Burnikel-Ziegler, the estimate, refinement, subtraction and add-back of Algorithm D. The carries of an addition or shift are taken
as exact. Limbs have `LimbBits` bits and the thresholds are constants, so that inputs of a few limbs go through every algorithm.
The recursions are functions: `multiply_magnitude` on pairs of numbers (`Multiply`), with the algorithms as operators over
that function, `bz_div_2by1` on the length of the divisor, the loops of Algorithm D and of the chunks on the number of
rounds. The limb budget is part of a product; a division takes its one product (`bz_div_3by2`) without a budget.
`Gcd` has the binary algorithm, Euclid's and Lehmer's, with its simulated steps in words of two limbs that must not overflow; each loop is a
function of the values its next round starts with. `Arithmetic` is
a client that takes a divisor and then a dividend, and the properties judge what the operations make of the two.

**PermGroup / Groups.** The closure by products, the Schreier-Sims chain with the rebuild of all levels when a
generator is added and the restart of the verification, membership by stripping, and the blocks by union-find closure. Each loop is a
function of what its next round starts with: the verification of a base, some strong generators and a level (`Progress`), the closure
of the permutations found so far, the spreading of a congruence of the blocks and of its worklist. The code refuses more than 20
points; here there may be any number. `Groups` is a client that takes generators one after the other, and the properties judge what is
computed from them.

**Syntax.** The parser from tokens on, as a function of the tokens and a place: the loop of `parse_expr` with its
implicit products, prefix, calls, special forms; the formatter up to the tokens of its text, with its `where` clause for shared
nodes. The grammar it is checked against (`Derivations` in `MCKernels`) is written the other way round, by cutting the
input at its loosest operator.

Small helpers are not listed in the map on their own; they stand for lines of the definition that uses them.

The definitions under a `Fault:` comment are not part of any specification. Each is a variation of the definition
that follows it, of the kind a bug would be; `PROJECT.json` names the property that detects it.

## Runs

| Run | Shows | Size |
|---|---|---|
| `MCAstArena` | type, hash-consing, the inductive invariant, count, budget flag, no deadlock, stability, refinement of `InternTable`, every call returns | 92k states, 60 s |
| `MCAstArenaFlag` | *violated*: the flag is written without the mutex its comment names | |
| `MCRelationProver` | type, soundness of yes, of contradictions, of no, acyclicity, termination | 240k states, 60 s |
| `MCRelationProverChains` | *violated*: a strict chain can be missed | |
| `MCSession` | flag, budget, charging, currency of the simplify cache | 1.4M states, 2 to 3 min |
| `MCSessionConditions` | fresh reports are complete; nothing is reported that was not taken | 1.8M states, 2 to 3 min |
| `MCSessionIntegrals` | *violated*: a cached integral of other assumptions is served | |
| `MCSessionHits` | *violated*: a hit reports fewer conditions than were taken | |
| `MCSessionHook` | *violated*: the hook clears the conditions of its own call | |
| `MCCollector` | no pointer dangles, memory within the budget, caches within the limit, a collection gives no answer it did not copy whole | 47k states, 1 to 2.5 min |
| `MCKernels` | the container's list, limit and refinement of `LruPolicy`; orders, rewriting, net, parser, division, product, gcd, chains and blocks against reference definitions | 300k states, 2 min |
| `MCTextFormat` | *violated*: the text of an expression is not always read back as it | |

Bounds, and why they are enough. *Arena*: two threads, a hot key and two other keys of equal hash,
1 or 2 shards, three addresses, three calls in all, blocks of one node, budgets 0 and 1, chain limit 1. Two threads
reach every race on one shard and on two; three calls allow make, make, reset in every order; a chain
limit of 1 lets the second equal hash raise the flag (128 in the code), and a budget of one block lets the second node
exhaust it. A read of the hot cell and a reset meet in every order of their steps. *Prover*: two symbols, 1 and 0, three facts over five ordered pairs and two ranges; the
missed chain needs three facts, cycles need two, the bridge from zero needs two. Symbols range over
-3..3, which is wide enough: three facts over these atoms that have an integer model have one there. *Session*: one expression and one
integral, three nested calls, budget 2 under a cap of 1, three visits, two revisions and two unrelated facts, so that one
revision number can stand for two facts (they differ in their subject alone, and the run
exchanges them by `SYMMETRY`); its sets of conditions hold one, so that the second is refused. Three nested calls reach the deepest
sequence of owners: a comparison in its radical window, a simplify in its hook, and the simplify of the hook. The conditions run
switches the budget off, has a condition that takes the place of two others, and room for two, so that a set can shrink when it grows. *Collector*: two
interchangeable symbols, one name, memory for two nodes, limits 0 to 2, two collections (the second one sees pointers that are already clones), a chain
limit of 0 (the first copy raises the flag of the new arena and the second may be refused; 128 in the code), and
at most two things kept at once (`MaxKept`, a constraint): any two places where a pointer is kept meet in a state. One thing less is kept
when the session cannot cache, after a collection has left a null, and after the second collection: what these states add is how a single place
is served, replaced or cleared, and the second collection itself is checked from states with two things. The client has one object of a
name at a time that a relation borrows. *Container*: three keys, two values, limits 0 to 3, five uses. *Kernels*: `MCKernels` is one state
machine whose `job` collects an input step by step, and whose invariants evaluate the kernel on a complete input: each accepted
rule of the list on each tree, every pair of compared trees, every token string up to five tokens, divisors and
dividends around the powers of a limb of 3 bits with thresholds of 3 to 5 limbs and the 4096 limbs up to which Toom-3 is used as 5 (the mutants show that the add-back, the Lehmer
steps and the recursions are reached), the generators that `Groups` takes: every pair of
permutations of four points, and the pairs of a chosen list on six (imprimitive and primitive ones), and up to three rules in the net in
every order out of eleven (of each kind of bucket several, calls of one and of two functions, a wildcard); no term that is compared or
weighed has more than 12 levels. The specifications of the arena, prover, session and collector stop only at their bounds; the
owner of an arena, and a client of a prover or session, can always make another call, so deadlock is checked there. `MCKernels` and
`MCTextFormat` end when an input is complete, and there it is not.

Fairness. `AstArena!FairSpec`: weak fairness of the steps of each thread inside the arena (the
operating system keeps running it); none for the calls, and none is needed for locks because the calls are bounded and finitely many
contenders remain. `RelationProver!FairSpec`: weak fairness of the search (it runs on
the caller's thread until it returns). `Session` and `Collector` state no liveness: a computation is left open there and need not end. The rewriter has none either: see "Not modelled".

Known disagreements (under "findings" in `PROJECT.json`). Six, each with its run: the flag outside its mutex;
the strict chain; stale integrals; under-reported hits; conditions cleared by the hook; the text of an expression. TLC stops at
the shortest case of the last one, a factorial written as a minus; the same model gives `(x^y)^z` written
`x^y^z`, `a+(-(b+c))` written `a-b+c`, `(a+b)%c` written `a+b%c`, a power of a negative literal without brackets, the imaginary
unit, and the `where` clause, for which there is no syntax.
`FreshReportIsComplete` and `ReportedWasTaken` are what remains true of the reports: the first
leaves out results that used a cache entry or a simplify of the hook, which the last two disprove.

## Proofs

`AstArena_proofs` proves for all threads, keys, hashes, shards, budgets and calls
(under the ASSUMEs of `AstArena`: finitely many keys, a natural hash, positive shard counts and block sizes,
Null apart from everything else):

- `TypeCorrect`, `ArenaInvariant`: `TypeOK` and `ArenaInv` hold. `ArenaInv` is inductive and is checked
  by TLC as well. Nodes, tables and hot cells do not agree while a reset is at work: `WipedSoFar` says what its steps have left at each place, and
  `TableUnique` and `HotAgrees` what remains true meanwhile (all shards are locked then, so that the tables are seen by the reset alone, and a hot cell may name a destroyed node). `LoadedCanonical` says that
  a loaded pointer is still the one in its cell unless a reset has overtaken it. Hash-consing alone is not inductive: that a second insertion of a key is impossible needs the
  builder to own its shard (`LocksHeld`), its key to be absent from the table since the search
  (`BuildersExclusive`), the table to have one node per key (`TableUnique`), the hot cell and the
  table to agree (`HotAgrees`), what was handed out to be canonical (`HandedCanonical`), and a zero count to mean an
  empty arena (`EmptyMeansEmpty`), on which `configure_shards` relies. The part about hash-consing is `InterningInvariant`;
  the part `OwnersInside` says that whoever holds a shard's lock is inside the code that releases it, and which locks a reset has come to.
- `NeverStuck` (`NoDeadlock`): the holder of `alloc_mutex` can always move, and so can whoever waits for it while it is free. If all wait for
  shards, each of these is held by a reset that waits for a later one (`OwnersInside`), hence by two resets that both own shard 0.
- `CountIsExact` (`SizeCountsLive`): a new node is one cell more, and a collection keeps as many cells as keys, refused ones included, because the
  places of the clones are distinct. While a reset has destroyed the nodes and not come to the counters it is wrong, which nobody sees
  who takes `alloc_mutex`.
- `PointersUnique` (`HandedUnique`, of all reads of a hot cell that no reset overlaps), `NodesNeverMoveUnderMake` (`NodesStable`) and
  `ExhaustionJustified` (`ExhaustedMeansFull`), the first two from the invariant.
- `ArenaImplementsInternTable`: every step is a step of `InternTable` or a stutter, with the canonical
  node of a key read from its hot cell or from its shard's table.

`RelationProver_proofs` proves for any finite set of atoms and any numbers:

- `ProverTypeCorrect`; `ProverSound` and `RejectedHasNoModel`: with the invariants that the graph holds nothing but consequences
  of the stated facts, and that in every model each stack entry lies above the start of the search, strictly so when it says
  so. A yes is then a consequence, and a loop from an atom to itself with a strict edge has no model.
- `NoMeansNoChain` and `AcceptedIsAcyclic`: the visited atoms with the atoms on the stack are closed under
  the relations, so an exhausted search leaves a closed set that holds the start and not the target.

`LruCache_proofs` proves for any finite set of keys, any values and limits:

- `TypeCorrect`, `ListAndMapAgree`, `LimitKept`: the list holds the keys of the map, each once, in the order of use. The
  limit is inductive only with that: an eviction shortens the list, and the map shrinks as much because the two agree and
  the list has no key twice (so that its length is the number of entries).
- `CacheImplementsPolicy`: every step is a step of `LruPolicy` or a stutter. That what is evicted is what was used least
  recently is the recency order of the list (`ListIsRecency`).

`Collector_proofs` proves for any finite set of expressions, any names, limits and budget:

- `TypeCorrect`, `NothingDangles`, `BudgetKept`. Everything a session keeps is null or a live pointer (`Kept`), but for the targets of
  relations, which may be borrowed symbols of the client, the discarded ones among them (`Borrowings`); and a trace which is disabled is
  empty: the collection skips a disabled trace, so that `enable_trace(false)` has to clear it. `NothingDangles` is about pointers into arenas: a borrowed
  pointer dangles when the client destroys its symbol, and no invariant of the session can prevent that. For the budget, every node was charged for
  or was copied out of the client's memory (`Charged`): what else the new arena holds was in the old one.
- `CacheLimitsKept` (`CachesWithinLimit`): inductive with the keys of a cache being distinct, since an entry that is stored
  again takes the place of the old one, and a clone of a cache has no more entries than the cache, of each key one.
- `AnswersSurvive` (`CollectionKeepsAnswers`): what a clone stands for is what was copied, or null (`CloneMeans`, `Faithful`), which makes it so for each part of what a client
  can ask (`ViewKept`) and for the relations, as long as no symbol they point at is gone (`RelationsKept`).

`Session_proofs` proves for any keys, conditions, budgets, caps and nesting depth (from `SessionAssumption`: the limits are
naturals, and None is not a budget):

- `FlagIsRaisedWhileOpen`, `BudgetIsNeverWidened`, `VisitsAreCharged`, `ServedEntriesAreCurrent`: four invariants of the run `session`.
  None is inductive. That the flag is right after a return needs the shape of the stack (`Shape`): a call owns its operation exactly
  when every call below it is away, in its hook or its radical window. The budget needs that only the first call may have
  lowered it (`Budgets`), which follows because an integrate that finds the flag down has nothing below it. The cache needs that a
  simplify in progress has compared the revisions, and that a cache with an entry in it is not from before a reset (`Caches`).
  The proof has one lemma for each thing a step does to the stack: enter, deliver, leave, change of phase, visit.

The second part of `Session_proofs` proves for any conditions, any relation of subsumption and any size limit:

- lemmas about the operations of `SideConditions`: `AddIs` and `MergeIs` (the set stays within its limit, gains nothing that it was not given and loses
  nothing that it says, though a stronger condition may take the place of weaker ones) and `SinceIs`.
- `TypeInvariant`: `TypeOK`, in which a set of conditions never outgrows `max_side_conditions`.
- `ReportsAreTaken` (`ReportedWasTaken`) and `FreshReportsAreComplete` (`FreshReportIsComplete`), from `CInv`. Its part `Taken` says that
  everything in the accumulator, and everything in the mark that an attempt would put back, was there when a call
  began or was taken since by it or by a call above it. `Said` is the other direction, and holds of a call as long as it is
  `Clean`: no cache has answered for it, and no operation has started above it, which would clear the accumulator.
  An abandoned attempt must not lose what the calls below it took, so that `Said` speaks of marks as well.

`Kernels_proofs` proves, from `BigIntAssumption` (limbs of at least two bits, thresholds large enough for pieces to be
shorter than what they are cut from):

- `DivisionIsExact`: `divide_with_remainder` rounds down and leaves the remainder that completes it, for all integers.
  The estimate of a limb, from three limbs over two, is the smaller of `B - 1` and their exact quotient (`EstimateIs`), which
  is at most one too large for the whole divisor if its top bit is set (`SubtractedIs`); so one add-back is enough, and each step of
  Algorithm D keeps `q * v + u` and leaves less than the divisor at its place (`KnuthStepIs`). The estimate of
  `bz_div_3by2` is at most two too large for a normalized divisor (`Bz3By2Is`), the two halves give a whole
  quotient (`TwoHalvesIs`), and the chunks are divided like limbs (`BurnikelZieglerIs`).
- `ProductIsRight`: `multiply_magnitude` returns the product or reports exhausted limbs, and that under a limit only. The smaller
  products of Karatsuba and Toom-3 are of numbers smaller than the longer operand (`HalvesAreSmall`, `PiecesAre`), which is why the
  recursion ends, and the identities of the two interpolations are exact, the divisions by 2 and 3 included (`KaratsubaIs`,
  `ToomValueIs`). An exhausted part makes the whole exhausted.
- `DivisionAlwaysExact` (`DivisionExact`) and `ProductAlwaysRightOrFlagged` (`ProductRightOrFlagged`): the properties of
  the run `kernels`, for any numbers that the client may take.

The second part of `Kernels_proofs` proves, from `BigIntAssumption` and a natural threshold:

- `GcdIsGreatest`: the divisors of what `gcd` returns are the common divisors of the two integers (`Greatest`), whichever algorithm their
  lengths choose; there is one such number (`GreatestIsUnique`). *Binary*: beside an odd number the factors of two of the other do not
  matter (`GreatestOdd`), and a power of two that both have comes out as a factor (`PowerOfBoth`). *Lehmer*: the numbers of which the simulation
  holds the leading words lie between these words plus the entries of the matrix, in units of what was cut off (`Bracketed`); the ends change
  sides with the signs of the matrix at each step. If both ends give one quotient it is the quotient of the numbers themselves
  (`QuotientBetween`), so that each simulated step is a step of Euclid's algorithm on them (`SimulatesStep`), although words are all that is looked at,
  and the matrix may be applied to the long numbers at once (`LehmerStepIs`). Nothing in this depends on the words not
  overflowing: `StepFits` only ends a simulation earlier.
- `GcdAlwaysRight` (`GcdRight`): it agrees with Euclid's algorithm, for any numbers that the client may take.

The rest of `Kernels_proofs` proves for terms of any height and width, with any names and values (from `HeightAssumption`, a natural
`MaxHeight`, and `ComparedAssumption` and `RulebookAssumption`: what is compared, looked up or a pattern is such a term):

- `OrdersAlwaysStrict` (`OrdersAreStrict`): the three orders are irreflexive and transitive, and the weight order and the canonical order decide
  between two terms unless they differ only in the values of decimals and complex numbers (`Indistinct`), between which neither decides. *These two* are one scheme: a comparison, then the children one by one, then another comparison
  (`Lexicographic`). If the two comparisons are orders (`WeakOrder`: turned round they change the sign, and what is not below is transitive), tie for terms that
  are indistinct, and tell apart any others that have as many children, indistinct in pairs (`Distinguishes`, `Judging`), the scheme is an order that ties for the indistinct terms alone, by induction on the height of the terms (`LexicographicIsOrder`). That the
  children order those who have them is the case analysis of where they differ first (`ChildrenOrder`). Kinds, tags and heads are
  orders one within the other (`ThenOrders`), for which functions of one precedence have to be told apart by name. *The path order* has no such scheme. A term that is above
  another is above its children (`AboveChildren`). From that, transitivity follows by induction on the heights of three terms together
  (`PathPasses`), and with it that no two terms are above each other (`PathAsymmetric`), since the code excludes equal terms only.
  It is not total: terms with equal heads and different numbers of children can be left undecided, and there the weight order answers.
- `NetNeverMisses` (`NetMissesNothing`): after any sequence of insertions and clearings, the net proposes every rule that the matcher accepts for
  a term, each once, in the order of insertion and those of a wildcard last, and none that was cleared. The inductive invariant
  (`NetHolds`) says of every bucket that it holds the inserted rules with its key, in the order of `inserted`; an insertion appends
  to one bucket (`InsertIs`). What the matcher accepts is known from its first step alone (`MatchSharesRoot`: a wildcard, or the same root), but for
  that the matcher must be a solution of its recursion. Two searches nest there, over the operands and over the terms: the one for operands has a
  solution for any matcher (`TakingExists`), which depends on the answers for those operands only (`TakeOperandsIs`), so the
  matcher depends on lower terms only (`MatchStepIs`) and has a solution too (`MatchExists`). Sorting the patterns by weight leaves none out
  (`HeaviestFirstIs`, a counting argument).

`Groups_proofs` proves for every degree and any number of generators (from `CandidatesAssumption`: what may be taken are permutations of
finitely many points, at least one):

- `BlocksAreMinimalAlways` (`BlocksAreMinimal`): the systems of blocks of a transitive group are the minimal ones among all partitions the generators
  keep, and there are none exactly when the group is primitive. What the worklist unites is the least congruence that puts the two
  points together: it never unites what a congruence with the two points in one block keeps apart, and whatever keeps the images of the pairs that wait keeps
  the partition so far (`Pending`), so that nothing is left to unite when the worklist is empty. The worklist ends since a pair that waits costs a block (`Remaining`).
  The search looks at the pairs with the point 0 alone; that is enough because a transitive group moves any two points of a block into the block of 0 (`BlockAtZero`).
- `ChainIsExactAlways` (`ChainIsExact`): the verification of Schreier and Sims ends, and the chain has the order of the generated group and recognises exactly
  its elements. The invariant of the verification (`VerificationInv`): the base points are distinct and every strong generator moves one
  (`Based`); the strong generators lie in the group and generate it (`Strong`); every level above the current one is verified
  (`LevelVerified`). The last part is why the verification may go on from the level where a Schreier generator left the chain and not
  from the top: a generator that moves the base point of a level changes nothing above that level (`StillVerified`). A
  residue is never a strong generator already (`ResidueIsNew`), so that each restart uses up one of the finitely many permutations (`ToVerify`).
  At the end each level recognises the group of its generators if the next one does (`LevelRecognises`, which is Schreier's lemma: the members
  that a verified level recognises are closed under its generators), from the end of the base up to the first level; and the order of a level is the length of its orbit
  times that of the next one (`GroupAtOrder`).

How recursive functions are reasoned about. A definition `f[n] == ... f[n - 1] ...` is the CHOOSE of a solution of its equation, so
first a solution is shown to exist (`RepetitionExists`, `LoopExists`, `MultiplyingExists`, ...), and then what
it computes (`RangeInduction`, `DownInduction`, `LoopEnds`), in the end with `SetInduction`: a set of naturals with 0 and all successors is `Nat`. The lemmas that all these proofs
share are in `Recursion`. The library's induction theorems
take an operator, which these provers cannot instantiate; a set they can. For a recursion over smaller numbers (`Multiply`) the extension
needs that a product depends on smaller products alone (`KaratsubaLocal`, `ToomLocal`), and for one over trees that a term depends on lower
terms alone (`RecursionExists`, `ChildrenCompared`, `PathLocal`). A loop, which calls itself last, has a solution whether
it ends or not (`LoopExists`: the least relation between a place and a result that the rounds allow is a function); what it computes
follows by induction on a measure that each round makes smaller (`MeasureInduction`), which is also the proof that it ends.

Only model-checked: the liveness properties (TLAPS reaches neither fairness nor ENABLED), and of the kernels
`RewriteKeepsValue` and `ParserFollowsGrammar`. Their modules
(`RewriteEngine`, `Syntax`, `MCKernels`) declare RECURSIVE operators, over trees and token strings, about which
the provers can be told nothing, and no theorem is stated there or about them. Also `CompareRewriteTerms`, the combination of the path order
and the weight order: it is not transitive.

## Not modelled

- The rule-by-rule mathematics of the simplifier, the integrator, differentiation, limits, series, transforms, summation and ODEs, which is most of the
  source: expressions are unbounded there and correctness is analytic. A model of a rule on small trees would repeat the rule.
- The loop of `apply_rule_set` (`rewrite_engine.cpp:346`). It has no fuel, and `compare_rewrite_terms` takes the path order where it decides and
  the weight order where it does not, which is not transitive: sums that the orders compare differently can each be "smaller" than the next in
  a circle. What the code does with such a set of rules is to run on; nothing in the repository states otherwise.
- The order in which the integrator tries its methods, and its depth guard; the depth and cycle guards of the simplifier.
- The splitting of sums and differences in `is_greater` (`assumptions_predicates.cpp:188`).
- The limb budget inside a division: the product in `bz_div_3by2` is zero when it runs out, and the flag alone tells that the quotient is wrong. Likewise in
  the products of Lehmer's steps (`scale_bigint_i64`, `bigint_gcd_lehmer.cpp:132-142`).
- The kinds of expression that the orders and the rewriter treat besides those of `Expr`: integrals, derivatives, limits, `RootOf`, matrices, series, quantities. (For the last
  kinds `canonical_compare` looks at the children alone: the index of a `RootOf`, the shape of a matrix and the exponents of a series do not count.)
- In `Collector`: the variable and the order in the keys of the derivative and integral caches (one of each); the hash-DoS flag of the session's own arena,
  which is in `AstArena`. In `Session`: `clear_assumptions` without `clear_caches`, against the comment at `symbolic.hpp:113-114` and done nowhere in the repository.
- Polynomial algebra, Groebner bases, linear algebra: pure functions with unit tests.
- The lexer, LaTeX and two-dimensional layout; the round-trip printer, which only tests use.
- Numeric evaluation (MPFR), number theory, statistics, units, the C API (a thin wrapper).

## Plan

1. (done) the arena, the prover, the session; the first proofs.
2. (done) the cache container and its policy; the collection of a session; their proofs.
3. (done) the kernels: orders and rewriting, long arithmetic, permutation groups, parser and text formatter.
4. (done) the flag, budget, cache and types of a session and the reports of its conditions, proved; deadlock and counts of the
   arena; limits of the caches of a session.
5. (done) long arithmetic without RECURSIVE operators; products, divisions and gcds proved.
6. (done) permutation groups without RECURSIVE operators; the chain and the blocks proved for any number of points. The orders on terms
   without RECURSIVE operators, proved strict.
7. `CompoundOrder`: the splitting of sums and differences in `is_greater`, on top of an oracle for atoms, against integer valuations.
8. `IntegratorCascade`: the order of the methods, the depth guard and the rollback of nested attempts.
9. More kernels: Euclid, subresultants and Sturm counting over small polynomials; Bareiss elimination; the Buchberger pair queue.
