------------------------------ MODULE AstArena ------------------------------
(***************************************************************************)
(* The arena every AST node lives in (cas::AstArena): a bump allocator and *)
(* an interning table sharded by structural hash, shared by threads.  A    *)
(* structural key is a model value; a node is an address whose cell holds  *)
(* the key it was built from.  Addresses are reused after a reset, as the  *)
(* allocator may.  A node takes one unit of a block of BlockNodes units,   *)
(* and the memory budget is counted in blocks.                             *)
(***************************************************************************)
EXTENDS Integers, FiniteSets

CONSTANTS
    Threads,
    Keys,        \* structural keys: node kind and fields
    HotKeys,     \* the keys served by an atomic cell (0, 1, -1, the constants)
    Hash,        \* expr_hash of each key
    Addrs,       \* memory cells
    ShardCounts, \* the shard counts a build or a client may choose
    BlockNodes,  \* nodes that fit in one block
    Budgets,     \* the memory budgets a client may set, in blocks; 0 = unlimited
    MaxChain,    \* MAX_COLLISION_CHAIN
    MaxCalls,    \* bound: the operations the threads perform in all
    Null         \* ExprPtr{}, and "held by nobody"

ASSUME KeysAssumption == IsFiniteSet(Keys) /\ HotKeys \subseteq Keys /\ Hash \in [Keys -> Nat]
ASSUME NullAssumption == Null \notin Keys \cup Addrs \cup Threads
ASSUME ShardAssumption == ShardCounts \subseteq Nat \ {0} /\ ShardCounts # {}
ASSUME BoundAssumption ==
    /\ BlockNodes \in Nat \ {0}
    /\ Budgets \subseteq Nat
    /\ MaxChain \in Nat \ {0}
    /\ MaxCalls \in Nat

VARIABLES
    pc, key, cached, created, cursor,                   \* per thread
    calls,                                              \* operations begun
    shard_mutex, alloc_mutex,                           \* lock holders
    num_shards, table, hot, mem, total_nodes,           \* the nodes
    blocks, used, bytes_allocated, max_budget, budget_exhausted,
    hash_dos_detected,
    handed,     \* history: the <<key, node>> pairs returned since the last reset
    overtaken   \* history: the threads whose read of a hot cell a reset overlaps

callVars   == <<key, cached, created, cursor, calls>>
threadVars == <<pc, callVars>>
lockVars   == <<shard_mutex, alloc_mutex>>
nodeVars   == <<num_shards, table, hot, mem, total_nodes>>
budgetVars == <<blocks, used, bytes_allocated, max_budget, budget_exhausted>>
historyVars == <<handed, overtaken>>
vars == <<threadVars, lockVars, nodeVars, budgetVars, hash_dos_detected, historyVars>>

-----------------------------------------------------------------------------
Shards   == 0 .. num_shards - 1
ShardOf(k) == Hash[k] % num_shards
Live     == {a \in Addrs : mem[a] # Null}

InShard == {"find", "alloc", "make", "check", "hot", "insert"}
Wiping  == {"r_tables", "r_hot", "r_counts"}          \* the nodes are gone, traces are left
InReset == {"r_lock", "r_alloc", "r_wipe", "r_unlock"} \cup Wiping

(* A reset has destroyed the nodes and not yet passed the hot cells.        *)
HotDead == \E t \in Threads : pc[t] \in {"r_tables", "r_hot"}

(* The bucket a node lands in holds the nodes of equal hash and perhaps     *)
(* others of its shard; its size includes the new node.                     *)
Chain(k) == {a \in table[ShardOf(k)] : Hash[mem[a]] = Hash[k]}
BucketSizes(k) == Cardinality(Chain(k)) + 1 .. Cardinality(table[ShardOf(k)]) + 1

Init ==
    /\ pc = [t \in Threads |-> "idle"]
    /\ key = [t \in Threads |-> Null]
    /\ cached = [t \in Threads |-> Null]
    /\ created = [t \in Threads |-> Null]
    /\ cursor = [t \in Threads |-> 0]
    /\ calls = 0
    /\ num_shards \in ShardCounts
    /\ shard_mutex = [s \in Shards |-> Null]
    /\ alloc_mutex = Null
    /\ table = [s \in Shards |-> {}]
    /\ hot = [k \in HotKeys |-> Null]
    /\ mem = [a \in Addrs |-> Null]
    /\ total_nodes = 0
    /\ blocks = 0 /\ used = 0 /\ bytes_allocated = 0
    /\ max_budget = 0 /\ budget_exhausted = FALSE
    /\ hash_dos_detected = FALSE
    /\ handed = {} /\ overtaken = {}

-----------------------------------------------------------------------------
(* AstArena::make *)

Goto(t, from, to) == pc[t] = from /\ pc' = [pc EXCEPT ![t] = to]

(* The locals of the call go out of scope. *)
Return(t, from) == Goto(t, from, "idle") /\ key' = [key EXCEPT ![t] = Null]

Hand(t, a) == handed' = handed \cup {<<key[t], a>>} /\ UNCHANGED overtaken

(* Fault: an early return that keeps the shard. *)
UnlockForgotten(t) == UNCHANGED shard_mutex

Unlock(t) == shard_mutex' = [shard_mutex EXCEPT ![ShardOf(key[t])] = Null]

(* A thread builds the candidate node and calls make. *)
CallMake(t, k) ==
    /\ calls < MaxCalls
    /\ Goto(t, "idle", "fast")
    /\ key' = [key EXCEPT ![t] = k]
    /\ calls' = calls + 1
    /\ UNCHANGED <<cached, created, cursor, lockVars, nodeVars, budgetVars, hash_dos_detected, historyVars>>

(* The lock-free read of the hot cell finds a constant already built, or   *)
(* one that a reset has just destroyed.                                     *)
FastPathLoad(t) ==
    /\ Goto(t, "fast", "loaded")
    /\ key[t] \in HotKeys /\ hot[key[t]] # Null
    /\ cached' = [cached EXCEPT ![t] = hot[key[t]]]
    /\ overtaken' = IF HotDead THEN overtaken \cup {t} ELSE overtaken
    /\ UNCHANGED <<key, created, cursor, calls, lockVars, nodeVars, budgetVars, hash_dos_detected, handed>>

(* The pointer is returned, whatever has become of the node meanwhile.      *)
FastPathReturn(t) ==
    /\ Return(t, "loaded")
    /\ handed' = IF t \in overtaken THEN handed ELSE handed \cup {<<key[t], cached[t]>>}
    /\ overtaken' = overtaken \ {t}
    /\ cached' = [cached EXCEPT ![t] = Null]
    /\ UNCHANGED <<created, cursor, calls, lockVars, nodeVars, budgetVars, hash_dos_detected>>

FastPathMiss(t) ==
    /\ key[t] \in HotKeys => hot[key[t]] = Null
    /\ Goto(t, "fast", "lock")
    /\ UNCHANGED <<callVars, lockVars, nodeVars, budgetVars, hash_dos_detected, historyVars>>

LockShard(t) ==
    /\ Goto(t, "lock", "find")
    /\ shard_mutex[ShardOf(key[t])] = Null
    /\ shard_mutex' = [shard_mutex EXCEPT ![ShardOf(key[t])] = t]
    /\ UNCHANGED <<callVars, alloc_mutex, nodeVars, budgetVars, hash_dos_detected, historyVars>>

FindHit(t) ==
    /\ Return(t, "find")
    /\ \E a \in table[ShardOf(key[t])] : mem[a] = key[t] /\ Hand(t, a)
    /\ Unlock(t)
    /\ UNCHANGED <<cached, created, cursor, calls, alloc_mutex, nodeVars, budgetVars, hash_dos_detected>>

(* Fault: a node is built without consulting the table. *)
FindMissUnchecked(t) ==
    /\ Goto(t, "find", "alloc")
    /\ UNCHANGED <<callVars, lockVars, nodeVars, budgetVars, hash_dos_detected, historyVars>>

FindMiss(t) ==
    /\ Goto(t, "find", "alloc")
    /\ \A a \in table[ShardOf(key[t])] : mem[a] # key[t]
    /\ UNCHANGED <<callVars, lockVars, nodeVars, budgetVars, hash_dos_detected, historyVars>>

LockAlloc(t) ==
    /\ alloc_mutex = Null
    /\ Goto(t, "alloc", "make")
    /\ alloc_mutex' = t
    /\ UNCHANGED <<callVars, shard_mutex, nodeVars, budgetVars, hash_dos_detected, historyVars>>

(* allocate and append_block: the block the node goes to, if there is one. *)
NeedsBlock == blocks = 0 \/ used + 1 > BlockNodes
OverBudget == max_budget > 0 /\ bytes_allocated + 1 > max_budget

AllocateFails == budget_exhausted \/ (NeedsBlock /\ OverBudget)

Allocate ==
    /\ blocks' = IF NeedsBlock THEN blocks + 1 ELSE blocks
    /\ bytes_allocated' = IF NeedsBlock THEN bytes_allocated + 1 ELSE bytes_allocated
    /\ used' = IF NeedsBlock THEN 1 ELSE used + 1
    /\ UNCHANGED <<max_budget, budget_exhausted>>

(* make_uncached under alloc_mutex_, which is released on the way out. *)
MakeUncached(t) ==
    /\ Goto(t, "make", "check")
    /\ ~AllocateFails
    /\ Allocate
    /\ \E a \in Addrs :
         /\ mem[a] = Null
         /\ mem' = [mem EXCEPT ![a] = key[t]]
         /\ created' = [created EXCEPT ![t] = a]
    /\ total_nodes' = total_nodes + 1
    /\ alloc_mutex' = Null
    /\ UNCHANGED <<key, cached, cursor, calls, shard_mutex, num_shards, table, hot,
                   hash_dos_detected, historyVars>>

MakeUncachedFails(t) ==
    /\ Goto(t, "make", "check")
    /\ AllocateFails
    /\ budget_exhausted' = TRUE
    /\ created' = [created EXCEPT ![t] = Null]
    /\ alloc_mutex' = Null
    /\ UNCHANGED <<key, cached, cursor, calls, shard_mutex, nodeVars, blocks, used, bytes_allocated,
                   max_budget, hash_dos_detected, historyVars>>

(* Fault: the count drops a node that stays allocated. *)
RefuseUncounted(t) ==
    /\ Return(t, "check")
    /\ created[t] # Null /\ hash_dos_detected
    /\ created' = [created EXCEPT ![t] = Null]
    /\ total_nodes' = total_nodes - 1
    /\ Unlock(t)
    /\ UNCHANGED <<cached, cursor, calls, alloc_mutex, num_shards, table, hot, mem, budgetVars,
                   hash_dos_detected, historyVars>>

(* The flag is read without alloc_mutex_: any write of another shard may    *)
(* have happened since the allocation.  The node, when there is one, stays  *)
(* allocated and counted and is never published.                            *)
Refuse(t) ==
    /\ Return(t, "check")
    /\ created[t] = Null \/ hash_dos_detected
    /\ created' = [created EXCEPT ![t] = Null]
    /\ Unlock(t)
    /\ UNCHANGED <<cached, cursor, calls, alloc_mutex, nodeVars, budgetVars, hash_dos_detected, historyVars>>

(* Fault: a failed allocation is not tested. *)
AcceptUnchecked(t) ==
    /\ Goto(t, "check", "hot")
    /\ ~hash_dos_detected
    /\ UNCHANGED <<callVars, lockVars, nodeVars, budgetVars, hash_dos_detected, historyVars>>

Accept(t) ==
    /\ Goto(t, "check", "hot")
    /\ created[t] # Null /\ ~hash_dos_detected
    /\ UNCHANGED <<callVars, lockVars, nodeVars, budgetVars, hash_dos_detected, historyVars>>

StoreHot(t) ==
    /\ Goto(t, "hot", "insert")
    /\ hot' = IF key[t] \in HotKeys THEN [hot EXCEPT ![key[t]] = created[t]] ELSE hot
    /\ UNCHANGED <<callVars, lockVars, num_shards, table, mem, total_nodes,
                   budgetVars, hash_dos_detected, historyVars>>

(* The sticky flag is raised here, under the shard mutex only. *)
Insert(t) ==
    /\ Return(t, "insert")
    /\ table' = [table EXCEPT ![ShardOf(key[t])] = @ \cup {created[t]}]
    /\ \E n \in BucketSizes(key[t]) : hash_dos_detected' = (hash_dos_detected \/ n > MaxChain)
    /\ Hand(t, created[t])
    /\ created' = [created EXCEPT ![t] = Null]
    /\ Unlock(t)
    /\ UNCHANGED <<cached, cursor, calls, alloc_mutex, num_shards, hot, mem, total_nodes, budgetVars>>

-----------------------------------------------------------------------------
(* AstArena::reset: every shard mutex in ascending order, then alloc_mutex_. *)

CallReset(t) ==
    /\ calls < MaxCalls
    /\ Goto(t, "idle", "r_lock")
    /\ cursor' = [cursor EXCEPT ![t] = 0]
    /\ calls' = calls + 1
    /\ UNCHANGED <<key, cached, created, lockVars, nodeVars, budgetVars, hash_dos_detected, historyVars>>

(* Fault: reset does not wait for the threads inside a shard. *)
ResetLockShardUnguarded(t) ==
    /\ pc[t] = "r_lock"
    /\ shard_mutex' = [s \in Shards |-> t]
    /\ cursor' = [cursor EXCEPT ![t] = 0]
    /\ pc' = [pc EXCEPT ![t] = "r_alloc"]
    /\ UNCHANGED <<key, cached, created, calls, alloc_mutex, nodeVars, budgetVars,
                   hash_dos_detected, historyVars>>

ResetLockShard(t) ==
    /\ pc[t] = "r_lock"
    /\ shard_mutex[cursor[t]] = Null
    /\ shard_mutex' = [shard_mutex EXCEPT ![cursor[t]] = t]
    /\ IF cursor[t] + 1 < num_shards
       THEN cursor' = [cursor EXCEPT ![t] = @ + 1] /\ UNCHANGED pc
       ELSE cursor' = [cursor EXCEPT ![t] = 0] /\ pc' = [pc EXCEPT ![t] = "r_alloc"]
    /\ UNCHANGED <<key, cached, created, calls, alloc_mutex, nodeVars, budgetVars,
                   hash_dos_detected, historyVars>>

ResetLockAlloc(t) ==
    /\ alloc_mutex = Null
    /\ Goto(t, "r_alloc", "r_wipe")
    /\ alloc_mutex' = t
    /\ UNCHANGED <<callVars, shard_mutex, nodeVars, budgetVars, hash_dos_detected, historyVars>>

(* Every node is destroyed and the blocks go.  The hot cells still hold     *)
(* their pointers, and a thread that has loaded one is overtaken.           *)
ResetDestroy(t) ==
    /\ Goto(t, "r_wipe", "r_tables")
    /\ mem' = [a \in Addrs |-> Null]
    /\ blocks' = 0 /\ used' = 0
    /\ handed' = {}
    /\ overtaken' = {u \in Threads : pc[u] = "loaded"}
    /\ UNCHANGED <<callVars, lockVars, num_shards, table, hot, total_nodes, bytes_allocated,
                   max_budget, budget_exhausted, hash_dos_detected>>

ResetClearTables(t) ==
    /\ Goto(t, "r_tables", "r_hot")
    /\ table' = [s \in Shards |-> {}]
    /\ UNCHANGED <<callVars, lockVars, num_shards, hot, mem, total_nodes, budgetVars,
                   hash_dos_detected, historyVars>>

(* Fault: the hot cells keep the pointers of the destroyed nodes.           *)
ResetKeepsHot(t) ==
    /\ Goto(t, "r_hot", "r_counts")
    /\ UNCHANGED <<callVars, lockVars, nodeVars, budgetVars, hash_dos_detected, historyVars>>

(* The cells are cleared one after the other, under the eyes of the readers.*)
ResetClearHot(t) ==
    /\ pc[t] = "r_hot"
    /\ IF \A k \in HotKeys : hot[k] = Null
       THEN pc' = [pc EXCEPT ![t] = "r_counts"] /\ UNCHANGED hot
       ELSE /\ \E k \in HotKeys : hot[k] # Null /\ hot' = [hot EXCEPT ![k] = Null]
            /\ UNCHANGED pc
    /\ UNCHANGED <<callVars, lockVars, num_shards, table, mem, total_nodes, budgetVars,
                   hash_dos_detected, historyVars>>

(* The counters and both sticky flags; the budget itself is kept.           *)
ResetCounters(t) ==
    /\ Goto(t, "r_counts", "r_unlock")
    /\ total_nodes' = 0 /\ bytes_allocated' = 0
    /\ budget_exhausted' = FALSE /\ hash_dos_detected' = FALSE
    /\ UNCHANGED <<callVars, lockVars, num_shards, table, hot, mem, blocks, used, max_budget, historyVars>>

(* Fault: the loop over the shards stops before the last one.               *)
ResetUnlockShardShort(t) ==
    /\ pc[t] = "r_unlock"
    /\ IF cursor[t] + 1 < num_shards
       THEN /\ shard_mutex' = [shard_mutex EXCEPT ![cursor[t]] = Null]
            /\ cursor' = [cursor EXCEPT ![t] = @ + 1] /\ UNCHANGED <<pc, alloc_mutex>>
       ELSE /\ cursor' = [cursor EXCEPT ![t] = 0]
            /\ pc' = [pc EXCEPT ![t] = "idle"]
            /\ alloc_mutex' = Null /\ UNCHANGED shard_mutex
    /\ UNCHANGED <<key, cached, created, calls, nodeVars, budgetVars, hash_dos_detected, historyVars>>

(* alloc_lock goes out of scope after the last shard is unlocked. *)
ResetUnlockShard(t) ==
    /\ pc[t] = "r_unlock"
    /\ shard_mutex' = [shard_mutex EXCEPT ![cursor[t]] = Null]
    /\ IF cursor[t] + 1 < num_shards
       THEN cursor' = [cursor EXCEPT ![t] = @ + 1] /\ UNCHANGED <<pc, alloc_mutex>>
       ELSE /\ cursor' = [cursor EXCEPT ![t] = 0]
            /\ pc' = [pc EXCEPT ![t] = "idle"]
            /\ alloc_mutex' = Null
    /\ UNCHANGED <<key, cached, created, calls, nodeVars, budgetVars, hash_dos_detected, historyVars>>

-----------------------------------------------------------------------------
(* Operations of the owner of the arena *)

(* Fault: a raised budget leaves the exhausted flag up. *)
SetMaxMemoryBudgetKeepsFlag(b) ==
    /\ alloc_mutex = Null
    /\ max_budget' = b
    /\ UNCHANGED <<threadVars, lockVars, nodeVars, blocks, used, bytes_allocated, budget_exhausted,
                   hash_dos_detected, historyVars>>

SetMaxMemoryBudget(b) ==
    /\ alloc_mutex = Null
    /\ max_budget' = b
    /\ budget_exhausted' = (budget_exhausted /\ b # 0 /\ bytes_allocated > b)
    /\ UNCHANGED <<threadVars, lockVars, nodeVars, blocks, used, bytes_allocated, hash_dos_detected, historyVars>>

ClearHashDosFlag ==
    /\ alloc_mutex = Null
    /\ hash_dos_detected' = FALSE
    /\ UNCHANGED <<threadVars, lockVars, nodeVars, budgetVars, historyVars>>

Quiescent == \A t \in Threads : pc[t] = "idle"

(* Fault: the tables are replaced although nodes exist. *)
ConfigureShardsAlways(n) ==
    /\ Quiescent
    /\ num_shards' = n
    /\ shard_mutex' = [s \in 0 .. n - 1 |-> Null]
    /\ table' = [s \in 0 .. n - 1 |-> {}]
    /\ UNCHANGED <<threadVars, alloc_mutex, hot, mem, total_nodes, budgetVars, hash_dos_detected, historyVars>>

(* configure_shards replaces the mutexes and the tables; it is called while *)
(* no thread is inside the arena and does nothing once a node exists.       *)
ConfigureShards(n) ==
    /\ Quiescent
    /\ total_nodes = 0
    /\ num_shards' = n
    /\ shard_mutex' = [s \in 0 .. n - 1 |-> Null]
    /\ table' = [s \in 0 .. n - 1 |-> {}]
    /\ UNCHANGED <<threadVars, alloc_mutex, hot, mem, total_nodes, budgetVars, hash_dos_detected, historyVars>>

Interned == {k \in Keys : \E a \in table[ShardOf(k)] : mem[a] = k}

(* What a fresh arena of n shards holds when it was given the nodes of keep *)
(* and orphans to build.  Its own flag goes up with the insertion that makes*)
(* a bucket too long, the last one: whatever is asked for after that is     *)
(* allocated, counted and refused, and null takes the place of its copy.    *)
Copied(keep, orphans, n) ==
    \/ keep = {} /\ orphans = {}
    \/ \E last \in keep :
         /\ \A k \in keep : Cardinality({m \in keep \ {last} : Hash[m] = Hash[k]}) <= MaxChain
         /\ orphans # {} =>
              Cardinality({m \in keep : Hash[m] % n = Hash[last] % n}) > MaxChain

(* collect_garbage builds a fresh arena with copies of the nodes reachable  *)
(* from the roots and move-assigns it over this one.  The move transfers    *)
(* blocks, nodes, tables and hot cells; it leaves bytes_allocated_, the     *)
(* budget and both sticky flags of the target as they were, and the flag of *)
(* the new arena is lost.  The new arena has the default shard count.  Which*)
(* cells it takes is open: nobody is left with a pointer to an old one.     *)
Collect(n) ==
    /\ Quiescent
    /\ \E keep \in SUBSET Interned : \E orphans \in SUBSET (Interned \ keep) :
       \E place \in [keep \cup orphans -> Addrs] :
         /\ Copied(keep, orphans, n)
         /\ \A k, m \in keep \cup orphans : place[k] = place[m] => k = m
         /\ mem' = [a \in Addrs |-> IF \E k \in keep \cup orphans : place[k] = a
                                    THEN CHOOSE k \in keep \cup orphans : place[k] = a ELSE Null]
         /\ table' = [s \in 0 .. n - 1 |-> {place[k] : k \in {m \in keep : Hash[m] % n = s}}]
         /\ hot' = [k \in HotKeys |-> IF k \in keep THEN place[k] ELSE Null]
         /\ total_nodes' = Cardinality(keep \cup orphans)
         /\ blocks' = (Cardinality(keep \cup orphans) + BlockNodes - 1) \div BlockNodes
         /\ used' = IF keep \cup orphans = {} THEN 0
                    ELSE ((Cardinality(keep \cup orphans) - 1) % BlockNodes) + 1
    /\ num_shards' = n
    /\ shard_mutex' = [s \in 0 .. n - 1 |-> Null]
    /\ handed' = {}
    /\ UNCHANGED <<threadVars, alloc_mutex, bytes_allocated, max_budget, budget_exhausted,
                   hash_dos_detected, overtaken>>

-----------------------------------------------------------------------------
MakeStep(t) ==
    \/ FastPathLoad(t) \/ FastPathReturn(t) \/ FastPathMiss(t) \/ LockShard(t) \/ FindHit(t) \/ FindMiss(t)
    \/ LockAlloc(t) \/ MakeUncached(t) \/ MakeUncachedFails(t)
    \/ Refuse(t) \/ Accept(t) \/ StoreHot(t) \/ Insert(t)

ResetStep(t) ==
    \/ ResetLockShard(t) \/ ResetLockAlloc(t) \/ ResetDestroy(t) \/ ResetClearTables(t)
    \/ ResetClearHot(t) \/ ResetCounters(t) \/ ResetUnlockShard(t)

Call(t) == CallReset(t) \/ \E k \in Keys : CallMake(t, k)

Owner ==
    \/ \E b \in Budgets : SetMaxMemoryBudget(b)
    \/ ClearHashDosFlag
    \/ \E n \in ShardCounts : ConfigureShards(n) \/ Collect(n)

Next == Owner \/ \E t \in Threads : Call(t) \/ MakeStep(t) \/ ResetStep(t)

(* The operating system keeps running a thread that is inside the arena. *)
Fairness == \A t \in Threads : WF_vars(MakeStep(t)) /\ WF_vars(ResetStep(t))

Spec == Init /\ [][Next]_vars
FairSpec == Spec /\ Fairness

-----------------------------------------------------------------------------
TypeOK ==
    /\ pc \in [Threads -> {"idle", "fast", "loaded", "lock"} \cup InShard \cup InReset]
    /\ key \in [Threads -> Keys \cup {Null}]
    /\ \A t \in Threads : pc[t] \in {"fast", "loaded", "lock"} \cup InShard => key[t] \in Keys
    /\ cached \in [Threads -> Addrs \cup {Null}] /\ created \in [Threads -> Addrs \cup {Null}]
    /\ \A t \in Threads : pc[t] = "loaded" => cached[t] \in Addrs
    /\ \A t \in Threads : pc[t] \in {"hot", "insert"} => created[t] \in Addrs
    /\ cursor \in [Threads -> Nat] /\ \A t \in Threads : pc[t] \in InReset => cursor[t] < num_shards
    /\ calls \in 0 .. MaxCalls
    /\ num_shards \in ShardCounts
    /\ shard_mutex \in [Shards -> Threads \cup {Null}]
    /\ alloc_mutex \in Threads \cup {Null}
    /\ table \in [Shards -> SUBSET Addrs]
    /\ hot \in [HotKeys -> Addrs \cup {Null}]
    /\ mem \in [Addrs -> Keys \cup {Null}]
    /\ total_nodes \in Nat
    /\ blocks \in Nat /\ used \in Nat /\ bytes_allocated \in Nat /\ max_budget \in Budgets \cup {0}
    /\ budget_exhausted \in BOOLEAN /\ hash_dos_detected \in BOOLEAN
    /\ handed \in SUBSET (Keys \X Addrs) /\ overtaken \in SUBSET Threads

(* Hash-consing, the contract test_arena_shard_locks.cpp samples: however   *)
(* the calls interleave, all callers that asked for one key hold the same   *)
(* pointer, and that pointer still is a node of that key.  Left out are the *)
(* pointers a reset makes void: those returned before it destroys the nodes,*)
(* and those of the lock-free reads it overtakes, which may well be returned*)
(* after their node is gone.                                                *)
HandedUnique ==
    /\ \A p, q \in handed : p[1] = q[1] => p[2] = q[2]
    /\ \A p \in handed : mem[p[2]] = p[1]

(* Why it holds, part by part.  The locks: a thread between its lock and    *)
(* its return owns the shard of its key, and a resetting thread owns every  *)
(* shard it has passed, all of them while it destroys the nodes.            *)
LocksHeld ==
    /\ \A t \in Threads :
         /\ pc[t] \in InShard => shard_mutex[ShardOf(key[t])] = t
         /\ pc[t] = "r_lock" => \A s \in Shards : s < cursor[t] => shard_mutex[s] = t
         /\ pc[t] \in {"r_alloc", "r_wipe"} \cup Wiping => \A s \in Shards : shard_mutex[s] = t
         /\ pc[t] = "r_unlock" => \A s \in Shards : s >= cursor[t] => shard_mutex[s] = t
         /\ pc[t] \in {"make", "r_wipe", "r_unlock"} \cup Wiping <=> alloc_mutex = t

(* A shard table holds at most one node of a key, live and in the shard its *)
(* hash selects, but for the tables a reset is about to clear.              *)
TableUnique ==
    \/ \E t \in Threads : pc[t] = "r_tables"
    \/ \A s \in Shards : \A a \in table[s] :
         /\ mem[a] \in Keys /\ ShardOf(mem[a]) = s
         /\ \A b \in table[s] : mem[a] = mem[b] => a = b

(* A reset has left no node, then no table, then no hot cell.               *)
WipedSoFar ==
    \A t \in Threads :
        /\ pc[t] \in Wiping => \A a \in Addrs : mem[a] = Null
        /\ pc[t] \in Wiping \ {"r_tables"} => \A s \in Shards : table[s] = {}
        /\ pc[t] = "r_counts" => \A k \in HotKeys : hot[k] = Null

(* A node under construction is its builder's alone, and its key is absent  *)
(* from the table until it is inserted.                                     *)
BuildersExclusive ==
    \A t \in Threads :
        /\ pc[t] \in InShard \ {"find"} => \A a \in table[ShardOf(key[t])] : mem[a] # key[t]
        /\ created[t] # Null => pc[t] \in {"check", "hot", "insert"} /\ mem[created[t]] = key[t]
        /\ pc[t] = "insert" /\ key[t] \in HotKeys => hot[key[t]] = created[t]

(* A hot cell names the node of its key that the table holds or that its    *)
(* builder is about to insert, and no node of a hot key bypasses its cell.  *)
(* While a reset is between the nodes and the cells, a cell may name the    *)
(* node it destroyed.                                                       *)
HotAgrees ==
    \A k \in HotKeys :
        /\ hot[k] # Null /\ ~HotDead =>
             /\ mem[hot[k]] = k
             /\ \/ hot[k] \in table[ShardOf(k)]
                \/ \E t \in Threads : pc[t] = "insert" /\ key[t] = k /\ created[t] = hot[k]
        /\ \A a \in table[ShardOf(k)] : mem[a] = k => hot[k] = a

(* A loaded pointer is the one still in the cell, unless it is overtaken.   *)
LoadedCanonical ==
    \A t \in Threads \ overtaken :
        pc[t] = "loaded" => key[t] \in HotKeys /\ hot[key[t]] = cached[t] /\ mem[cached[t]] = key[t]

(* Whatever was handed out is the canonical node of its key.                *)
HandedCanonical ==
    \A p \in handed :
        /\ mem[p[2]] = p[1]
        /\ IF p[1] \in HotKeys THEN hot[p[1]] = p[2] ELSE p[2] \in table[ShardOf(p[1])]

(* configure_shards trusts that a zero count means no node is left.         *)
EmptyMeansEmpty == total_nodes = 0 => \A a \in Addrs : mem[a] = Null

InterningInv ==
    /\ LocksHeld
    /\ TableUnique
    /\ WipedSoFar
    /\ BuildersExclusive
    /\ HotAgrees
    /\ LoadedCanonical
    /\ HandedCanonical
    /\ EmptyMeansEmpty

(* The converse of LocksHeld: no return leaves a shard locked behind it, so *)
(* the owner of a shard is building in it or is a reset that has reached it.*)
OwnersInside ==
    \A t \in Threads :
        /\ pc[t] \in {"r_alloc", "r_wipe"} \cup Wiping => cursor[t] = 0
        /\ \A s \in Shards : shard_mutex[s] = t =>
             \/ pc[t] \in InShard /\ ShardOf(key[t]) = s
             \/ pc[t] = "r_lock" /\ s < cursor[t]
             \/ pc[t] \in {"r_alloc", "r_wipe"} \cup Wiping
             \/ pc[t] = "r_unlock" /\ s >= cursor[t]

ArenaInv == InterningInv /\ OwnersInside

(* total_nodes_ counts the live nodes, those refused under the hash-DoS     *)
(* flag and those orphaned by a collection included, through resets and     *)
(* moves, for whoever takes alloc_mutex_ to read it: configure_shards relies*)
(* on zero meaning that no table or hot cell refers to a node.              *)
SizeCountsLive ==
    (\A t \in Threads : pc[t] \notin Wiping) => total_nodes = Cardinality(Live)

(* The sticky exhausted flag is only up while the next block would exceed   *)
(* the budget in force: raising or removing the budget, and a reset, lower  *)
(* it, so no node is refused below the budget as bytes_allocated_ counts it.*)
ExhaustedMeansFull == budget_exhausted => max_budget > 0 /\ bytes_allocated >= max_budget

(* Nodes never move or die under a thread that is past its lock: a live     *)
(* cell changes only while every thread is outside the shards (a lock-free  *)
(* reader has no such guarantee).                                           *)
NodesStable ==
    [][(\E a \in Live : mem'[a] # mem[a]) => \A t \in Threads : pc[t] \notin InShard]_vars

(* make takes shard then alloc, reset every shard in order then alloc:      *)
(* whenever threads are inside the arena, one of them can move.             *)
Waits(t) ==
    \/ pc[t] = "lock" /\ shard_mutex[ShardOf(key[t])] # Null
    \/ pc[t] = "r_lock" /\ shard_mutex[cursor[t]] # Null
    \/ pc[t] \in {"alloc", "r_alloc"} /\ alloc_mutex # Null

NoDeadlock ==
    (\E t \in Threads : pc[t] # "idle") => \E t \in Threads : pc[t] # "idle" /\ ~Waits(t)

(* Every call returns: the critical sections end whatever the other threads *)
(* do, so a worker that makes finitely many calls can be joined.            *)
EveryCallReturns == \A t \in Threads : pc[t] # "idle" ~> pc[t] = "idle"

(* The arena implements the abstract intern table: the canonical node of a  *)
(* hot key is the live one in its cell, of any other key the one in its     *)
(* shard.  The table is forgotten when a reset destroys the nodes; the reads*)
(* it overtakes are not answers of the table.                               *)
NodesOf(k) == {a \in table[ShardOf(k)] : mem[a] = k}

Canonical ==
    [k \in Keys |-> IF k \in HotKeys
                    THEN IF hot[k] # Null /\ mem[hot[k]] = k THEN hot[k] ELSE Null
                    ELSE IF NodesOf(k) = {} THEN Null ELSE CHOOSE a \in NodesOf(k) : TRUE]

Abstract == INSTANCE InternTable WITH interned <- Canonical
ImplementsInternTable == Abstract!Spec

(* ast_arena.hpp:162 says of hash_dos_detected_ "under alloc_mutex_".       *)
FlagUnderAllocMutex ==
    [][hash_dos_detected' # hash_dos_detected =>
         \/ alloc_mutex # Null /\ pc'[alloc_mutex] # pc[alloc_mutex]
         \/ alloc_mutex = Null /\ UNCHANGED pc]_vars
=============================================================================
