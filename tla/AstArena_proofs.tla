--------------------------- MODULE AstArena_proofs ---------------------------
(***************************************************************************)
(* Proofs about the AST arena, for every number of threads, keys, shards   *)
(* and cells: type correctness, the interning invariant and with it the    *)
(* uniqueness of the pointers handed out, the refinement of the abstract   *)
(* intern table, the lock order and the count of nodes.                    *)
(***************************************************************************)
EXTENDS AstArena, FiniteSetTheorems, TLAPS

USE DEF Shards, ShardOf, InShard, InReset, Wiping, Goto, Return, Hand, Unlock, callVars, historyVars

(* A shard index is always within the current table: hash & (num_shards_-1). *)
LEMMA ShardInRange ==
    ASSUME NEW k \in Keys, NEW n \in ShardCounts
    PROVE  Hash[k] % n \in 0 .. n - 1
BY KeysAssumption, ShardAssumption

LEMMA TypeInit == Init => TypeOK
<1> SUFFICES ASSUME Init PROVE TypeOK
  OBVIOUS
<1>1. calls \in 0 .. MaxCalls
  BY BoundAssumption DEF Init
<1>2. table \in [Shards -> SUBSET Addrs] /\ shard_mutex \in [Shards -> Threads \cup {Null}]
  BY DEF Init
<1>3. pc \in [Threads -> {"idle", "fast", "loaded", "lock"} \cup InShard \cup InReset]
  BY DEF Init
<1>4. hot \in [HotKeys -> Addrs \cup {Null}] /\ mem \in [Addrs -> Keys \cup {Null}]
  BY DEF Init
<1>5. \A t \in Threads : pc[t] = "idle"
  BY DEF Init
<1> QED
  BY <1>1, <1>2, <1>3, <1>4, <1>5 DEF Init, TypeOK

(* Every operation of make keeps the state well-typed. *)
LEMMA TypeMake ==
    ASSUME TypeOK, NEW t \in Threads, MakeStep(t)
    PROVE  TypeOK'
<1>k. key[t] \in Keys => ShardOf(key[t]) \in Shards
  BY ShardInRange DEF TypeOK
<1>0. CASE FastPathLoad(t)
  BY <1>0, KeysAssumption DEF FastPathLoad, TypeOK, nodeVars, lockVars, budgetVars
<1>1. CASE FastPathReturn(t)
  <2>1. key[t] \in Keys /\ cached[t] \in Addrs
    BY <1>1 DEF FastPathReturn, TypeOK
  <2>2. handed' \in SUBSET (Keys \X Addrs)
    BY <1>1, <2>1 DEF FastPathReturn, TypeOK
  <2> QED
    BY <1>1, <2>2 DEF FastPathReturn, TypeOK, nodeVars, lockVars, budgetVars
<1>2. CASE FastPathMiss(t)
  BY <1>2 DEF FastPathMiss, TypeOK, nodeVars, lockVars, budgetVars
<1>3. CASE LockShard(t)
  BY <1>3, <1>k DEF LockShard, TypeOK, nodeVars, budgetVars
<1>4. CASE FindHit(t)
  <2>1. PICK a \in table[ShardOf(key[t])] : mem[a] = key[t] /\ Hand(t, a)
    BY <1>4 DEF FindHit
  <2>2. key[t] \in Keys /\ a \in Addrs
    BY <1>4, <1>k, <2>1 DEF FindHit, TypeOK
  <2> QED
    BY <1>4, <1>k, <2>1, <2>2 DEF FindHit, TypeOK, nodeVars, budgetVars
<1>5. CASE FindMiss(t)
  BY <1>5 DEF FindMiss, TypeOK, nodeVars, lockVars, budgetVars
<1>6. CASE LockAlloc(t)
  BY <1>6 DEF LockAlloc, TypeOK, nodeVars, budgetVars
<1>7. CASE MakeUncached(t)
  BY <1>7 DEF MakeUncached, Allocate, TypeOK
<1>8. CASE MakeUncachedFails(t)
  BY <1>8 DEF MakeUncachedFails, TypeOK, nodeVars
<1>9. CASE Refuse(t)
  BY <1>9, <1>k DEF Refuse, TypeOK, nodeVars, budgetVars
<1>10. CASE Accept(t)
  BY <1>10 DEF Accept, TypeOK, nodeVars, lockVars, budgetVars
<1>11. CASE StoreHot(t)
  BY <1>11, KeysAssumption DEF StoreHot, TypeOK, lockVars, budgetVars
<1>12. CASE Insert(t)
  <2>1. key[t] \in Keys /\ created[t] \in Addrs
    BY <1>12 DEF Insert, TypeOK
  <2>2. hash_dos_detected' \in BOOLEAN
    BY <1>12, Zenon DEF Insert
  <2> QED
    BY <1>12, <1>k, <2>1, <2>2 DEF Insert, TypeOK, budgetVars
<1> QED
  BY <1>0, <1>1, <1>2, <1>3, <1>4, <1>5, <1>6, <1>7, <1>8, <1>9, <1>10, <1>11, <1>12 DEF MakeStep

LEMMA TypeReset ==
    ASSUME TypeOK, NEW t \in Threads, ResetStep(t)
    PROVE  TypeOK'
<1>n. num_shards \in Nat \ {0}
  BY ShardAssumption DEF TypeOK
<1>s. pc[t] \in InReset => cursor[t] \in Shards /\ cursor[t] + 1 \in Nat /\ 0 \in Shards
  BY <1>n DEF TypeOK
<1>1. CASE ResetLockShard(t)
  <2>1. cursor[t] \in Shards /\ cursor[t] + 1 \in Nat
    BY <1>1, <1>s DEF ResetLockShard
  <2>2. shard_mutex' \in [Shards -> Threads \cup {Null}]
    BY <1>1, <2>1 DEF ResetLockShard, TypeOK
  <2>3. CASE cursor[t] + 1 < num_shards
    <3>1. cursor' = [cursor EXCEPT ![t] = cursor[t] + 1] /\ pc' = pc
      BY <1>1, <2>3 DEF ResetLockShard
    <3>2. cursor' \in [Threads -> Nat] /\ \A u \in Threads : pc'[u] \in InReset => cursor'[u] < num_shards
      BY <2>1, <2>3, <3>1 DEF TypeOK
    <3> QED
      BY <1>1, <2>2, <2>3, <3>1, <3>2 DEF ResetLockShard, TypeOK, nodeVars, budgetVars
  <2>4. CASE ~ (cursor[t] + 1 < num_shards)
    <3>1. cursor' = [cursor EXCEPT ![t] = 0] /\ pc' = [pc EXCEPT ![t] = "r_alloc"]
      BY <1>1, <2>4 DEF ResetLockShard
    <3>2. cursor' \in [Threads -> Nat] /\ \A u \in Threads : pc'[u] \in InReset => cursor'[u] < num_shards
      BY <3>1, <1>n DEF TypeOK
    <3> QED
      BY <1>1, <2>2, <3>1, <3>2 DEF ResetLockShard, TypeOK, nodeVars, budgetVars
  <2> QED
    BY <2>3, <2>4
<1>2. CASE ResetLockAlloc(t)
  BY <1>2 DEF ResetLockAlloc, TypeOK, nodeVars, budgetVars
<1>3. CASE ResetDestroy(t)
  <2>1. mem' \in [Addrs -> Keys \cup {Null}]
    BY <1>3 DEF ResetDestroy
  <2> QED
    BY <1>3, <2>1 DEF ResetDestroy, TypeOK, lockVars
<1>5. CASE ResetClearTables(t)
  <2>1. table' \in [Shards' -> SUBSET Addrs]
    BY <1>5 DEF ResetClearTables
  <2> QED
    BY <1>5, <2>1 DEF ResetClearTables, TypeOK, lockVars, budgetVars
<1>6. CASE ResetClearHot(t)
  <2>1. hot' \in [HotKeys -> Addrs \cup {Null}]
    BY <1>6 DEF ResetClearHot, TypeOK
  <2>2. \/ pc' = pc
        \/ pc[t] = "r_hot" /\ pc' = [pc EXCEPT ![t] = "r_counts"]
    BY <1>6 DEF ResetClearHot
  <2> QED
    BY <1>6, <2>1, <2>2 DEF ResetClearHot, TypeOK, lockVars, budgetVars
<1>7. CASE ResetCounters(t)
  BY <1>7 DEF ResetCounters, TypeOK, lockVars
<1>4. CASE ResetUnlockShard(t)
  <2>1. cursor[t] \in Shards /\ cursor[t] + 1 \in Nat
    BY <1>4, <1>s DEF ResetUnlockShard
  <2>2. shard_mutex' \in [Shards -> Threads \cup {Null}]
    BY <1>4, <2>1 DEF ResetUnlockShard, TypeOK
  <2>3. CASE cursor[t] + 1 < num_shards
    <3>1. cursor' = [cursor EXCEPT ![t] = cursor[t] + 1] /\ pc' = pc
      BY <1>4, <2>3 DEF ResetUnlockShard
    <3>2. cursor' \in [Threads -> Nat] /\ \A u \in Threads : pc'[u] \in InReset => cursor'[u] < num_shards
      BY <2>1, <2>3, <3>1 DEF TypeOK
    <3> QED
      BY <1>4, <2>2, <2>3, <3>1, <3>2 DEF ResetUnlockShard, TypeOK, nodeVars, budgetVars
  <2>4. CASE ~ (cursor[t] + 1 < num_shards)
    <3>1. cursor' = [cursor EXCEPT ![t] = 0] /\ pc' = [pc EXCEPT ![t] = "idle"]
      BY <1>4, <2>4 DEF ResetUnlockShard
    <3>2. cursor' \in [Threads -> Nat] /\ \A u \in Threads : pc'[u] \in InReset => cursor'[u] < num_shards
      BY <3>1, <1>n DEF TypeOK
    <3> QED
      BY <1>4, <2>2, <3>1, <3>2 DEF ResetUnlockShard, TypeOK, nodeVars, budgetVars
  <2> QED
    BY <2>3, <2>4
<1> QED
  BY <1>1, <1>2, <1>3, <1>4, <1>5, <1>6, <1>7 DEF ResetStep

LEMMA TypeCall ==
    ASSUME TypeOK, NEW t \in Threads, Call(t)
    PROVE  TypeOK'
<1>1. CASE CallReset(t)
  BY <1>1, BoundAssumption, ShardAssumption
  DEF CallReset, TypeOK, lockVars, nodeVars, budgetVars
<1>2. ASSUME NEW k \in Keys, CallMake(t, k) PROVE TypeOK'
  BY <1>2, BoundAssumption DEF CallMake, TypeOK, lockVars, nodeVars, budgetVars
<1> QED
  BY <1>1, <1>2 DEF Call

LEMMA DivModNat ==
    ASSUME NEW m \in Nat, NEW d \in Nat \ {0}
    PROVE  m \div d \in Nat /\ m % d \in Nat
<1>1. m % d \in Nat
  BY Z3
<1>2. m \div d \in Nat
  BY Z3
<1> QED
  BY <1>1, <1>2

(* A collection places each kept key in a cell of its own. *)
LEMMA CollectCells ==
    ASSUME NEW keep \in SUBSET Keys, NEW place \in [keep -> Addrs],
           \A k, m \in keep : place[k] = place[m] => k = m,
           NEW a \in Addrs,
           NEW c, c = (IF \E k \in keep : place[k] = a
                       THEN CHOOSE k \in keep : place[k] = a ELSE Null)
    PROVE  /\ c \in keep \cup {Null}
           /\ \A k \in keep : place[k] = a => c = k
           /\ c \in keep => place[c] = a
<1>1. CASE \E k \in keep : place[k] = a
  BY <1>1
<1>2. CASE ~ \E k \in keep : place[k] = a
  <2>1. c = Null
    BY <1>2
  <2> QED
    BY <1>2, <2>1, NullAssumption
<1> QED
  BY <1>1, <1>2

(* What a collection leaves: the nodes of keep in the tables, the orphans   *)
(* only among the cells.                                                    *)
Placed(keep, all, place, n) ==
    /\ keep \subseteq all
    /\ \A k, m \in all : place[k] = place[m] => k = m
    /\ mem' = [a \in Addrs |-> IF \E k \in all : place[k] = a
                               THEN CHOOSE k \in all : place[k] = a ELSE Null]
    /\ table' = [s \in 0 .. n - 1 |-> {place[k] : k \in {m \in keep : Hash[m] % n = s}}]
    /\ hot' = [k \in HotKeys |-> IF k \in keep THEN place[k] ELSE Null]
    /\ total_nodes' = Cardinality(all)
    /\ blocks' = (Cardinality(all) + BlockNodes - 1) \div BlockNodes
    /\ used' = IF all = {} THEN 0 ELSE ((Cardinality(all) - 1) % BlockNodes) + 1

LEMMA CollectPlaces ==
    ASSUME NEW n, Collect(n)
    PROVE  \E keep, all \in SUBSET Keys : \E place \in [all -> Addrs] : Placed(keep, all, place, n)
<1>1. PICK keep \in SUBSET Interned : \E orphans \in SUBSET (Interned \ keep) :
        \E place \in [keep \cup orphans -> Addrs] : Placed(keep, keep \cup orphans, place, n)
  BY DEF Collect, Placed
<1>2. PICK orphans \in SUBSET (Interned \ keep) :
        \E place \in [keep \cup orphans -> Addrs] : Placed(keep, keep \cup orphans, place, n)
  BY <1>1
<1>3. keep \in SUBSET Keys /\ keep \cup orphans \in SUBSET Keys
  BY DEF Interned
<1> QED
  BY <1>2, <1>3

LEMMA TypeOwner ==
    ASSUME TypeOK, Owner
    PROVE  TypeOK'
<1>1. ASSUME NEW b \in Budgets, SetMaxMemoryBudget(b) PROVE TypeOK'
  BY <1>1, BoundAssumption DEF SetMaxMemoryBudget, TypeOK, threadVars, lockVars, nodeVars
<1>2. CASE ClearHashDosFlag
  BY <1>2 DEF ClearHashDosFlag, TypeOK, threadVars, lockVars, nodeVars, budgetVars
<1>3. ASSUME NEW n \in ShardCounts, ConfigureShards(n) PROVE TypeOK'
  BY <1>3 DEF ConfigureShards, Quiescent, TypeOK, threadVars, budgetVars
<1>4. ASSUME NEW n \in ShardCounts, Collect(n) PROVE TypeOK'
  <2>1. PICK keep \in SUBSET Keys, all \in SUBSET Keys :
          \E place \in [all -> Addrs] : Placed(keep, all, place, n)
    BY <1>4, CollectPlaces
  <2>2. PICK place \in [all -> Addrs] : Placed(keep, all, place, n)
    BY <2>1
  <2>3. Cardinality(all) \in Nat
    BY KeysAssumption, FS_Subset, FS_CardinalityType
  <2>4. mem' \in [Addrs -> Keys \cup {Null}]
    BY <2>2, CollectCells DEF Placed
  <2>5. table' \in [0 .. n - 1 -> SUBSET Addrs] /\ hot' \in [HotKeys -> Addrs \cup {Null}]
    BY <2>2 DEF Placed
  <2>6. blocks' \in Nat /\ used' \in Nat
    <3>1. all # {} => Cardinality(all) > 0
      BY <2>3, KeysAssumption, FS_Subset, FS_EmptySet
    <3>2. blocks' \in Nat
      BY <2>2, <2>3, DivModNat, BoundAssumption DEF Placed
    <3>3. all # {} => (Cardinality(all) - 1) % BlockNodes \in Nat
      BY <2>3, <3>1, DivModNat, BoundAssumption
    <3> QED
      BY <2>2, <3>2, <3>3 DEF Placed
  <2> QED
    BY <1>4, <2>2, <2>3, <2>4, <2>5, <2>6 DEF Collect, Placed, Quiescent, TypeOK, threadVars
<1> QED
  BY <1>1, <1>2, <1>3, <1>4 DEF Owner

LEMMA TypeNext == TypeOK /\ [Next]_vars => TypeOK'
<1> SUFFICES ASSUME TypeOK, [Next]_vars PROVE TypeOK'
  OBVIOUS
<1>1. CASE UNCHANGED vars
  BY <1>1 DEF TypeOK, vars, threadVars, lockVars, nodeVars, budgetVars
<1>2. CASE Owner
  BY <1>2, TypeOwner
<1>3. ASSUME NEW t \in Threads, Call(t) \/ MakeStep(t) \/ ResetStep(t) PROVE TypeOK'
  BY <1>3, TypeCall, TypeMake, TypeReset
<1> QED
  BY <1>1, <1>2, <1>3 DEF Next

(* Type correctness of the arena: locks are held by threads, tables hold    *)
(* cells, cells hold keys, counters stay natural, in every reachable state. *)
THEOREM TypeCorrect == Spec => []TypeOK
  BY TypeInit, TypeNext, PTL DEF Spec

-----------------------------------------------------------------------------
(* The interning invariant is inductive. *)
Inv == TypeOK /\ InterningInv

(* The mutex of a key's shard admits one thread at a time. *)
LEMMA ShardExclusive ==
    ASSUME LocksHeld, NEW t \in Threads, NEW u \in Threads,
           pc[t] \in InShard, pc[u] \in InShard, key[t] = key[u]
    PROVE  t = u
BY DEF LocksHeld

(* The thread that destroys the nodes holds every shard and alloc_mutex_:   *)
(* no thread is building, and no other thread resets with it.               *)
LEMMA ResetAlone ==
    ASSUME TypeOK, LocksHeld, NEW t \in Threads, pc[t] \in {"r_wipe"} \cup Wiping, NEW u \in Threads
    PROVE  /\ pc[u] \notin InShard
           /\ pc[u] \in {"r_wipe"} \cup Wiping => u = t
<1>1. ASSUME pc[u] \in InShard PROVE FALSE
  <2>1. key[u] \in Keys /\ ShardOf(key[u]) \in Shards
    BY <1>1, ShardInRange DEF TypeOK
  <2>2. shard_mutex[ShardOf(key[u])] = u
    BY <1>1 DEF LocksHeld
  <2>3. shard_mutex[ShardOf(key[u])] = t
    <3>1. pc[t] = "r_wipe" \/ pc[t] \in Wiping
      OBVIOUS
    <3> QED
      BY <2>1, <3>1 DEF LocksHeld
  <2> QED
    BY <1>1, <2>2, <2>3
<1>2. ASSUME pc[u] \in {"r_wipe"} \cup Wiping PROVE u = t
  BY <1>2 DEF LocksHeld
<1> QED
  BY <1>1, <1>2

(* Make moves its own thread only, and never into or out of a reset.        *)
LEMMA MakeMoves ==
    ASSUME TypeOK, NEW t \in Threads, MakeStep(t)
    PROVE  /\ pc[t] \notin InReset /\ pc'[t] \notin InReset
           /\ \A u \in Threads \ {t} : pc'[u] = pc[u] /\ key'[u] = key[u] /\ cached'[u] = cached[u]
BY DEF TypeOK, MakeStep, FastPathLoad, FastPathReturn, FastPathMiss, LockShard, FindHit, FindMiss, LockAlloc,
   MakeUncached, MakeUncachedFails, Refuse, Accept, StoreHot, Insert

(* The cell of a constant under construction is still empty.                *)
LEMMA FreshHot ==
    ASSUME Inv, NEW t \in Threads, pc[t] = "hot", key[t] \in HotKeys
    PROVE  hot[key[t]] = Null
<1> USE DEF Inv, InterningInv
<1>1. \A a \in table[ShardOf(key[t])] : mem[a] # key[t]
  BY DEF BuildersExclusive
<1>2. ASSUME NEW u \in Threads, pc[u] = "insert", key[u] = key[t] PROVE FALSE
  BY <1>2, ShardExclusive
<1>3. ~HotDead
  BY ResetAlone DEF HotDead
<1> QED
  BY <1>1, <1>2, <1>3 DEF HotAgrees

(* Building changes the tables, cells and constants only inside a shard.    *)
LEMMA MakeInShard ==
    ASSUME NEW t \in Threads, MakeStep(t), pc[t] \notin InShard
    PROVE  UNCHANGED <<num_shards, table, hot, mem>>
BY DEF MakeStep, FastPathLoad, FastPathReturn, FastPathMiss, LockShard, FindHit, FindMiss, LockAlloc,
   MakeUncached, MakeUncachedFails, Refuse, Accept, StoreHot, Insert, nodeVars

(* What a reset has wiped stays wiped under the other threads.              *)
LEMMA WipedMake ==
    ASSUME Inv, NEW t \in Threads, MakeStep(t)
    PROVE  WipedSoFar' /\ HotDead' = HotDead
<1> USE DEF Inv, InterningInv
<1>1. /\ pc[t] \notin InReset /\ pc'[t] \notin InReset
      /\ \A u \in Threads \ {t} : pc'[u] = pc[u]
  BY MakeMoves
<1>2. CASE pc[t] \in InShard
  <2>1. \A u \in Threads : pc[u] \notin Wiping
    BY <1>2, ResetAlone
  <2>2. \A u \in Threads : pc'[u] \notin Wiping
    BY <1>1, <2>1
  <2> QED
    BY <2>1, <2>2 DEF WipedSoFar, HotDead
<1>3. CASE pc[t] \notin InShard
  <2>1. UNCHANGED <<num_shards, table, hot, mem>>
    BY <1>3, MakeInShard
  <2>2. \A u \in Threads : pc'[u] \in Wiping \/ pc[u] \in Wiping => pc'[u] = pc[u]
    BY <1>1
  <2> QED
    BY <2>1, <2>2 DEF WipedSoFar, HotDead
<1> QED
  BY <1>2, <1>3

(* A loaded constant stays in its cell while nodes are built.               *)
LEMMA LoadedMake ==
    ASSUME Inv, NEW t \in Threads, MakeStep(t)
    PROVE  LoadedCanonical'
<1> USE DEF Inv, InterningInv
<1> SUFFICES ASSUME NEW u \in Threads, u \notin overtaken', pc'[u] = "loaded"
             PROVE  /\ key'[u] \in HotKeys
                    /\ hot'[key'[u]] = cached'[u]
                    /\ mem'[cached'[u]] = key'[u]
  BY DEF LoadedCanonical
<1>m. /\ \A v \in Threads \ {t} : pc'[v] = pc[v] /\ key'[v] = key[v] /\ cached'[v] = cached[v]
  BY MakeMoves
<1>1. CASE u = t
  <2>1. FastPathLoad(t)
    BY <1>1 DEF TypeOK, MakeStep, FastPathLoad, FastPathReturn, FastPathMiss, LockShard, FindHit, FindMiss,
       LockAlloc, MakeUncached, MakeUncachedFails, Refuse, Accept, StoreHot, Insert
  <2>2. ~HotDead
    BY <1>1, <2>1 DEF FastPathLoad
  <2>3. /\ key[t] \in HotKeys /\ hot[key[t]] # Null /\ cached'[t] = hot[key[t]]
        /\ UNCHANGED <<key, hot, mem>>
    BY <2>1 DEF FastPathLoad, nodeVars, TypeOK
  <2>4. mem[hot[key[t]]] = key[t]
    BY <2>2, <2>3 DEF HotAgrees
  <2> QED
    BY <1>1, <2>3, <2>4
<1>2. CASE u # t
  <2>1. u \notin overtaken
    BY <1>2 DEF MakeStep, FastPathLoad, FastPathReturn, FastPathMiss, LockShard, FindHit, FindMiss,
       LockAlloc, MakeUncached, MakeUncachedFails, Refuse, Accept, StoreHot, Insert
  <2>2. /\ key[u] \in HotKeys /\ hot[key[u]] = cached[u] /\ mem[cached[u]] = key[u]
        /\ key'[u] = key[u] /\ cached'[u] = cached[u]
        /\ cached[u] \in Addrs /\ key[u] \in Keys /\ key[u] # Null /\ cached[u] # Null
    BY <1>m, <1>2, <2>1, NullAssumption DEF LoadedCanonical, TypeOK
  <2>3. CASE MakeUncached(t)
    BY <2>2, <2>3, NullAssumption DEF MakeUncached, TypeOK
  <2>4. CASE StoreHot(t) /\ key[t] \in HotKeys
    <3>1. hot[key[t]] = Null
      BY <2>4, FreshHot DEF StoreHot
    <3> QED
      BY <2>2, <2>4, <3>1 DEF StoreHot, TypeOK
  <2>5. CASE ~MakeUncached(t) /\ ~(StoreHot(t) /\ key[t] \in HotKeys)
    <3>1. UNCHANGED <<hot, mem>>
      BY <2>5 DEF MakeStep, FastPathLoad, FastPathReturn, FastPathMiss, LockShard, FindHit, FindMiss,
         LockAlloc, MakeUncachedFails, Refuse, Accept, StoreHot, Insert, nodeVars
    <3> QED
      BY <2>2, <3>1
  <2> QED
    BY <2>3, <2>4, <2>5
<1> QED
  BY <1>1, <1>2

(* A step from one place inside a shard to another, with the alloc mutex    *)
(* taken or given back only between "alloc", "make" and "check".            *)
LEMMA StillInside ==
    ASSUME TypeOK, LocksHeld, NEW t \in Threads, NEW to \in InShard \ {"make"},
           pc[t] \in InShard, pc' = [pc EXCEPT ![t] = to],
           UNCHANGED <<key, cursor, shard_mutex, num_shards>>,
           \/ UNCHANGED alloc_mutex /\ alloc_mutex # t
           \/ alloc_mutex = t /\ alloc_mutex' = Null
    PROVE  LocksHeld'
<1>1. \A u \in Threads : pc'[u] = IF u = t THEN to ELSE pc[u]
  BY DEF TypeOK
<1>2. alloc_mutex' # t /\ \A u \in Threads \ {t} : alloc_mutex = u <=> alloc_mutex' = u
  BY NullAssumption
<1>3. /\ Shards' = Shards /\ \A u \in Threads : ShardOf(key[u])' = ShardOf(key[u])
      /\ \A u \in Threads : cursor'[u] = cursor[u]
  OBVIOUS
<1> QED
  BY <1>1, <1>2, <1>3 DEF LocksHeld

LEMMA InvMake ==
    ASSUME Inv, NEW t \in Threads, MakeStep(t)
    PROVE  InterningInv'
<1> USE DEF Inv, InterningInv, TypeOK
<1>k. \A u \in Threads : key[u] \in Keys => ShardOf(key[u]) \in Shards
  BY ShardInRange
<1>w. WipedSoFar' /\ LoadedCanonical' /\ HotDead' = HotDead
  BY WipedMake, LoadedMake
<1>p. \A u \in Threads : pc[u] \in InReset \/ pc'[u] \in InReset => pc'[u] = pc[u]
  BY MakeMoves
<1>x. pc[t] \in InShard => ~HotDead /\ \A u \in Threads : pc[u] # "r_tables" /\ pc'[u] # "r_tables"
  BY <1>p, ResetAlone DEF HotDead
<1>0. CASE FastPathLoad(t)
  <2>1. LocksHeld'
    BY <1>0 DEF FastPathLoad, LocksHeld, nodeVars, lockVars
  <2>2. TableUnique' /\ HandedCanonical' /\ EmptyMeansEmpty'
    BY <1>0, <1>p DEF FastPathLoad, TableUnique, HandedCanonical, EmptyMeansEmpty, nodeVars
  <2>3. BuildersExclusive'
    BY <1>0, NullAssumption DEF FastPathLoad, BuildersExclusive, nodeVars
  <2>4. HotAgrees'
    BY <1>0, <1>w, KeysAssumption DEF FastPathLoad, HotAgrees, nodeVars
  <2> QED
    BY <1>w, <2>1, <2>2, <2>3, <2>4
<1>1. CASE FastPathReturn(t)
  <2>1. LocksHeld'
    BY <1>1 DEF FastPathReturn, LocksHeld, nodeVars, lockVars
  <2>2. TableUnique' /\ EmptyMeansEmpty'
    BY <1>1, <1>p DEF FastPathReturn, TableUnique, EmptyMeansEmpty, nodeVars
  <2>3. BuildersExclusive'
    BY <1>1, NullAssumption DEF FastPathReturn, BuildersExclusive, nodeVars
  <2>4. HotAgrees'
    BY <1>1, <1>w, KeysAssumption DEF FastPathReturn, HotAgrees, nodeVars
  <2>5. HandedCanonical'
    BY <1>1 DEF FastPathReturn, LoadedCanonical, HandedCanonical, nodeVars
  <2> QED
    BY <1>w, <2>1, <2>2, <2>3, <2>4, <2>5
<1>2. CASE FastPathMiss(t)
  <2>1. LocksHeld'
    BY <1>2, <1>k, NullAssumption DEF FastPathMiss, LocksHeld, nodeVars, lockVars
  <2>2. TableUnique' /\ HandedCanonical' /\ EmptyMeansEmpty'
    BY <1>2, <1>p DEF FastPathMiss, TableUnique, HandedCanonical, EmptyMeansEmpty, nodeVars
  <2>3. BuildersExclusive'
    BY <1>2, <1>k, NullAssumption DEF FastPathMiss, BuildersExclusive, LocksHeld, nodeVars
  <2>4. HotAgrees'
    BY <1>2, <1>w, KeysAssumption DEF FastPathMiss, HotAgrees, nodeVars
  <2> QED
    BY <1>w, <2>1, <2>2, <2>3, <2>4
<1>3. CASE LockShard(t)
  <2>1. LocksHeld'
    BY <1>3, <1>k, NullAssumption DEF LockShard, LocksHeld, nodeVars
  <2>2. TableUnique' /\ HandedCanonical' /\ EmptyMeansEmpty'
    BY <1>3, <1>p DEF LockShard, TableUnique, HandedCanonical, EmptyMeansEmpty, nodeVars
  <2>3. BuildersExclusive'
    BY <1>3, <1>k, NullAssumption DEF LockShard, BuildersExclusive, LocksHeld, nodeVars
  <2>4. HotAgrees'
    BY <1>3, <1>w, KeysAssumption DEF LockShard, HotAgrees, nodeVars
  <2> QED
    BY <1>w, <2>1, <2>2, <2>3, <2>4
<1>4. CASE FindHit(t)
  <2>u. /\ pc[t] = "find" /\ pc' = [pc EXCEPT ![t] = "idle"]
        /\ shard_mutex' = [shard_mutex EXCEPT ![ShardOf(key[t])] = Null]
        /\ UNCHANGED <<num_shards, cursor, alloc_mutex>>
        /\ \A u \in Threads : u # t => key'[u] = key[u]
    BY <1>4 DEF FindHit, nodeVars
  <2>1. LocksHeld'
    <3>1. shard_mutex[ShardOf(key[t])] = t /\ alloc_mutex # t
      BY <2>u DEF LocksHeld
    <3>2. \A s \in Shards : shard_mutex[s] # t => shard_mutex'[s] = shard_mutex[s]
      BY <2>u, <3>1
    <3>3. \A u \in Threads : pc'[u] = IF u = t THEN "idle" ELSE pc[u]
      BY <2>u
    <3>4. \A u \in Threads : pc[u] \in InShard /\ u # t => ShardOf(key[u]) \in Shards /\ ShardOf(key[u])' = ShardOf(key[u])
      BY <1>k, <2>u DEF ShardOf
    <3>5. Shards' = Shards
      BY <2>u DEF Shards
    <3> SUFFICES ASSUME NEW u \in Threads, u # t
                 PROVE  /\ pc[u] \in InShard => shard_mutex'[ShardOf(key[u])] = u
                        /\ pc[u] = "r_lock" => \A s \in Shards : s < cursor[u] => shard_mutex'[s] = u
                        /\ pc[u] \in {"r_alloc", "r_wipe"} \cup Wiping => \A s \in Shards : shard_mutex'[s] = u
                        /\ pc[u] = "r_unlock" => \A s \in Shards : s >= cursor[u] => shard_mutex'[s] = u
                        /\ pc[u] \in {"make", "r_wipe", "r_unlock"} \cup Wiping <=> alloc_mutex = u
      BY <2>u, <3>1, <3>3, <3>4, <3>5 DEF LocksHeld, InShard
    <3>6. \A s \in Shards : shard_mutex[s] = u => shard_mutex'[s] = u
      BY <3>1, <3>2
    <3>7. alloc_mutex' = alloc_mutex
      BY <2>u
    <3>8. LocksHeld
      OBVIOUS
    <3> HIDE DEF TypeOK, InterningInv, Inv
    <3> QED
      BY <3>4, <3>6, <3>7, <3>8, SMTT(30) DEF LocksHeld
  <2>2. TableUnique' /\ EmptyMeansEmpty'
    BY <1>4, <1>p DEF FindHit, TableUnique, EmptyMeansEmpty, nodeVars
  <2>3. BuildersExclusive'
    BY <1>4, NullAssumption DEF FindHit, BuildersExclusive, nodeVars
  <2>4. HotAgrees'
    BY <1>4, <1>w, KeysAssumption DEF FindHit, HotAgrees, nodeVars
  <2>5. HandedCanonical'
    BY <1>4 DEF FindHit, HotAgrees, HandedCanonical, nodeVars
  <2> QED
    BY <1>w, <2>1, <2>2, <2>3, <2>4, <2>5
<1>5. CASE FindMiss(t)
  <2>1. LocksHeld'
    <3>1. /\ pc[t] = "find" /\ pc' = [pc EXCEPT ![t] = "alloc"]
          /\ UNCHANGED <<key, cursor, shard_mutex, alloc_mutex, num_shards>>
      BY <1>5 DEF FindMiss, nodeVars, lockVars
    <3> QED
      BY <3>1, StillInside, NullAssumption DEF LocksHeld
  <2>2. TableUnique' /\ HandedCanonical' /\ EmptyMeansEmpty'
    BY <1>5, <1>p DEF FindMiss, TableUnique, HandedCanonical, EmptyMeansEmpty, nodeVars
  <2>3. BuildersExclusive'
    BY <1>5, <1>k, NullAssumption DEF FindMiss, BuildersExclusive, LocksHeld, nodeVars
  <2>4. HotAgrees'
    BY <1>5, <1>w, KeysAssumption DEF FindMiss, HotAgrees, nodeVars
  <2> QED
    BY <1>w, <2>1, <2>2, <2>3, <2>4
<1>6. CASE LockAlloc(t)
  <2>1. LocksHeld'
    BY <1>6, <1>k, NullAssumption DEF LockAlloc, LocksHeld, nodeVars
  <2>2. TableUnique' /\ HandedCanonical' /\ EmptyMeansEmpty'
    BY <1>6, <1>p DEF LockAlloc, TableUnique, HandedCanonical, EmptyMeansEmpty, nodeVars
  <2>3. BuildersExclusive'
    BY <1>6, <1>k, NullAssumption DEF LockAlloc, BuildersExclusive, LocksHeld, nodeVars
  <2>4. HotAgrees'
    BY <1>6, <1>w, KeysAssumption DEF LockAlloc, HotAgrees, nodeVars
  <2> QED
    BY <1>w, <2>1, <2>2, <2>3, <2>4
<1>7. CASE MakeUncached(t)
  <2>1. LocksHeld'
    <3>1. /\ pc[t] = "make" /\ pc' = [pc EXCEPT ![t] = "check"] /\ alloc_mutex' = Null
          /\ UNCHANGED <<key, cursor, shard_mutex, num_shards>>
      BY <1>7 DEF MakeUncached
    <3>2. alloc_mutex = t
      BY <3>1 DEF LocksHeld
    <3> QED
      BY <3>1, <3>2, StillInside, NullAssumption
  <2>2. TableUnique'
    BY <1>7, <1>x, NullAssumption DEF MakeUncached, TableUnique
  <2>3. BuildersExclusive'
    BY <1>7, <1>k, <1>x, NullAssumption DEF MakeUncached, TableUnique, BuildersExclusive
  <2>4. HotAgrees'
    BY <1>7, <1>w, <1>x, KeysAssumption, NullAssumption, ShardInRange DEF MakeUncached, HotAgrees, TableUnique
  <2>5. HandedCanonical' /\ EmptyMeansEmpty'
    BY <1>7, NullAssumption DEF MakeUncached, HandedCanonical, EmptyMeansEmpty
  <2> QED
    BY <1>w, <2>1, <2>2, <2>3, <2>4, <2>5
<1>8. CASE MakeUncachedFails(t)
  <2>1. LocksHeld'
    BY <1>8, <1>k, NullAssumption DEF MakeUncachedFails, LocksHeld, nodeVars
  <2>2. TableUnique' /\ HandedCanonical' /\ EmptyMeansEmpty'
    BY <1>8, <1>p DEF MakeUncachedFails, TableUnique, HandedCanonical, EmptyMeansEmpty, nodeVars
  <2>3. BuildersExclusive'
    BY <1>8, <1>k, NullAssumption DEF MakeUncachedFails, BuildersExclusive, LocksHeld, nodeVars
  <2>4. HotAgrees'
    BY <1>8, <1>w, KeysAssumption DEF MakeUncachedFails, HotAgrees, nodeVars
  <2> QED
    BY <1>w, <2>1, <2>2, <2>3, <2>4
<1>9. CASE Refuse(t)
  <2>1. LocksHeld'
    BY <1>9, <1>k, NullAssumption DEF Refuse, LocksHeld, nodeVars
  <2>2. TableUnique' /\ HandedCanonical' /\ EmptyMeansEmpty'
    BY <1>9, <1>p DEF Refuse, TableUnique, HandedCanonical, EmptyMeansEmpty, nodeVars
  <2>3. BuildersExclusive'
    BY <1>9, <1>k, NullAssumption DEF Refuse, BuildersExclusive, LocksHeld, nodeVars
  <2>4. HotAgrees'
    BY <1>9, <1>w, KeysAssumption DEF Refuse, HotAgrees, nodeVars
  <2> QED
    BY <1>w, <2>1, <2>2, <2>3, <2>4
<1>10. CASE Accept(t)
  <2>1. LocksHeld'
    BY <1>10, <1>k, NullAssumption DEF Accept, LocksHeld, nodeVars, lockVars
  <2>2. TableUnique' /\ HandedCanonical' /\ EmptyMeansEmpty'
    BY <1>10, <1>p DEF Accept, TableUnique, HandedCanonical, EmptyMeansEmpty, nodeVars
  <2>3. BuildersExclusive'
    BY <1>10, <1>k, NullAssumption DEF Accept, BuildersExclusive, LocksHeld, nodeVars
  <2>4. HotAgrees'
    BY <1>10, <1>w, KeysAssumption DEF Accept, HotAgrees, nodeVars
  <2> QED
    BY <1>w, <2>1, <2>2, <2>3, <2>4
<1>11. CASE StoreHot(t)
  <2>k. key[t] \in Keys /\ created[t] \in Addrs /\ created[t] # Null /\ mem[created[t]] = key[t]
    BY <1>11, NullAssumption DEF StoreHot, BuildersExclusive
  <2>f. key[t] \in HotKeys => hot[key[t]] = Null
    BY <1>11, FreshHot DEF StoreHot
  <2>1. LocksHeld' /\ TableUnique' /\ EmptyMeansEmpty'
    BY <1>11, <1>p DEF StoreHot, LocksHeld, TableUnique, EmptyMeansEmpty, lockVars
  <2>2. BuildersExclusive'
    <3>1. \A u \in Threads : u # t /\ pc[u] = "insert" => key[u] # key[t]
      BY <1>11, ShardExclusive DEF StoreHot, InShard
    <3>2. \A u \in Threads : pc'[u] = IF u = t THEN "insert" ELSE pc[u]
      BY <1>11 DEF StoreHot
    <3>3. /\ UNCHANGED <<num_shards, table, mem, key, created>>
          /\ \A k \in HotKeys : hot'[k] = IF k = key[t] THEN created[t] ELSE hot[k]
      BY <1>11 DEF StoreHot
    <3>4. pc[t] = "hot"
      BY <1>11 DEF StoreHot
    <3> QED
      BY <2>k, <3>1, <3>2, <3>3, <3>4 DEF BuildersExclusive
  <2>3. HotAgrees'
    <3> SUFFICES ASSUME NEW k \in HotKeys
                 PROVE  /\ hot'[k] # Null =>
                             /\ mem'[hot'[k]] = k
                             /\ \/ hot'[k] \in table'[ShardOf(k)']
                                \/ \E u \in Threads : pc'[u] = "insert" /\ key'[u] = k /\ created'[u] = hot'[k]
                        /\ \A a \in table'[ShardOf(k)'] : mem'[a] = k => hot'[k] = a
      BY DEF HotAgrees
    <3>1. CASE k = key[t]
      BY <1>11, <2>k, <3>1 DEF StoreHot, BuildersExclusive
    <3>2. CASE k # key[t]
      <4>1. hot'[k] = hot[k]
        BY <1>11, <3>2 DEF StoreHot
      <4>2. UNCHANGED <<num_shards, table, mem, key, created>>
        BY <1>11 DEF StoreHot
      <4>3. \A u \in Threads : pc[u] = "insert" => pc'[u] = "insert"
        BY <1>11 DEF StoreHot
      <4> QED
        BY <1>11, <1>x, <4>1, <4>2, <4>3 DEF HotAgrees, StoreHot
    <3> QED
      BY <3>1, <3>2
  <2>4. HandedCanonical'
    <3> SUFFICES ASSUME NEW p \in handed
                 PROVE  /\ mem[p[2]] = p[1]
                        /\ IF p[1] \in HotKeys THEN hot'[p[1]] = p[2] ELSE p[2] \in table[ShardOf(p[1])]
      BY <1>11 DEF StoreHot, HandedCanonical
    <3>1. p[1] \in HotKeys => hot[p[1]] = p[2] /\ p[2] # Null
      BY NullAssumption DEF HandedCanonical
    <3>2. p[1] \in HotKeys => hot'[p[1]] = hot[p[1]]
      BY <1>11, <2>f, <3>1 DEF StoreHot
    <3> QED
      BY <3>1, <3>2 DEF HandedCanonical
  <2> QED
    BY <1>w, <2>1, <2>2, <2>3, <2>4
<1>12. CASE Insert(t)
  <2>k. /\ key[t] \in Keys /\ ShardOf(key[t]) \in Shards
        /\ created[t] \in Addrs /\ mem[created[t]] = key[t]
        /\ \A a \in table[ShardOf(key[t])] : mem[a] # key[t]
    <3>1. pc[t] = "insert"
      BY <1>12 DEF Insert
    <3>2. key[t] \in Keys /\ created[t] \in Addrs
      BY <3>1
    <3>3. \A a \in table[ShardOf(key[t])] : mem[a] # key[t]
      BY <3>1 DEF BuildersExclusive
    <3> QED
      BY <1>k, <3>2, <3>3, NullAssumption DEF BuildersExclusive
  <2>t. /\ table' = [table EXCEPT ![ShardOf(key[t])] = @ \cup {created[t]}]
        /\ UNCHANGED <<num_shards, hot, mem, total_nodes>>
    BY <1>12 DEF Insert
  <2>s. /\ table'[ShardOf(key[t])] = table[ShardOf(key[t])] \cup {created[t]}
        /\ \A s \in Shards : s # ShardOf(key[t]) => table'[s] = table[s]
    BY <2>k, <2>t
  <2>1. LocksHeld'
    BY <1>12, <2>k, NullAssumption DEF Insert, LocksHeld
  <2>2. TableUnique'
    <3> SUFFICES ASSUME NEW s \in Shards, NEW a \in table'[s]
                 PROVE  /\ mem[a] \in Keys /\ ShardOf(mem[a]) = s
                        /\ \A b \in table'[s] : mem[a] = mem[b] => a = b
      BY <2>t DEF TableUnique
    <3>0. \A u \in Threads : pc[u] # "r_tables"
      BY <1>12, <1>x DEF Insert
    <3>1. CASE s = ShardOf(key[t])
      BY <2>k, <2>s, <3>0, <3>1 DEF TableUnique
    <3>2. CASE s # ShardOf(key[t])
      BY <2>s, <3>0, <3>2 DEF TableUnique
    <3> QED
      BY <3>1, <3>2
  <2>3. BuildersExclusive'
    BY <1>12, <1>k, <2>k, NullAssumption DEF Insert, BuildersExclusive, LocksHeld
  <2>4. HotAgrees'
    BY <1>12, <1>w, <1>x, <2>k, KeysAssumption, NullAssumption, ShardInRange DEF Insert, HotAgrees, BuildersExclusive
  <2>5. HandedCanonical'
    <3> SUFFICES ASSUME NEW p \in handed \cup {<<key[t], created[t]>>}
                 PROVE  /\ mem[p[2]] = p[1]
                        /\ IF p[1] \in HotKeys THEN hot[p[1]] = p[2] ELSE p[2] \in table'[ShardOf(p[1])]
      BY <1>12, <2>t DEF Insert, HandedCanonical
    <3>1. CASE p \in handed
      <4>1. p[1] \in Keys /\ ShardOf(p[1]) \in Shards
        BY <3>1, ShardInRange
      <4> QED
        BY <3>1, <4>1, <2>s DEF HandedCanonical
    <3>2. CASE p = <<key[t], created[t]>>
      BY <1>12, <2>k, <2>s, <3>2, NullAssumption DEF Insert, BuildersExclusive
    <3> QED
      BY <3>1, <3>2
  <2>6. EmptyMeansEmpty'
    BY <2>t DEF EmptyMeansEmpty
  <2> QED
    BY <1>w, <2>1, <2>2, <2>3, <2>4, <2>5, <2>6
<1> QED
  BY <1>0, <1>1, <1>2, <1>3, <1>4, <1>5, <1>6, <1>7, <1>8, <1>9, <1>10, <1>11, <1>12 DEF MakeStep

(* While a reset wipes, nothing is handed out and nothing loaded counts.    *)
LEMMA WipedFacts ==
    ASSUME Inv, NEW t \in Threads, pc[t] \in Wiping
    PROVE  /\ \A a \in Addrs : mem[a] = Null
           /\ handed = {}
           /\ \A u \in Threads : pc[u] = "loaded" => u \in overtaken
           /\ \A u \in Threads : created[u] = Null /\ pc[u] \notin InShard
<1> USE DEF Inv, InterningInv, TypeOK
<1>1. \A a \in Addrs : mem[a] = Null
  BY DEF WipedSoFar
<1>2. handed = {}
  <2> SUFFICES ASSUME NEW p \in handed PROVE FALSE
    OBVIOUS
  <2>1. p[1] \in Keys /\ p[2] \in Addrs /\ mem[p[2]] = p[1]
    BY DEF HandedCanonical
  <2> QED
    BY <1>1, <2>1, NullAssumption
<1>3. ASSUME NEW u \in Threads, pc[u] = "loaded", u \notin overtaken PROVE FALSE
  <2>1. cached[u] \in Addrs /\ key[u] \in Keys /\ mem[cached[u]] = key[u]
    BY <1>3 DEF LoadedCanonical
  <2> QED
    BY <1>1, <2>1, NullAssumption
<1>4. \A u \in Threads : pc[u] \notin InShard
  BY ResetAlone
<1>5. \A u \in Threads : created[u] = Null
  BY <1>4 DEF BuildersExclusive
<1> QED
  BY <1>1, <1>2, <1>3, <1>4, <1>5

LEMMA InvReset ==
    ASSUME Inv, NEW t \in Threads, ResetStep(t)
    PROVE  InterningInv'
<1> USE DEF Inv, InterningInv
<1>k. \A u \in Threads : key[u] \in Keys => ShardOf(key[u]) \in Shards
  BY ShardInRange DEF TypeOK
<1>n. num_shards \in Nat \ {0}
  BY ShardAssumption DEF TypeOK
<1>i. pc[t] \in InReset => cursor[t] \in Shards
  BY <1>n DEF TypeOK
<1>1. CASE ResetLockShard(t)
  <2>1. LocksHeld'
    <3>1. \A s \in Shards : shard_mutex'[s] = IF s = cursor[t] THEN t ELSE shard_mutex[s]
      BY <1>1, <1>i DEF ResetLockShard, TypeOK
    <3>2. shard_mutex[cursor[t]] = Null
      BY <1>1 DEF ResetLockShard
    <3>3. ASSUME NEW u \in Threads, u # t
          PROVE  pc'[u] = pc[u] /\ cursor'[u] = cursor[u]
      BY <1>1, <3>3 DEF ResetLockShard, TypeOK
    <3>4. \/ cursor[t] + 1 < num_shards /\ cursor'[t] = cursor[t] + 1 /\ pc'[t] = "r_lock"
          \/ cursor[t] + 1 >= num_shards /\ cursor'[t] = 0 /\ pc'[t] = "r_alloc"
      BY <1>1, <1>i, <1>n DEF ResetLockShard, TypeOK
    <3>5. UNCHANGED <<key, alloc_mutex, num_shards>> /\ pc[t] = "r_lock"
      BY <1>1 DEF ResetLockShard, nodeVars
    <3>6. \A s \in Shards : s < cursor'[t] \/ pc'[t] = "r_alloc" => shard_mutex'[s] = t
      BY <1>i, <1>n, <3>1, <3>4, <3>5 DEF LocksHeld
    <3>7. ASSUME NEW u \in Threads, u # t
          PROVE  /\ pc'[u] \in InShard => shard_mutex'[ShardOf(key[u])] = u
                 /\ pc'[u] = "r_lock" => \A s \in Shards : s < cursor'[u] => shard_mutex'[s] = u
                 /\ pc'[u] \in {"r_alloc", "r_wipe"} \cup Wiping => \A s \in Shards : shard_mutex'[s] = u
                 /\ pc'[u] = "r_unlock" => \A s \in Shards : s >= cursor'[u] => shard_mutex'[s] = u
                 /\ pc'[u] \in {"make", "r_wipe", "r_unlock"} \cup Wiping <=> alloc_mutex' = u
      <4>1. \A s \in Shards : shard_mutex[s] = u => shard_mutex'[s] = u
        BY <3>1, <3>2, NullAssumption
      <4>2. pc[u] \in InShard => ShardOf(key[u]) \in Shards
        BY <1>k DEF TypeOK
      <4> QED
        BY <3>3, <3>5, <3>7, <4>1, <4>2 DEF LocksHeld
    <3> QED
      BY <3>4, <3>5, <3>6, <3>7 DEF LocksHeld
  <2>w. /\ \A u \in Threads : pc'[u] \in Wiping \cup {"loaded"} \/ pc[u] \in Wiping \cup {"loaded"} => pc'[u] = pc[u]
        /\ UNCHANGED <<key, cached, nodeVars, historyVars>>
    BY <1>1 DEF ResetLockShard, TypeOK
  <2>h. HotDead' = HotDead
    BY <2>w DEF HotDead
  <2>l. WipedSoFar' /\ LoadedCanonical'
    BY <2>w DEF WipedSoFar, LoadedCanonical, nodeVars
  <2>2. TableUnique' /\ HandedCanonical' /\ EmptyMeansEmpty'
    BY <1>1, <2>w DEF ResetLockShard, TableUnique, HandedCanonical, EmptyMeansEmpty, nodeVars
  <2>3. \A u \in Threads : pc'[u] \in InShard \/ pc[u] \in InShard => pc'[u] = pc[u]
    BY <1>1 DEF ResetLockShard, TypeOK
  <2>4. BuildersExclusive'
    BY <1>1, <2>3 DEF ResetLockShard, BuildersExclusive, nodeVars
  <2>5. HotAgrees'
    BY <1>1, <2>3, <2>h, KeysAssumption DEF ResetLockShard, HotAgrees, nodeVars
  <2> QED
    BY <2>l, <2>1, <2>2, <2>4, <2>5
<1>2. CASE ResetLockAlloc(t)
  <2>1. LocksHeld'
    BY <1>2, NullAssumption DEF ResetLockAlloc, LocksHeld, nodeVars, TypeOK
  <2>w. /\ \A u \in Threads : pc'[u] \in Wiping \cup {"loaded"} \/ pc[u] \in Wiping \cup {"loaded"} => pc'[u] = pc[u]
        /\ UNCHANGED <<key, cached, nodeVars, historyVars>>
    BY <1>2 DEF ResetLockAlloc, TypeOK
  <2>h. HotDead' = HotDead
    BY <2>w DEF HotDead
  <2>l. WipedSoFar' /\ LoadedCanonical'
    BY <2>w DEF WipedSoFar, LoadedCanonical, nodeVars
  <2>2. TableUnique' /\ HandedCanonical' /\ EmptyMeansEmpty'
    BY <1>2, <2>w DEF ResetLockAlloc, TableUnique, HandedCanonical, EmptyMeansEmpty, nodeVars
  <2>3. BuildersExclusive'
    BY <1>2 DEF ResetLockAlloc, BuildersExclusive, nodeVars, TypeOK
  <2>4. HotAgrees'
    BY <1>2, <2>h, KeysAssumption DEF ResetLockAlloc, HotAgrees, nodeVars, TypeOK
  <2> QED
    BY <2>l, <2>1, <2>2, <2>3, <2>4
<1>3. CASE ResetDestroy(t)
  <2>0. /\ pc[t] = "r_wipe" /\ \A u \in Threads : pc[u] \notin InShard
        /\ \A u \in Threads \ {t} : pc'[u] = pc[u] /\ pc'[u] \notin Wiping
        /\ pc'[t] = "r_tables"
    BY <1>3, ResetAlone DEF ResetDestroy, TypeOK
  <2>n. \A u \in Threads : created[u] = Null
    BY <2>0 DEF BuildersExclusive
  <2>m. \A a \in Addrs : mem'[a] = Null
    BY <1>3 DEF ResetDestroy
  <2>1. LocksHeld'
    BY <1>3 DEF ResetDestroy, LocksHeld, lockVars, TypeOK
  <2>2. TableUnique' /\ HandedCanonical' /\ EmptyMeansEmpty'
    BY <1>3, <2>0, <2>m DEF ResetDestroy, TableUnique, HandedCanonical, EmptyMeansEmpty
  <2>3. BuildersExclusive'
    BY <1>3, <2>0, <2>n DEF ResetDestroy, BuildersExclusive, TypeOK
  <2>4. HotAgrees'
    <3>1. HotDead'
      BY <2>0 DEF HotDead
    <3>2. ASSUME NEW k \in HotKeys, NEW a \in table[ShardOf(k)], mem'[a] = k PROVE FALSE
      BY <2>m, <3>2, KeysAssumption, NullAssumption, ShardInRange DEF TypeOK
    <3> QED
      BY <1>3, <3>1, <3>2 DEF ResetDestroy, HotAgrees
  <2>5. WipedSoFar'
    BY <2>0, <2>m DEF WipedSoFar
  <2>6. LoadedCanonical'
    BY <1>3, <2>0 DEF ResetDestroy, LoadedCanonical
  <2> QED
    BY <2>1, <2>2, <2>3, <2>4, <2>5, <2>6
<1>5. CASE ResetClearTables(t)
  <2>0. /\ pc[t] = "r_tables"
        /\ \A u \in Threads \ {t} : pc'[u] = pc[u] /\ pc'[u] \notin Wiping
        /\ pc'[t] = "r_hot"
    BY <1>5, ResetAlone DEF ResetClearTables, TypeOK
  <2>w. /\ \A a \in Addrs : mem[a] = Null
        /\ handed = {}
        /\ \A u \in Threads : pc[u] = "loaded" => u \in overtaken
        /\ \A u \in Threads : created[u] = Null /\ pc[u] \notin InShard
    BY <2>0, WipedFacts
  <2>c. /\ \A s \in Shards : table'[s] = {}
        /\ UNCHANGED <<key, cached, created, num_shards, mem, hot, handed, overtaken>>
    BY <1>5 DEF ResetClearTables
  <2>1. LocksHeld'
    BY <1>5 DEF ResetClearTables, LocksHeld, lockVars, TypeOK
  <2>2. TableUnique' /\ HandedCanonical' /\ EmptyMeansEmpty'
    BY <2>c, <2>w DEF TableUnique, HandedCanonical, EmptyMeansEmpty
  <2>3. BuildersExclusive'
    BY <2>0, <2>c, <2>w DEF BuildersExclusive
  <2>4. HotAgrees'
    <3>1. HotDead'
      BY <2>0 DEF HotDead
    <3>2. \A k \in HotKeys : table'[ShardOf(k)] = {}
      BY <2>c, KeysAssumption, ShardInRange DEF TypeOK
    <3> QED
      BY <2>c, <3>1, <3>2 DEF HotAgrees
  <2>5. WipedSoFar'
    BY <2>0, <2>c, <2>w DEF WipedSoFar
  <2>6. LoadedCanonical'
    BY <2>0, <2>c, <2>w DEF LoadedCanonical
  <2> QED
    BY <2>1, <2>2, <2>3, <2>4, <2>5, <2>6
<1>6. CASE ResetClearHot(t)
  <2>0. /\ pc[t] = "r_hot"
        /\ \A u \in Threads \ {t} : pc'[u] = pc[u] /\ pc'[u] \notin Wiping
        /\ \/ pc'[t] = "r_hot"
           \/ pc'[t] = "r_counts" /\ \A k \in HotKeys : hot'[k] = Null
    BY <1>6, ResetAlone DEF ResetClearHot, TypeOK
  <2>w. /\ \A a \in Addrs : mem[a] = Null
        /\ handed = {}
        /\ \A u \in Threads : pc[u] = "loaded" => u \in overtaken
        /\ \A u \in Threads : created[u] = Null /\ pc[u] \notin InShard
    BY <2>0, WipedFacts
  <2>c. /\ \A s \in Shards : table[s] = {}
        /\ UNCHANGED <<key, cached, created, num_shards, table, mem, total_nodes, handed, overtaken>>
    BY <1>6, <2>0 DEF ResetClearHot, WipedSoFar
  <2>1. LocksHeld'
    BY <1>6, <2>0 DEF ResetClearHot, LocksHeld, lockVars
  <2>2. TableUnique' /\ HandedCanonical' /\ EmptyMeansEmpty'
    BY <2>c, <2>w DEF TableUnique, HandedCanonical, EmptyMeansEmpty
  <2>3. BuildersExclusive'
    BY <2>0, <2>c, <2>w DEF BuildersExclusive
  <2>4. HotAgrees'
    <3>1. HotDead' \/ \A k \in HotKeys : hot'[k] = Null
      BY <2>0 DEF HotDead
    <3>2. \A k \in HotKeys : table'[ShardOf(k)] = {}
      BY <2>c, KeysAssumption, ShardInRange DEF TypeOK
    <3> QED
      BY <2>c, <3>1, <3>2 DEF HotAgrees
  <2>5. WipedSoFar'
    BY <2>0, <2>c, <2>w DEF WipedSoFar
  <2>6. LoadedCanonical'
    BY <2>0, <2>c, <2>w DEF LoadedCanonical
  <2> QED
    BY <2>1, <2>2, <2>3, <2>4, <2>5, <2>6
<1>7. CASE ResetCounters(t)
  <2>0. /\ pc[t] = "r_counts"
        /\ \A u \in Threads \ {t} : pc'[u] = pc[u] /\ pc'[u] \notin Wiping
        /\ pc'[t] = "r_unlock"
    BY <1>7, ResetAlone DEF ResetCounters, TypeOK
  <2>w. /\ \A a \in Addrs : mem[a] = Null
        /\ handed = {}
        /\ \A u \in Threads : pc[u] = "loaded" => u \in overtaken
        /\ \A u \in Threads : created[u] = Null /\ pc[u] \notin InShard
    BY <2>0, WipedFacts
  <2>c. /\ \A s \in Shards : table[s] = {}
        /\ \A k \in HotKeys : hot[k] = Null
        /\ UNCHANGED <<key, cached, created, num_shards, table, hot, mem, handed, overtaken>>
    BY <1>7, <2>0 DEF ResetCounters, WipedSoFar
  <2>1. LocksHeld'
    BY <1>7 DEF ResetCounters, LocksHeld, lockVars, TypeOK
  <2>2. TableUnique' /\ HandedCanonical' /\ EmptyMeansEmpty'
    BY <2>c, <2>w DEF TableUnique, HandedCanonical, EmptyMeansEmpty
  <2>3. BuildersExclusive'
    BY <2>0, <2>c, <2>w DEF BuildersExclusive
  <2>4. HotAgrees'
    <3>1. \A k \in HotKeys : table'[ShardOf(k)] = {}
      BY <2>c, KeysAssumption, ShardInRange DEF TypeOK
    <3> QED
      BY <2>c, <3>1 DEF HotAgrees
  <2>5. WipedSoFar'
    BY <2>0 DEF WipedSoFar
  <2>6. LoadedCanonical'
    BY <2>0, <2>c, <2>w DEF LoadedCanonical
  <2> QED
    BY <2>1, <2>2, <2>3, <2>4, <2>5, <2>6
<1>4. CASE ResetUnlockShard(t)
  <2>1. LocksHeld'
    <3>1. \A s \in Shards : shard_mutex'[s] = IF s = cursor[t] THEN Null ELSE shard_mutex[s]
      BY <1>4, <1>i DEF ResetUnlockShard, TypeOK
    <3>2. shard_mutex[cursor[t]] = t /\ alloc_mutex = t
      BY <1>4, <1>i, <1>n DEF ResetUnlockShard, LocksHeld
    <3>3. ASSUME NEW u \in Threads, u # t
          PROVE  pc'[u] = pc[u] /\ cursor'[u] = cursor[u]
      BY <1>4, <3>3 DEF ResetUnlockShard, TypeOK
    <3>4. \/ cursor'[t] = cursor[t] + 1 /\ pc'[t] = "r_unlock" /\ alloc_mutex' = t
          \/ pc'[t] = "idle" /\ alloc_mutex' = Null
      BY <1>4, <3>2 DEF ResetUnlockShard, TypeOK
    <3>5. UNCHANGED <<key, num_shards>> /\ pc[t] = "r_unlock"
      BY <1>4 DEF ResetUnlockShard, nodeVars
    <3>6. \A s \in Shards : pc'[t] = "r_unlock" /\ s >= cursor'[t] => shard_mutex'[s] = t
      BY <1>i, <1>n, <3>1, <3>4, <3>5 DEF LocksHeld
    <3>7. ASSUME NEW u \in Threads, u # t
          PROVE  /\ pc'[u] \in InShard => shard_mutex'[ShardOf(key[u])] = u
                 /\ pc'[u] = "r_lock" => \A s \in Shards : s < cursor'[u] => shard_mutex'[s] = u
                 /\ pc'[u] \in {"r_alloc", "r_wipe"} \cup Wiping => \A s \in Shards : shard_mutex'[s] = u
                 /\ pc'[u] = "r_unlock" => \A s \in Shards : s >= cursor'[u] => shard_mutex'[s] = u
                 /\ pc'[u] \in {"make", "r_wipe", "r_unlock"} \cup Wiping <=> alloc_mutex' = u
      <4>1. \A s \in Shards : shard_mutex[s] = u => shard_mutex'[s] = u
        BY <3>1, <3>2, <3>7
      <4>2. pc[u] \in InShard => ShardOf(key[u]) \in Shards
        BY <1>k DEF TypeOK
      <4>3. alloc_mutex # u /\ alloc_mutex' # u
        BY <3>2, <3>4, <3>7, NullAssumption
      <4> QED
        BY <3>3, <3>5, <3>7, <4>1, <4>2, <4>3 DEF LocksHeld
    <3> QED
      BY <3>4, <3>5, <3>6, <3>7, NullAssumption DEF LocksHeld
  <2>w. /\ \A u \in Threads : pc'[u] \in Wiping \cup {"loaded"} \/ pc[u] \in Wiping \cup {"loaded"} => pc'[u] = pc[u]
        /\ UNCHANGED <<key, cached, nodeVars, historyVars>>
    BY <1>4 DEF ResetUnlockShard, TypeOK
  <2>h. HotDead' = HotDead
    BY <2>w DEF HotDead
  <2>l. WipedSoFar' /\ LoadedCanonical'
    BY <2>w DEF WipedSoFar, LoadedCanonical, nodeVars
  <2>2. TableUnique' /\ HandedCanonical' /\ EmptyMeansEmpty'
    BY <1>4, <2>w DEF ResetUnlockShard, TableUnique, HandedCanonical, EmptyMeansEmpty, nodeVars
  <2>3. \A u \in Threads : pc'[u] \in InShard \/ pc[u] \in InShard => pc'[u] = pc[u]
    BY <1>4 DEF ResetUnlockShard, TypeOK
  <2>4. BuildersExclusive'
    BY <1>4, <2>3 DEF ResetUnlockShard, BuildersExclusive, nodeVars
  <2>5. HotAgrees'
    BY <1>4, <2>3, <2>h, KeysAssumption DEF ResetUnlockShard, HotAgrees, nodeVars
  <2> QED
    BY <2>l, <2>1, <2>2, <2>4, <2>5
<1> QED
  BY <1>1, <1>2, <1>3, <1>4, <1>5, <1>6, <1>7 DEF ResetStep

LEMMA InvCall ==
    ASSUME Inv, NEW t \in Threads, Call(t)
    PROVE  InterningInv'
<1> USE DEF Inv, InterningInv
<1>1. /\ pc[t] = "idle" /\ \E p \in {"fast", "r_lock"} : pc' = [pc EXCEPT ![t] = p]
      /\ \A u \in Threads : u # t => key'[u] = key[u] /\ cursor'[u] = cursor[u]
      /\ pc'[t] = "r_lock" => cursor'[t] = 0
      /\ UNCHANGED <<cached, created, lockVars, nodeVars, handed, overtaken>>
  <2>1. CASE CallReset(t)
    BY <2>1 DEF CallReset, TypeOK
  <2>2. CASE \E k \in Keys : CallMake(t, k)
    BY <2>2 DEF CallMake, TypeOK
  <2> QED
    BY <2>1, <2>2 DEF Call
<1>2. pc'[t] \in {"fast", "r_lock"} /\ \A u \in Threads : u # t => pc'[u] = pc[u]
  BY <1>1 DEF TypeOK
<1>3. LocksHeld'
  <2>1. cursor'[t] = 0 \/ pc'[t] = "fast"
    BY <1>1, <1>2
  <2> QED
    BY <1>1, <1>2, <2>1 DEF LocksHeld, lockVars, nodeVars
<1>4. TableUnique' /\ HandedCanonical' /\ EmptyMeansEmpty'
  BY <1>1, <1>2 DEF TableUnique, HandedCanonical, EmptyMeansEmpty, nodeVars
<1>5. BuildersExclusive'
  BY <1>1, <1>2 DEF BuildersExclusive, nodeVars
<1>6. HotAgrees'
  <2>1. HotDead' = HotDead
    BY <1>1, <1>2 DEF HotDead
  <2> QED
    BY <1>1, <1>2, <2>1, KeysAssumption DEF HotAgrees, nodeVars
<1>7. WipedSoFar' /\ LoadedCanonical'
  BY <1>1, <1>2 DEF WipedSoFar, LoadedCanonical, nodeVars
<1> QED
  BY <1>3, <1>4, <1>5, <1>6, <1>7

(* Nobody is inside the arena, so nothing is being built. *)
LEMMA QuiescentInv ==
    ASSUME Inv, Quiescent, UNCHANGED <<pc, key, created, alloc_mutex>>
    PROVE  /\ LocksHeld' /\ BuildersExclusive' /\ WipedSoFar' /\ LoadedCanonical'
           /\ \A t \in Threads : created[t] = Null
BY DEF Inv, InterningInv, Quiescent, LocksHeld, BuildersExclusive, WipedSoFar, LoadedCanonical

LEMMA InvOwner ==
    ASSUME Inv, Owner
    PROVE  InterningInv'
<1> USE DEF Inv, InterningInv
<1>1. ASSUME NEW b \in Budgets, SetMaxMemoryBudget(b) PROVE InterningInv'
  BY <1>1 DEF SetMaxMemoryBudget, LocksHeld, TableUnique, WipedSoFar, BuildersExclusive, HotDead, HotAgrees, LoadedCanonical,
              HandedCanonical, EmptyMeansEmpty, threadVars, lockVars, nodeVars
<1>2. CASE ClearHashDosFlag
  BY <1>2 DEF ClearHashDosFlag, LocksHeld, TableUnique, WipedSoFar, BuildersExclusive, HotDead, HotAgrees, LoadedCanonical,
              HandedCanonical, EmptyMeansEmpty, threadVars, lockVars, nodeVars
<1>3. ASSUME NEW n \in ShardCounts, ConfigureShards(n) PROVE InterningInv'
  <2>1. /\ Quiescent /\ UNCHANGED <<pc, key, created, alloc_mutex, hot, mem, total_nodes, handed>>
        /\ num_shards' = n /\ table' = [s \in 0 .. n - 1 |-> {}] /\ total_nodes = 0
    BY <1>3 DEF ConfigureShards, threadVars
  <2>q. ~HotDead
    BY <2>1 DEF Quiescent, HotDead
  <2>2. \A a \in Addrs : mem[a] = Null
    BY <2>1 DEF EmptyMeansEmpty
  <2>3. handed = {} /\ \A k \in HotKeys : hot[k] = Null
    <3>1. ASSUME NEW p \in handed PROVE FALSE
      <4>1. p[1] \in Keys /\ p[2] \in Addrs /\ mem[p[2]] = p[1]
        BY DEF HandedCanonical, TypeOK
      <4> QED
        BY <2>2, <4>1, NullAssumption
    <3>2. ASSUME NEW k \in HotKeys, hot[k] # Null PROVE FALSE
      <4>1. hot[k] \in Addrs /\ mem[hot[k]] = k /\ k \in Keys
        BY <2>q, <3>2, KeysAssumption DEF HotAgrees, TypeOK
      <4> QED
        BY <2>2, <4>1, NullAssumption
    <3> QED
      BY <3>1, <3>2
  <2>4. LocksHeld' /\ BuildersExclusive' /\ WipedSoFar' /\ LoadedCanonical'
    BY <2>1, QuiescentInv
  <2>5. TableUnique' /\ HandedCanonical' /\ EmptyMeansEmpty'
    BY <2>1, <2>2, <2>3 DEF TableUnique, HandedCanonical, EmptyMeansEmpty
  <2>6. HotAgrees'
    <3>1. \A k \in HotKeys : Hash[k] % n \in 0 .. n - 1
      BY KeysAssumption, ShardInRange
    <3> QED
      BY <2>1, <2>3, <3>1 DEF HotAgrees
  <2> QED
    BY <2>4, <2>5, <2>6
<1>4. ASSUME NEW n \in ShardCounts, Collect(n) PROVE InterningInv'
  <2>1. PICK keep \in SUBSET Keys, all \in SUBSET Keys :
          \E place \in [all -> Addrs] : Placed(keep, all, place, n)
    BY <1>4, CollectPlaces
  <2>2. PICK place \in [all -> Addrs] : Placed(keep, all, place, n)
    BY <2>1
  <2>3. /\ Quiescent /\ UNCHANGED <<pc, key, created, alloc_mutex>>
        /\ num_shards' = n /\ handed' = {}
    BY <1>4 DEF Collect, threadVars
  <2>k. keep \subseteq all
    BY <2>2 DEF Placed
  <2>m. \A k \in all : mem'[place[k]] = k
    <3> SUFFICES ASSUME NEW k \in all PROVE mem'[place[k]] = k
      OBVIOUS
    <3>1. place[k] \in Addrs
      OBVIOUS
    <3>2. mem'[place[k]] = CHOOSE m \in all : place[m] = place[k]
      BY <2>2, <3>1 DEF Placed
    <3> QED
      BY <2>2, <3>2 DEF Placed
  <2>t. \A s \in 0 .. n - 1 : table'[s] = {place[k] : k \in {m \in keep : Hash[m] % n = s}}
    BY <2>2 DEF Placed
  <2>4. LocksHeld' /\ BuildersExclusive' /\ WipedSoFar' /\ LoadedCanonical'
    BY <2>3, QuiescentInv
  <2>5. TableUnique'
    <3> SUFFICES ASSUME NEW s \in 0 .. n - 1, NEW a \in table'[s]
                 PROVE  /\ mem'[a] \in Keys /\ Hash[mem'[a]] % n = s
                        /\ \A b \in table'[s] : mem'[a] = mem'[b] => a = b
      BY <2>3 DEF TableUnique
    <3>1. PICK k \in keep : a = place[k] /\ Hash[k] % n = s
      BY <2>t
    <3>2. \A b \in table'[s] : \E m \in keep : b = place[m]
      BY <2>t
    <3> QED
      BY <2>k, <2>m, <3>1, <3>2
  <2>6. HotAgrees'
    <3> SUFFICES ASSUME NEW k \in HotKeys
                 PROVE  /\ hot'[k] # Null => mem'[hot'[k]] = k /\ hot'[k] \in table'[Hash[k] % n]
                        /\ \A a \in table'[Hash[k] % n] : mem'[a] = k => hot'[k] = a
      BY <2>3 DEF HotAgrees
    <3>1. Hash[k] % n \in 0 .. n - 1
      BY KeysAssumption, ShardInRange
    <3>2. hot'[k] = IF k \in keep THEN place[k] ELSE Null
      BY <2>2 DEF Placed
    <3>3. ASSUME NEW a \in table'[Hash[k] % n], mem'[a] = k PROVE hot'[k] = a
      <4>1. PICK m \in keep : a = place[m]
        BY <2>t, <3>1
      <4> QED
        BY <2>k, <2>m, <3>2, <3>3, <4>1
    <3>4. CASE k \in keep
      BY <2>k, <2>m, <2>t, <3>1, <3>2, <3>3, <3>4
    <3>5. CASE k \notin keep
      BY <3>2, <3>3, <3>5
    <3> QED
      BY <3>4, <3>5
  <2>7. HandedCanonical'
    BY <2>3 DEF HandedCanonical
  <2>8. EmptyMeansEmpty'
    <3>1. Cardinality(all) = 0 => all = {}
      BY KeysAssumption, FS_Subset, FS_EmptySet
    <3>2. all = {} => \A a \in Addrs : mem'[a] = Null
      BY <2>2 DEF Placed
    <3> QED
      BY <2>2, <3>1, <3>2 DEF EmptyMeansEmpty, Placed
  <2> QED
    BY <2>4, <2>5, <2>6, <2>7, <2>8
<1> QED
  BY <1>1, <1>2, <1>3, <1>4 DEF Owner

LEMMA InvInit == Init => Inv
<1> SUFFICES ASSUME Init PROVE Inv
  OBVIOUS
<1>1. TypeOK
  BY TypeInit
<1>2. LocksHeld /\ BuildersExclusive
  BY NullAssumption DEF Init, LocksHeld, BuildersExclusive
<1>3. TableUnique /\ HandedCanonical /\ EmptyMeansEmpty /\ WipedSoFar /\ LoadedCanonical
  BY DEF Init, TableUnique, HandedCanonical, EmptyMeansEmpty, WipedSoFar, LoadedCanonical
<1>4. HotAgrees
  <2>1. \A k \in HotKeys : ShardOf(k) \in Shards
    BY KeysAssumption, ShardInRange DEF Init
  <2> QED
    BY <2>1 DEF Init, HotAgrees
<1> QED
  BY <1>1, <1>2, <1>3, <1>4 DEF Inv, InterningInv

LEMMA InvNext == Inv /\ [Next]_vars => Inv'
<1> SUFFICES ASSUME Inv, [Next]_vars PROVE Inv'
  OBVIOUS
<1>1. TypeOK'
  BY TypeNext DEF Inv
<1>2. CASE UNCHANGED vars
  BY <1>1, <1>2 DEF Inv, InterningInv, LocksHeld, TableUnique, WipedSoFar, BuildersExclusive, HotDead, HotAgrees,
     LoadedCanonical, HandedCanonical, EmptyMeansEmpty, vars, threadVars, lockVars, nodeVars
<1>3. CASE Owner
  BY <1>1, <1>3, InvOwner DEF Inv
<1>4. ASSUME NEW t \in Threads, Call(t) \/ MakeStep(t) \/ ResetStep(t) PROVE Inv'
  BY <1>1, <1>4, InvCall, InvMake, InvReset DEF Inv
<1> QED
  BY <1>2, <1>3, <1>4 DEF Next

(* Locks, tables, hot cells and builders agree in every reachable state. *)
THEOREM InterningInvariant == Spec => []InterningInv
<1>1. Inv => InterningInv
  BY DEF Inv
<1> QED
  BY <1>1, InvInit, InvNext, PTL DEF Spec

(* Hash-consing: whatever the interleaving of make, reset and collection,   *)
(* two callers given a node for the same key hold the same pointer, and it  *)
(* still is a node of that key, for every read that no reset overtakes.     *)
THEOREM PointersUnique == Spec => []HandedUnique
<1>1. Inv => HandedUnique
  <2> SUFFICES ASSUME Inv, NEW p \in handed, NEW q \in handed
               PROVE  mem[p[2]] = p[1] /\ (p[1] = q[1] => p[2] = q[2])
    BY DEF HandedUnique
  <2>1. mem[p[2]] = p[1] /\ mem[q[2]] = q[1] /\ p[1] \in Keys /\ ShardOf(p[1]) \in Shards
    BY ShardInRange DEF Inv, InterningInv, HandedCanonical, TypeOK
  <2>2. \A t \in Threads : pc[t] # "r_tables"
    <3> SUFFICES ASSUME NEW t \in Threads, pc[t] = "r_tables" PROVE FALSE
      OBVIOUS
    <3> QED
      BY WipedFacts
  <2> QED
    BY <2>1, <2>2 DEF Inv, InterningInv, HandedCanonical, TableUnique
<1> QED
  BY <1>1, InvInit, InvNext, PTL DEF Spec

-----------------------------------------------------------------------------
(* The memory budget. *)

LEMMA BudgetNext == TypeOK /\ ExhaustedMeansFull /\ [Next]_vars => ExhaustedMeansFull'
<1> SUFFICES ASSUME TypeOK, ExhaustedMeansFull, [Next]_vars PROVE ExhaustedMeansFull'
  OBVIOUS
<1>n. bytes_allocated \in Nat /\ max_budget \in Nat
  BY BoundAssumption DEF TypeOK
<1>1. CASE UNCHANGED budgetVars
  BY <1>1 DEF ExhaustedMeansFull, budgetVars
<1>2. ASSUME NEW t \in Threads, MakeUncached(t) PROVE ExhaustedMeansFull'
  BY <1>2 DEF MakeUncached, Allocate, AllocateFails, ExhaustedMeansFull
<1>3. ASSUME NEW t \in Threads, MakeUncachedFails(t) PROVE ExhaustedMeansFull'
  <2>1. max_budget > 0 /\ bytes_allocated >= max_budget
    BY <1>3, <1>n DEF MakeUncachedFails, AllocateFails, OverBudget, ExhaustedMeansFull
  <2> QED
    BY <1>3, <2>1 DEF MakeUncachedFails, ExhaustedMeansFull
<1>4. ASSUME NEW t \in Threads, ResetDestroy(t) \/ ResetCounters(t) PROVE ExhaustedMeansFull'
  BY <1>4 DEF ResetDestroy, ResetCounters, ExhaustedMeansFull
<1>5. ASSUME NEW b \in Budgets, SetMaxMemoryBudget(b) PROVE ExhaustedMeansFull'
  <2>1. budget_exhausted' => b # 0 /\ bytes_allocated > b
    BY <1>5, Zenon DEF SetMaxMemoryBudget
  <2>2. max_budget' = b /\ bytes_allocated' = bytes_allocated
    BY <1>5 DEF SetMaxMemoryBudget
  <2> QED
    BY <1>n, <2>1, <2>2, BoundAssumption DEF ExhaustedMeansFull
<1>6. ASSUME NEW n \in ShardCounts, Collect(n) PROVE ExhaustedMeansFull'
  BY <1>6 DEF Collect, ExhaustedMeansFull
<1>7. ASSUME NEW n \in ShardCounts, ConfigureShards(n) PROVE UNCHANGED budgetVars
  BY <1>7 DEF ConfigureShards
<1>8. ClearHashDosFlag => UNCHANGED budgetVars
  BY DEF ClearHashDosFlag
<1>9. ASSUME NEW t \in Threads, Call(t) PROVE UNCHANGED budgetVars
  BY <1>9 DEF Call, CallMake, CallReset
<1>10. ASSUME NEW t \in Threads, MakeStep(t), ~MakeUncached(t), ~MakeUncachedFails(t)
       PROVE  UNCHANGED budgetVars
  BY <1>10 DEF MakeStep, FastPathLoad, FastPathReturn, FastPathMiss, LockShard, FindHit, FindMiss, LockAlloc,
               Refuse, Accept, StoreHot, Insert
<1>11. ASSUME NEW t \in Threads, ResetStep(t), ~ResetDestroy(t), ~ResetCounters(t)
       PROVE  UNCHANGED budgetVars
  BY <1>11 DEF ResetStep, ResetLockShard, ResetLockAlloc, ResetClearTables, ResetClearHot, ResetUnlockShard
<1> QED
  BY <1>1, <1>2, <1>3, <1>4, <1>5, <1>6, <1>7, <1>8, <1>9, <1>10, <1>11 DEF Next, Owner, vars

(* The exhausted flag never outlives the shortage: while it is up the next  *)
(* block would exceed the budget in force, for all budgets and resets.      *)
THEOREM ExhaustionJustified == Spec => []ExhaustedMeansFull
<1>1. Init => ExhaustedMeansFull
  BY DEF Init, ExhaustedMeansFull
<1> QED
  BY <1>1, TypeInit, TypeNext, BudgetNext, PTL DEF Spec

-----------------------------------------------------------------------------
(* Nodes stay put. *)

LEMMA StableStep ==
    ASSUME Inv, Next, NEW a \in Live, mem'[a] # mem[a]
    PROVE  \A t \in Threads : pc[t] \notin InShard
<1> USE DEF Inv
<1>1. a \in Addrs /\ mem[a] # Null
  BY DEF Live
<1>2. ASSUME NEW t \in Threads, Call(t) \/ MakeStep(t) PROVE FALSE
  <2>1. CASE MakeUncached(t)
    BY <1>1, <2>1 DEF MakeUncached, TypeOK
  <2>2. CASE ~MakeUncached(t)
    BY <1>2, <2>2 DEF Call, CallMake, CallReset, MakeStep, FastPathLoad, FastPathReturn, FastPathMiss, LockShard,
       FindHit, FindMiss, LockAlloc, MakeUncachedFails, Refuse, Accept, StoreHot, Insert, nodeVars
  <2> QED
    BY <2>1, <2>2
<1>3. ASSUME NEW t \in Threads, ResetStep(t) PROVE \A u \in Threads : pc[u] \notin InShard
  <2>1. CASE ResetDestroy(t)
    BY <2>1, ResetAlone DEF ResetDestroy, InterningInv
  <2>2. CASE ~ResetDestroy(t)
    BY <1>3, <2>2 DEF ResetStep, ResetLockShard, ResetLockAlloc, ResetClearTables, ResetClearHot, ResetCounters,
       ResetUnlockShard, nodeVars
  <2> QED
    BY <2>1, <2>2
<1>4. CASE Owner
  BY <1>4 DEF Owner, SetMaxMemoryBudget, ClearHashDosFlag, ConfigureShards, Collect, Quiescent, nodeVars
<1> QED
  BY <1>2, <1>3, <1>4 DEF Next

(* No node is destroyed or moved while a thread is between its shard lock   *)
(* and its return, whatever resets and collections are attempted.           *)
THEOREM NodesNeverMoveUnderMake == Spec => NodesStable
<1>1. Inv /\ [Next]_vars =>
        [(\E a \in Live : mem'[a] # mem[a]) => \A t \in Threads : pc[t] \notin InShard]_vars
  BY StableStep
<1> QED
  BY <1>1, InvInit, InvNext, PTL DEF Spec, NodesStable

-----------------------------------------------------------------------------
(* The arena implements the abstract intern table. *)

CanonicalFacts ==
    \A k \in Keys :
        /\ Canonical[k] \in Addrs \cup {Null}
        /\ Canonical[k] # Null => mem[Canonical[k]] = k
        /\ k \in HotKeys => Canonical[k] = IF hot[k] # Null /\ mem[hot[k]] = k THEN hot[k] ELSE Null
        /\ k \notin HotKeys =>
             /\ NodesOf(k) = {} => Canonical[k] = Null
             /\ \A a \in NodesOf(k) : Canonical[k] = a

LEMMA CanonicalOK == Inv => CanonicalFacts
<1> SUFFICES ASSUME Inv, NEW k \in Keys
             PROVE  /\ Canonical[k] \in Addrs \cup {Null}
                    /\ Canonical[k] # Null => mem[Canonical[k]] = k
                    /\ k \in HotKeys => Canonical[k] = IF hot[k] # Null /\ mem[hot[k]] = k THEN hot[k] ELSE Null
                    /\ k \notin HotKeys =>
                         /\ NodesOf(k) = {} => Canonical[k] = Null
                         /\ \A a \in NodesOf(k) : Canonical[k] = a
  BY DEF CanonicalFacts
<1>1. CASE k \in HotKeys
  BY <1>1 DEF Canonical, Inv, TypeOK
<1>2. CASE k \notin HotKeys /\ NodesOf(k) = {}
  BY <1>2 DEF Canonical
<1>3. CASE k \notin HotKeys /\ NodesOf(k) # {}
  <2>1. ShardOf(k) \in Shards
    BY ShardInRange DEF Inv, TypeOK
  <2>2. PICK a \in NodesOf(k) : Canonical[k] = a
    BY <1>3 DEF Canonical
  <2>3. a \in Addrs /\ mem[a] = k
    BY <2>1, <2>2 DEF NodesOf, Inv, TypeOK
  <2>w. \A t \in Threads : pc[t] # "r_tables"
    <3> SUFFICES ASSUME NEW t \in Threads, pc[t] = "r_tables" PROVE FALSE
      OBVIOUS
    <3> QED
      BY <2>3, WipedFacts, NullAssumption
  <2>4. \A b \in NodesOf(k) : b = a
    BY <2>1, <2>2, <2>w DEF NodesOf, Inv, InterningInv, TableUnique
  <2> QED
    BY <1>3, <2>2, <2>3, <2>4
<1> QED
  BY <1>1, <1>2, <1>3

LEMMA CanonicalOKNext == Inv' => CanonicalFacts'
BY CanonicalOK, PTL

(* Steps that leave the tables, the cells and the hot constants alone. *)
LEMMA SameCanonical ==
    ASSUME UNCHANGED <<num_shards, table, hot, mem>>
    PROVE  Canonical' = Canonical
BY DEF Canonical, NodesOf

LEMMA RefineMake ==
    ASSUME Inv, Inv', NEW t \in Threads, MakeStep(t)
    PROVE  Abstract!Next \/ UNCHANGED <<Canonical, handed>>
<1> USE DEF Inv
<1>f. CanonicalFacts /\ CanonicalFacts'
  BY CanonicalOK, CanonicalOKNext
<1>k. \A m \in Keys : ShardOf(m) \in Shards
  BY ShardInRange DEF TypeOK
<1>x. pc[t] \in InShard => ~HotDead /\ \A u \in Threads : pc[u] # "r_tables"
  BY ResetAlone DEF InterningInv, HotDead
<1>1. CASE FastPathReturn(t)
  <2>1. Canonical' = Canonical
    BY <1>1, SameCanonical DEF FastPathReturn, nodeVars
  <2>2. CASE t \in overtaken
    BY <1>1, <2>1, <2>2 DEF FastPathReturn
  <2>3. CASE t \notin overtaken
    <3>1. key[t] \in Keys /\ key[t] \in HotKeys /\ hot[key[t]] = cached[t] /\ mem[cached[t]] = key[t]
          /\ cached[t] \in Addrs
      BY <1>1, <2>3 DEF FastPathReturn, TypeOK, InterningInv, LoadedCanonical
    <3>2. Canonical[key[t]] = cached[t] /\ cached[t] # Null
      BY <1>f, <3>1, NullAssumption DEF CanonicalFacts
    <3>3. Abstract!Answer(key[t])
      BY <1>1, <2>1, <2>3, <3>2 DEF FastPathReturn, Abstract!Answer
    <3> QED
      BY <3>1, <3>3 DEF Abstract!Next
  <2> QED
    BY <2>2, <2>3
<1>2. CASE FindHit(t)
  <2>1. Canonical' = Canonical
    BY <1>2, SameCanonical DEF FindHit, nodeVars
  <2>2. PICK a \in table[ShardOf(key[t])] : mem[a] = key[t] /\ handed' = handed \cup {<<key[t], a>>}
    BY <1>2 DEF FindHit
  <2>3. key[t] \in Keys /\ a \in Addrs
    BY <1>2, <1>k, <2>2 DEF FindHit, TypeOK
  <2>4. Canonical[key[t]] = a
    BY <1>f, <1>k, <2>2, <2>3, NullAssumption DEF CanonicalFacts, NodesOf, InterningInv, HotAgrees
  <2>5. Abstract!Answer(key[t])
    BY <2>1, <2>2, <2>3, <2>4, NullAssumption DEF Abstract!Answer
  <2> QED
    BY <2>3, <2>5 DEF Abstract!Next
<1>3. CASE MakeUncached(t)
  <2>1. PICK a \in Addrs : mem[a] = Null /\ mem' = [mem EXCEPT ![a] = key[t]]
    BY <1>3 DEF MakeUncached
  <2>2. UNCHANGED <<num_shards, table, hot, handed>>
    BY <1>3 DEF MakeUncached
  <2>3. \A m \in Keys : NodesOf(m)' = NodesOf(m)
    <3>1. \A m \in Keys : \A b \in table[ShardOf(m)] : mem'[b] = mem[b]
      BY <1>3, <1>k, <1>x, <2>1, NullAssumption DEF MakeUncached, InterningInv, TableUnique, TypeOK
    <3> QED
      BY <2>2, <3>1 DEF NodesOf
  <2>h. \A m \in HotKeys : hot[m] # Null => mem[hot[m]] = m /\ mem'[hot[m]] = m
    BY <1>3, <1>x, <2>1, KeysAssumption, NullAssumption DEF MakeUncached, InterningInv, HotAgrees, TypeOK
  <2>4. \A m \in Keys : Canonical'[m] = Canonical[m]
    BY <1>f, <2>2, <2>3, <2>h DEF CanonicalFacts
  <2>5. Canonical' = Canonical
    BY <2>4 DEF Canonical
  <2> QED
    BY <2>2, <2>5
<1>4. CASE StoreHot(t)
  <2>0. pc[t] = "hot" /\ key[t] \in Keys /\ created[t] \in Addrs /\ mem[created[t]] = key[t]
    BY <1>4, NullAssumption DEF StoreHot, TypeOK, InterningInv, BuildersExclusive
  <2>1. CASE key[t] \notin HotKeys
    BY <1>4, <2>1, SameCanonical DEF StoreHot
  <2>2. CASE key[t] \in HotKeys
    <3>1. /\ UNCHANGED <<num_shards, table, mem, handed>>
          /\ \A m \in HotKeys : hot'[m] = IF m = key[t] THEN created[t] ELSE hot[m]
      BY <1>4, <2>2 DEF StoreHot, TypeOK
    <3>2. \A m \in Keys : Canonical'[m] = IF m = key[t] THEN created[t] ELSE Canonical[m]
      BY <2>0, <2>2, <3>1, NullAssumption DEF Canonical, NodesOf
    <3>3. hot[key[t]] = Null
      BY <2>0, <2>2, FreshHot
    <3>4. Canonical[key[t]] = Null
      BY <1>f, <2>0, <2>2, <3>3 DEF CanonicalFacts
    <3>5. created[t] \notin {Canonical[m] : m \in Keys}
      BY <1>f, <2>0, <3>4, NullAssumption DEF CanonicalFacts
    <3>6. Canonical' = [Canonical EXCEPT ![key[t]] = created[t]]
      BY <2>0, <3>2 DEF Canonical
    <3>7. Abstract!Publish(key[t])
      BY <2>0, <3>1, <3>4, <3>5, <3>6 DEF Abstract!Publish
    <3> QED
      BY <2>0, <3>7 DEF Abstract!Next
  <2> QED
    BY <2>1, <2>2
<1>5. CASE Insert(t)
  <2>0. /\ pc[t] = "insert" /\ key[t] \in Keys /\ ShardOf(key[t]) \in Shards
        /\ created[t] \in Addrs /\ created[t] # Null
        /\ handed' = handed \cup {<<key[t], created[t]>>}
        /\ UNCHANGED <<num_shards, hot, mem>>
    BY <1>5, <1>k, NullAssumption DEF Insert, TypeOK
  <2>1. /\ mem[created[t]] = key[t]
        /\ \A a \in table[ShardOf(key[t])] : mem[a] # key[t]
        /\ key[t] \in HotKeys => hot[key[t]] = created[t]
    BY <2>0 DEF InterningInv, BuildersExclusive
  <2>2. \A s \in Shards : table'[s] = IF s = ShardOf(key[t]) THEN table[s] \cup {created[t]} ELSE table[s]
    BY <1>5, <2>0 DEF Insert, TypeOK
  <2>3. \A m \in Keys : NodesOf(m)' = IF m = key[t] THEN {created[t]} ELSE NodesOf(m)
    <3> SUFFICES ASSUME NEW m \in Keys
                 PROVE  NodesOf(m)' = IF m = key[t] THEN {created[t]} ELSE NodesOf(m)
      OBVIOUS
    <3>1. table'[ShardOf(m)] = IF ShardOf(m) = ShardOf(key[t]) THEN table[ShardOf(m)] \cup {created[t]}
                               ELSE table[ShardOf(m)]
      BY <1>k, <2>2
    <3> QED
      BY <2>0, <2>1, <3>1 DEF NodesOf
  <2>4. CASE key[t] \in HotKeys
    <3>2. Canonical[key[t]] = created[t]
      BY <1>f, <2>0, <2>1, <2>4 DEF CanonicalFacts
    <3>0. \A m \in Keys : Canonical'[m] = Canonical[m]
      BY <1>f, <2>0, <2>3, <2>4 DEF CanonicalFacts
    <3>1. Canonical' = Canonical
      BY <3>0 DEF Canonical
    <3>3. Abstract!Answer(key[t])
      BY <2>0, <3>1, <3>2 DEF Abstract!Answer
    <3> QED
      BY <2>0, <3>3 DEF Abstract!Next
  <2>5. CASE key[t] \notin HotKeys
    <3>1. NodesOf(key[t]) = {}
      BY <2>1 DEF NodesOf
    <3>2. Canonical[key[t]] = Null
      BY <1>f, <2>0, <2>5, <3>1 DEF CanonicalFacts
    <3>3. Canonical'[key[t]] = created[t]
      BY <1>f, <2>0, <2>3, <2>5 DEF CanonicalFacts
    <3>4. \A m \in Keys : m # key[t] => Canonical'[m] = Canonical[m]
      BY <1>f, <2>0, <2>3 DEF CanonicalFacts
    <3>5. Canonical' = [Canonical EXCEPT ![key[t]] = created[t]]
      BY <3>3, <3>4 DEF Canonical
    <3>6. created[t] \notin {Canonical[m] : m \in Keys}
      BY <1>f, <2>0, <2>1, <3>2 DEF CanonicalFacts
    <3>7. Abstract!Publish(key[t])
      BY <2>0, <3>2, <3>5, <3>6 DEF Abstract!Publish
    <3> QED
      BY <2>0, <3>7 DEF Abstract!Next
  <2> QED
    BY <2>4, <2>5
<1>6. CASE FastPathLoad(t) \/ FastPathMiss(t) \/ LockShard(t) \/ FindMiss(t) \/ LockAlloc(t)
           \/ MakeUncachedFails(t) \/ Refuse(t) \/ Accept(t)
  <2>1. UNCHANGED <<num_shards, table, hot, mem, handed>>
    BY <1>6 DEF FastPathLoad, FastPathMiss, LockShard, FindMiss, LockAlloc, MakeUncachedFails, Refuse, Accept, nodeVars
  <2> QED
    BY <2>1, SameCanonical
<1> QED
  BY <1>1, <1>2, <1>3, <1>4, <1>5, <1>6 DEF MakeStep

(* Forgetting is allowed to keep any injective assignment. *)
LEMMA ForgetOK ==
    ASSUME Inv', handed' = {}
    PROVE  Abstract!Next
<1>1. CanonicalFacts'
  BY CanonicalOKNext
<1>2. Canonical' \in [Keys -> Addrs \cup {Null}]
  BY <1>1 DEF CanonicalFacts, Canonical
<1>3. Abstract!Injective(Canonical')
  BY <1>1 DEF CanonicalFacts, Abstract!Injective
<1> QED
  BY <1>2, <1>3 DEF Abstract!Next, Abstract!Forget

LEMMA RefineStep ==
    ASSUME Inv, Inv', [Next]_vars
    PROVE  Abstract!Next \/ UNCHANGED <<Canonical, handed>>
<1>1. CASE UNCHANGED vars
  BY <1>1, SameCanonical DEF vars, nodeVars
<1>2. ASSUME NEW t \in Threads, Call(t) PROVE UNCHANGED <<Canonical, handed>>
  BY <1>2, SameCanonical DEF Call, CallMake, CallReset, nodeVars
<1>3. ASSUME NEW t \in Threads, ResetStep(t) PROVE Abstract!Next \/ UNCHANGED <<Canonical, handed>>
  <2>1. CASE ResetDestroy(t)
    BY <2>1, ForgetOK DEF ResetDestroy
  <2>2. CASE ResetClearTables(t) \/ ResetClearHot(t)
    <3>1. pc[t] \in Wiping /\ UNCHANGED <<mem, handed, num_shards>>
      BY <2>2 DEF ResetClearTables, ResetClearHot
    <3>2. \A a \in Addrs : mem[a] = Null
      BY <3>1, WipedFacts
    <3>3. \A k \in Keys : Canonical[k] = Null /\ Canonical'[k] = Null
      BY <3>1, <3>2, CanonicalOK, CanonicalOKNext, NullAssumption DEF CanonicalFacts
    <3>4. Canonical' = Canonical
      BY <3>3 DEF Canonical
    <3> QED
      BY <3>1, <3>4
  <2>3. CASE ResetLockShard(t) \/ ResetLockAlloc(t) \/ ResetCounters(t) \/ ResetUnlockShard(t)
    BY <2>3, SameCanonical DEF ResetLockShard, ResetLockAlloc, ResetCounters, ResetUnlockShard, nodeVars
  <2> QED
    BY <1>3, <2>1, <2>2, <2>3 DEF ResetStep
<1>4. ASSUME NEW b \in Budgets, SetMaxMemoryBudget(b) PROVE UNCHANGED <<Canonical, handed>>
  BY <1>4, SameCanonical DEF SetMaxMemoryBudget, nodeVars
<1>5. CASE ClearHashDosFlag
  BY <1>5, SameCanonical DEF ClearHashDosFlag, nodeVars
<1>6. ASSUME NEW n \in ShardCounts, Collect(n) PROVE Abstract!Next
  BY <1>6, ForgetOK DEF Collect
<1>7. ASSUME NEW n \in ShardCounts, ConfigureShards(n) PROVE Abstract!Next
  <2>1. handed = {}
    <3>1. \A a \in Addrs : mem[a] = Null
      BY <1>7 DEF ConfigureShards, Inv, InterningInv, EmptyMeansEmpty
    <3> QED
      BY <3>1, NullAssumption DEF Inv, TypeOK, InterningInv, HandedCanonical
  <2> QED
    BY <1>7, <2>1, ForgetOK DEF ConfigureShards
<1> QED
  BY <1>1, <1>2, <1>3, <1>4, <1>5, <1>6, <1>7, RefineMake DEF Next, Owner

(* The sharded, concurrent arena implements the atomic intern table: every  *)
(* make publishes a new canonical node, answers with the existing one or    *)
(* does nothing visible, and a reset or a collection forgets as a whole.    *)
THEOREM ArenaImplementsInternTable == Spec => ImplementsInternTable
<1>1. Init => Abstract!Init
  <2> SUFFICES ASSUME Init PROVE Abstract!Init
    OBVIOUS
  <2>1. Inv
    BY InvInit
  <2>2. \A k \in Keys : Canonical[k] = Null
    <3> SUFFICES ASSUME NEW k \in Keys PROVE Canonical[k] = Null
      OBVIOUS
    <3>1. ShardOf(k) \in Shards
      BY ShardInRange DEF Init
    <3>2. NodesOf(k) = {}
      BY <3>1 DEF Init, NodesOf
    <3> QED
      BY <2>1, <3>2, CanonicalOK DEF CanonicalFacts, Init
  <2> QED
    BY <2>2 DEF Abstract!Init, Init, Canonical
<1>2. Inv /\ Inv' /\ [Next]_vars => [Abstract!Next]_(Abstract!vars)
  BY RefineStep DEF Abstract!vars
<1> QED
  BY <1>1, <1>2, InvInit, InvNext, PTL DEF Spec, ImplementsInternTable, Abstract!Spec

-----------------------------------------------------------------------------
(* The lock order: no set of makes and resets can wait on each other. *)

(* What makes a thread the owner of a shard, for a thread fixed. *)
OwnerInside(t) ==
    /\ pc[t] \in {"r_alloc", "r_wipe"} \cup Wiping => cursor[t] = 0
    /\ \A s \in Shards : shard_mutex[s] = t =>
         \/ pc[t] \in InShard /\ ShardOf(key[t]) = s
         \/ pc[t] = "r_lock" /\ s < cursor[t]
         \/ pc[t] \in {"r_alloc", "r_wipe"} \cup Wiping
         \/ pc[t] = "r_unlock" /\ s >= cursor[t]

(* A step of one thread gives no shard to another and moves no other thread.*)
LEMMA OthersUndisturbed ==
    ASSUME TypeOK, NEW t \in Threads, Call(t) \/ MakeStep(t) \/ ResetStep(t)
    PROVE  /\ num_shards' = num_shards
           /\ \A s \in Shards : shard_mutex'[s] \in {shard_mutex[s], t, Null}
           /\ \A u \in Threads \ {t} : pc'[u] = pc[u] /\ key'[u] = key[u] /\ cursor'[u] = cursor[u]
<1> USE DEF TypeOK
<1>1. CASE Call(t)
  BY <1>1 DEF Call, CallMake, CallReset, lockVars, nodeVars
<1>2. CASE MakeStep(t)
  <2>1. UNCHANGED <<num_shards, cursor>>
    BY <1>2 DEF MakeStep, FastPathLoad, FastPathReturn, FastPathMiss, LockShard, FindHit, FindMiss, LockAlloc,
       MakeUncached, MakeUncachedFails, Refuse, Accept, StoreHot, Insert, nodeVars
  <2>3. \A u \in Threads \ {t} : pc'[u] = pc[u] /\ key'[u] = key[u]
    BY <1>2, MakeMoves
  <2>2. \/ UNCHANGED shard_mutex
        \/ \E x \in {t, Null} : shard_mutex' = [shard_mutex EXCEPT ![ShardOf(key[t])] = x]
    BY <1>2 DEF MakeStep, FastPathLoad, FastPathReturn, FastPathMiss, LockShard, FindHit, FindMiss, LockAlloc,
       MakeUncached, MakeUncachedFails, Refuse, Accept, StoreHot, Insert, lockVars
  <2> QED
    BY <2>1, <2>2, <2>3
<1>3. CASE ResetStep(t)
  BY <1>3 DEF ResetStep, ResetLockShard, ResetLockAlloc, ResetDestroy, ResetClearTables, ResetClearHot, ResetCounters,
     ResetUnlockShard, nodeVars, lockVars
<1> QED
  BY <1>1, <1>2, <1>3

(* Every return of make gives its shard back before the thread is idle. *)
LEMMA InsideMake ==
    ASSUME TypeOK, NEW t \in Threads, OwnerInside(t), MakeStep(t)
    PROVE  OwnerInside(t)'
<1> USE DEF TypeOK, OwnerInside
<1>k. key[t] \in Keys => ShardOf(key[t]) \in Shards
  BY ShardInRange
<1>t. t # Null
  BY NullAssumption
<1>0. CASE FastPathReturn(t)
  BY <1>0 DEF FastPathReturn, lockVars, nodeVars
<1>1. CASE FastPathLoad(t) \/ FastPathMiss(t) \/ FindMiss(t) \/ LockAlloc(t) \/ Accept(t) \/ StoreHot(t)
           \/ MakeUncached(t) \/ MakeUncachedFails(t)
  <2>1. /\ UNCHANGED <<shard_mutex, key, num_shards>>
        /\ \/ pc[t] \in InShard /\ pc'[t] \in InShard
           \/ pc[t] = "fast" /\ pc'[t] \in {"loaded", "lock"}
    BY <1>1 DEF FastPathLoad, FastPathMiss, FindMiss, LockAlloc, Accept, StoreHot, MakeUncached,
       MakeUncachedFails, lockVars, nodeVars
  <2> QED
    BY <2>1
<1>2. CASE LockShard(t)
  BY <1>2, <1>k DEF LockShard, nodeVars
<1>3. CASE FindHit(t) \/ Refuse(t) \/ Insert(t)
  <2>1. /\ shard_mutex' = [shard_mutex EXCEPT ![ShardOf(key[t])] = Null]
        /\ UNCHANGED num_shards
        /\ pc[t] \in InShard /\ pc'[t] = "idle"
    BY <1>3 DEF FindHit, Refuse, Insert, nodeVars
  <2>2. \A s \in Shards : shard_mutex'[s] # t
    BY <1>t, <2>1
  <2> QED
    BY <2>1, <2>2
<1> QED
  BY <1>0, <1>1, <1>2, <1>3 DEF MakeStep

(* A reset owns the shards it has passed, and returns with none. *)
LEMMA InsideReset ==
    ASSUME TypeOK, NEW t \in Threads, OwnerInside(t), ResetStep(t)
    PROVE  OwnerInside(t)'
<1> USE DEF TypeOK, OwnerInside
<1>n. num_shards \in Nat \ {0}
  BY ShardAssumption
<1>t. t # Null
  BY NullAssumption
<1>1. CASE ResetLockShard(t)
  BY <1>1, <1>n DEF ResetLockShard, nodeVars
<1>2. CASE ResetLockAlloc(t)
  BY <1>2 DEF ResetLockAlloc, nodeVars
<1>3. CASE ResetDestroy(t) \/ ResetClearTables(t) \/ ResetCounters(t)
  BY <1>3, <1>n DEF ResetDestroy, ResetClearTables, ResetCounters, lockVars
<1>5. CASE ResetClearHot(t)
  <2>1. /\ pc[t] = "r_hot" /\ pc'[t] \in {"r_hot", "r_counts"}
        /\ UNCHANGED <<callVars, shard_mutex, num_shards>>
    BY <1>5 DEF ResetClearHot, lockVars
  <2> QED
    BY <1>n, <2>1
<1>4. CASE ResetUnlockShard(t)
  <2>1. /\ pc[t] = "r_unlock" /\ cursor[t] \in Shards /\ num_shards' = num_shards
        /\ shard_mutex' = [shard_mutex EXCEPT ![cursor[t]] = Null]
    BY <1>4, <1>n DEF ResetUnlockShard, nodeVars
  <2>2. \A s \in Shards : shard_mutex'[s] = t => s > cursor[t]
    BY <1>n, <1>t, <2>1
  <2>3. CASE cursor[t] + 1 < num_shards
    <3>1. pc'[t] = "r_unlock" /\ cursor'[t] = cursor[t] + 1
      BY <1>4, <2>1, <2>3 DEF ResetUnlockShard
    <3> QED
      BY <1>n, <2>1, <2>2, <3>1
  <2>4. CASE ~ (cursor[t] + 1 < num_shards)
    <3>1. pc'[t] = "idle"
      BY <1>4, <2>4 DEF ResetUnlockShard
    <3>2. \A s \in Shards : shard_mutex'[s] # t
      BY <1>n, <2>1, <2>2, <2>4
    <3> QED
      BY <2>1, <3>1, <3>2
  <2> QED
    BY <2>3, <2>4
<1> QED
  BY <1>1, <1>2, <1>3, <1>4, <1>5 DEF ResetStep

LEMMA InsideNext == TypeOK /\ OwnersInside /\ [Next]_vars => OwnersInside'
<1> SUFFICES ASSUME TypeOK, OwnersInside, [Next]_vars, NEW u \in Threads PROVE OwnerInside(u)'
  BY DEF OwnersInside, OwnerInside
<1>i. OwnerInside(u)
  BY DEF OwnersInside, OwnerInside
<1>1. CASE UNCHANGED vars
  BY <1>1, <1>i DEF OwnerInside, vars, threadVars, lockVars, nodeVars
<1>2. ASSUME NEW t \in Threads, Call(t) \/ MakeStep(t) \/ ResetStep(t) PROVE OwnerInside(u)'
  <2>1. CASE u # t
    <3>1. u # Null
      BY NullAssumption
    <3>2. /\ num_shards' = num_shards
          /\ \A s \in Shards : shard_mutex'[s] \in {shard_mutex[s], t, Null}
          /\ pc'[u] = pc[u] /\ key'[u] = key[u] /\ cursor'[u] = cursor[u]
      BY <1>2, <2>1, OthersUndisturbed
    <3>3. \A s \in Shards : shard_mutex'[s] = u => shard_mutex[s] = u
      BY <2>1, <3>1, <3>2
    <3> QED
      BY <1>i, <3>2, <3>3 DEF OwnerInside
  <2>2. CASE u = t /\ Call(t)
    <3>1. /\ pc[u] = "idle" /\ pc'[u] \in {"fast", "r_lock"}
          /\ UNCHANGED <<shard_mutex, num_shards>>
      BY <2>2 DEF Call, CallMake, CallReset, lockVars, nodeVars, TypeOK
    <3> QED
      BY <1>i, <3>1 DEF OwnerInside
  <2> QED
    BY <1>2, <1>i, <2>1, <2>2, InsideMake, InsideReset
<1>3. CASE Owner
  <2>1. CASE UNCHANGED <<shard_mutex, num_shards>>
    <3>1. UNCHANGED <<pc, key, cursor>>
      BY <1>3 DEF Owner, SetMaxMemoryBudget, ClearHashDosFlag, ConfigureShards, Collect, threadVars
    <3> QED
      BY <1>i, <2>1, <3>1 DEF OwnerInside
  <2>2. CASE \E n \in ShardCounts : ConfigureShards(n) \/ Collect(n)
    <3>1. /\ Quiescent /\ pc' = pc
          /\ \A s \in Shards' : shard_mutex'[s] = Null
      BY <2>2 DEF ConfigureShards, Collect, threadVars
    <3>2. u # Null
      BY NullAssumption
    <3> QED
      BY <3>1, <3>2 DEF OwnerInside, Quiescent
  <2> QED
    BY <1>3, <2>1, <2>2 DEF Owner, SetMaxMemoryBudget, ClearHashDosFlag, lockVars, nodeVars
<1> QED
  BY <1>1, <1>2, <1>3 DEF Next

(* The whole inductive invariant of the arena, as the run checks it. *)
THEOREM ArenaInvariant == Spec => []ArenaInv
<1>1. Init => OwnersInside
  BY NullAssumption DEF Init, OwnersInside
<1> QED
  BY <1>1, InvInit, InvNext, InsideNext, PTL DEF Spec, ArenaInv, Inv

(* Who waits, waits for a thread that moves or waits on a later shard: two  *)
(* waiting resets would both own shard 0.                                   *)
LEMMA SomeoneMoves == Inv /\ OwnersInside => NoDeadlock
<1> SUFFICES ASSUME Inv, OwnersInside,
                    \A t \in Threads : pc[t] # "idle" => Waits(t),
                    NEW t \in Threads, pc[t] # "idle"
             PROVE  FALSE
  BY DEF NoDeadlock
<1> USE DEF TypeOK
<1>1. TypeOK /\ LocksHeld
  BY DEF Inv, InterningInv
<1>n. num_shards \in Nat \ {0} /\ 0 \in Shards
  BY <1>1, ShardAssumption
<1>2. alloc_mutex = Null
  BY <1>1 DEF LocksHeld, Waits
<1>3. \A u \in Threads : pc[u] # "idle" => pc[u] \in {"lock", "r_lock"}
  BY <1>2 DEF Waits
<1>4. ASSUME NEW u \in Threads, NEW s \in Shards, shard_mutex[s] = u
      PROVE  pc[u] = "r_lock" /\ s < cursor[u]
  BY <1>3, <1>4 DEF OwnersInside
<1>5. ASSUME NEW u \in Threads, pc[u] = "r_lock"
      PROVE  cursor[u] \in Shards /\ shard_mutex[cursor[u]] \in Threads
  <2>1. cursor[u] \in Shards
    BY <1>1, <1>5, <1>n
  <2> QED
    BY <1>1, <1>5, <2>1 DEF Waits
<1>6. \E s \in Shards : shard_mutex[s] \in Threads
  <2>1. CASE pc[t] = "lock"
    <3>1. ShardOf(key[t]) \in Shards
      BY <1>1, <2>1, ShardInRange
    <3> QED
      BY <1>1, <2>1, <3>1 DEF Waits
  <2> QED
    BY <1>3, <1>5, <2>1
<1>7. PICK s \in Shards : shard_mutex[s] \in Threads
  BY <1>6
<1> DEFINE h == shard_mutex[s]
           g == shard_mutex[cursor[h]]
<1>8. pc[h] = "r_lock" /\ s < cursor[h] /\ cursor[h] \in Shards /\ g \in Threads
  BY <1>4, <1>5, <1>7
<1>9. pc[g] = "r_lock" /\ cursor[h] < cursor[g]
  BY <1>4, <1>8
<1>10. shard_mutex[0] = h /\ shard_mutex[0] = g
  BY <1>1, <1>n, <1>7, <1>8, <1>9 DEF LocksHeld
<1>11. cursor[h] \in Nat /\ cursor[h] < cursor[h]
  BY <1>1, <1>8, <1>9, <1>10
<1> HIDE DEF h
<1> QED
  BY <1>11

(* For any number of threads, keys and shards: while a thread is inside the *)
(* arena, some thread inside it is not waiting for a mutex.                 *)
THEOREM NeverStuck == Spec => []NoDeadlock
<1>1. Init => OwnersInside
  BY NullAssumption DEF Init, OwnersInside
<1> QED
  BY <1>1, InvInit, InvNext, InsideNext, SomeoneMoves, PTL DEF Spec, Inv

-----------------------------------------------------------------------------
(* The count of nodes. *)

SizeInv == IsFiniteSet(Live) /\ SizeCountsLive

(* A collection leaves exactly the cells it placed the copied keys in. *)
LEMMA CollectedCells ==
    ASSUME TypeOK, NEW n \in ShardCounts, Collect(n)
    PROVE  SizeInv'
<1>1. PICK keep, all \in SUBSET Keys : \E place \in [all -> Addrs] : Placed(keep, all, place, n)
  BY CollectPlaces
<1>2. PICK place \in [all -> Addrs] : Placed(keep, all, place, n)
  BY <1>1
<1>3. IsFiniteSet(all)
  BY KeysAssumption, FS_Subset
<1>4. \A a \in Addrs : mem'[a] # Null <=> \E k \in all : place[k] = a
  <2> SUFFICES ASSUME NEW a \in Addrs PROVE mem'[a] # Null <=> \E k \in all : place[k] = a
    OBVIOUS
  <2>1. mem'[a] = IF \E k \in all : place[k] = a THEN CHOOSE k \in all : place[k] = a ELSE Null
    BY <1>2 DEF Placed
  <2>2. \A k, m \in all : place[k] = place[m] => k = m
    BY <1>2 DEF Placed
  <2>3. mem'[a] \in all \cup {Null} /\ \A k \in all : place[k] = a => mem'[a] = k
    BY <2>1, <2>2, CollectCells
  <2> QED
    BY <2>1, <2>3, NullAssumption
<1>5. Live' = {place[k] : k \in all}
  BY <1>4 DEF Live
<1>6. place \in Bijection(all, Live')
  <2>1. \A c \in Live' : \E k \in all : place[k] = c
    BY <1>5
  <2>2. place \in [all -> Live']
    BY <1>5
  <2>3. \A k, m \in all : place[k] = place[m] => k = m
    BY <1>2 DEF Placed
  <2> HIDE DEF Live
  <2> QED
    BY <2>1, <2>2, <2>3 DEF Bijection, Injection, IsInjective, Surjection
<1>7. IsFiniteSet(Live') /\ Cardinality(Live') = Cardinality(all)
  BY <1>3, <1>6, FS_Bijection DEF ExistsBijection
<1>8. total_nodes' = Cardinality(all)
  BY <1>2 DEF Placed
<1> QED
  BY <1>7, <1>8 DEF SizeInv, SizeCountsLive

(* A step that leaves the cells and the count alone, and ends no reset.     *)
LEMMA SizeKept ==
    ASSUME SizeInv, UNCHANGED <<mem, total_nodes>>,
           \A t \in Threads : pc[t] \in Wiping => pc'[t] \in Wiping
    PROVE  SizeInv'
<1>1. Live' = Live
  BY DEF Live
<1> HIDE DEF Live
<1> QED
  BY <1>1 DEF SizeInv, SizeCountsLive

LEMMA SizeReset ==
    ASSUME Inv, SizeInv, NEW t \in Threads, ResetStep(t)
    PROVE  SizeInv'
<1> USE DEF Inv, TypeOK
<1>1. CASE ResetDestroy(t)
  <2>1. Live' = {}
    BY <1>1 DEF ResetDestroy, Live
  <2>2. pc'[t] \in Wiping
    BY <1>1 DEF ResetDestroy
  <2> QED
    BY <2>1, <2>2, FS_EmptySet DEF SizeInv, SizeCountsLive
<1>2. CASE ResetCounters(t)
  <2>1. \A a \in Addrs : mem[a] = Null
    BY <1>2, WipedFacts DEF ResetCounters
  <2>2. Live' = {} /\ total_nodes' = 0
    BY <1>2, <2>1 DEF ResetCounters, Live
  <2> QED
    BY <2>2, FS_EmptySet DEF SizeInv, SizeCountsLive
<1>3. CASE ResetClearTables(t) \/ ResetClearHot(t)
  <2>1. UNCHANGED <<mem, total_nodes>>
    BY <1>3 DEF ResetClearTables, ResetClearHot
  <2>2. \A u \in Threads : pc[u] \in Wiping => pc'[u] \in Wiping
    BY <1>3 DEF ResetClearTables, ResetClearHot
  <2> QED
    BY <2>1, <2>2, SizeKept
<1>4. CASE ResetLockShard(t) \/ ResetLockAlloc(t) \/ ResetUnlockShard(t)
  <2>1. UNCHANGED <<mem, total_nodes>>
    BY <1>4 DEF ResetLockShard, ResetLockAlloc, ResetUnlockShard, nodeVars
  <2>2. \A u \in Threads : pc[u] \in Wiping => pc'[u] \in Wiping
    BY <1>4 DEF ResetLockShard, ResetLockAlloc, ResetUnlockShard
  <2> QED
    BY <2>1, <2>2, SizeKept
<1> QED
  BY <1>1, <1>2, <1>3, <1>4 DEF ResetStep

LEMMA SizeMake ==
    ASSUME Inv, SizeInv, NEW t \in Threads, MakeStep(t)
    PROVE  SizeInv'
<1> USE DEF Inv, TypeOK
<1>1. CASE MakeUncached(t)
  <2>1. PICK a \in Addrs : mem[a] = Null /\ mem' = [mem EXCEPT ![a] = key[t]]
    BY <1>1 DEF MakeUncached
  <2>2. key[t] \in Keys /\ key[t] # Null /\ total_nodes' = total_nodes + 1
    BY <1>1, NullAssumption DEF MakeUncached
  <2>3. Live' = Live \cup {a} /\ a \notin Live
    BY <2>1, <2>2 DEF Live
  <2>4. pc[t] = "make"
    BY <1>1 DEF MakeUncached
  <2>5. alloc_mutex = t
    BY <2>4 DEF InterningInv, LocksHeld
  <2>6. \A u \in Threads : pc[u] \notin Wiping
    <3> SUFFICES ASSUME NEW u \in Threads, pc[u] \in Wiping PROVE FALSE
      OBVIOUS
    <3>1. alloc_mutex = u
      BY DEF InterningInv, LocksHeld
    <3> QED
      BY <2>4, <2>5, <3>1
  <2> HIDE DEF Live, Wiping
  <2> QED
    BY <2>2, <2>3, <2>6, FS_AddElement DEF SizeInv, SizeCountsLive
<1>2. CASE ~MakeUncached(t)
  <2>1. UNCHANGED <<mem, total_nodes>>
    BY <1>2 DEF MakeStep, FastPathLoad, FastPathReturn, FastPathMiss, LockShard, FindHit, FindMiss, LockAlloc,
       MakeUncachedFails, Refuse, Accept, StoreHot, Insert, nodeVars
  <2>2. \A u \in Threads : pc[u] \in Wiping => pc'[u] \in Wiping
    <3> SUFFICES ASSUME NEW u \in Threads, pc[u] \in Wiping PROVE pc'[u] \in Wiping
      OBVIOUS
    <3>1. u # t
      BY MakeMoves
    <3> QED
      BY <3>1, MakeMoves
  <2> QED
    BY <2>1, <2>2, SizeKept
<1> QED
  BY <1>1, <1>2

LEMMA SizeNext == Inv /\ SizeInv /\ [Next]_vars => SizeInv'
<1> SUFFICES ASSUME Inv, SizeInv, [Next]_vars PROVE SizeInv'
  OBVIOUS
<1>1. CASE UNCHANGED vars
  <2>1. UNCHANGED <<pc, mem, total_nodes>>
    BY <1>1 DEF vars, threadVars, nodeVars
  <2> QED
    BY <2>1, SizeKept
<1>2. ASSUME NEW t \in Threads, Call(t) PROVE SizeInv'
  <2>1. UNCHANGED <<mem, total_nodes>>
    BY <1>2 DEF Call, CallMake, CallReset, nodeVars
  <2>2. \A u \in Threads : pc[u] \in Wiping => pc'[u] \in Wiping
    BY <1>2 DEF Call, CallMake, CallReset, Inv, TypeOK
  <2> QED
    BY <2>1, <2>2, SizeKept
<1>3. ASSUME NEW n \in ShardCounts, Collect(n) PROVE SizeInv'
  BY <1>3, CollectedCells DEF Inv
<1>4. ASSUME Owner, ~ \E n \in ShardCounts : Collect(n) PROVE SizeInv'
  <2>1. UNCHANGED <<pc, mem, total_nodes>>
    BY <1>4 DEF Owner, SetMaxMemoryBudget, ClearHashDosFlag, ConfigureShards, threadVars, nodeVars
  <2> QED
    BY <2>1, SizeKept
<1> QED
  BY <1>1, <1>2, <1>3, <1>4, SizeMake, SizeReset DEF Next

(* total_nodes_ is the number of live nodes after any history of calls,     *)
(* refusals, resets and moves, for whoever may read it, so an arena that    *)
(* reports zero is empty.                                                   *)
THEOREM CountIsExact == Spec => []SizeCountsLive
<1>1. Init => SizeInv
  <2> SUFFICES ASSUME Init PROVE SizeInv
    OBVIOUS
  <2>1. Live = {} /\ total_nodes = 0
    BY DEF Init, Live
  <2> QED
    BY <2>1, FS_EmptySet DEF SizeInv, SizeCountsLive
<1>2. SizeInv => SizeCountsLive
  BY DEF SizeInv
<1> QED
  BY <1>1, <1>2, InvInit, InvNext, SizeNext, PTL DEF Spec
=============================================================================
