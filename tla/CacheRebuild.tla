---------------------------- MODULE CacheRebuild ----------------------------
(***************************************************************************)
(* The two ways in which CacheClient rebuilds a cached shop behind a lock: *)
(* queryWithMutex, where the callers that find nothing wait for the one    *)
(* that holds lock:shop:<id>, and queryWithLogicalExpire, where the caller *)
(* that gets the lock hands the rebuild to a pool and everybody is         *)
(* answered with the old shop.                                             *)
(*                                                                         *)
(* queryById names both in comments and may use either.  They keep         *)
(* different texts under a key, so each key here is read in one way.  What *)
(* a shop looks like does not matter; whether there is one does.           *)
(***************************************************************************)
EXTENDS Integers, FiniteSets

CONSTANTS
    Key,        \* the shop ids
    Logical,    \* those that are read with queryWithLogicalExpire
    Thread,     \* the HTTP threads
    MaxDepth,   \* bound: a waiting caller owes at most so many unlocks
    MaxCalls,   \* bound on the number of calls
    MaxCrashes, \* bound on the number of process crashes
    MayFail     \* whether MySQL and Redis may fail

ASSUME KeyAssumption == Logical \subseteq Key
ASSUME BoundsAssumption == MaxDepth \in Nat \ {0} /\ MaxCalls \in Nat /\ MaxCrashes \in Nat
ASSUME FailAssumption == MayFail \in BOOLEAN

VARIABLES
    exists,     \* the ids that have a row in tb_shop
    cache,      \* cache:shop:<id>
    lock,       \* the ids whose lock:shop:<id> is set
    pc,         \* where a caller is
    key,        \* the id a caller asks for
    depth,      \* the recursive calls of a caller that have entered their try
    tasks,      \* the rebuilds handed to CACHE_REBUILD_EXECUTOR and not over
    outlived,   \* history: the ids whose lock has expired before its holder was done
    calls,      \* number of calls so far
    crashes     \* number of crashes so far

callerVars == <<pc, key, depth>>
historyVars == <<outlived, calls, crashes>>

vars == <<exists, cache, lock, callerVars, tasks, historyVars>>

Mutex == Key \ Logical

----------------------------------------------------------------------------
(* queryWithMutex *)

Call(t, k) ==
    /\ pc[t] = "idle"
    /\ calls < MaxCalls
    /\ calls' = calls + 1
    /\ pc' = [pc EXCEPT ![t] = "get"]
    /\ key' = [key EXCEPT ![t] = k]
    /\ depth' = [depth EXCEPT ![t] = 0]
    /\ UNCHANGED <<exists, cache, lock, tasks, outlived, crashes>>

\* The innermost call returns: the enclosing ones still have their finally.
Leave(t, owed) == pc' = [pc EXCEPT ![t] = IF owed = 0 THEN "idle" ELSE "unlock"]

\* GET.  A hit, the blank string included, is an answer.
Get(t) ==
    /\ pc[t] = "get"
    /\ key[t] \in Mutex
    /\ IF cache[key[t]] = "none"
       THEN pc' = [pc EXCEPT ![t] = "lock"]
       ELSE Leave(t, depth[t])
    /\ UNCHANGED <<exists, cache, lock, key, depth, tasks, historyVars>>

\* tryLock, inside the try.  Whoever does not get the lock sleeps and calls again.
TryLock(t) ==
    /\ pc[t] = "lock"
    /\ depth' = [depth EXCEPT ![t] = IF @ < MaxDepth THEN @ + 1 ELSE @]
    /\ lock' = lock \cup {key[t]}
    /\ pc' = [pc EXCEPT ![t] = IF key[t] \in lock THEN "get" ELSE "rebuild"]
    /\ UNCHANGED <<exists, cache, key, tasks, historyVars>>

\* dbFallback and SET: the shop, or the blank string.
Rebuild(t) ==
    /\ pc[t] = "rebuild"
    /\ cache' = [cache EXCEPT ![key[t]] = IF key[t] \in exists THEN "shop" ELSE "blank"]
    /\ Leave(t, depth[t])
    /\ UNCHANGED <<exists, lock, key, depth, tasks, historyVars>>

\* DEL lock:shop:<k>, whoever has set it; the command may fail.
Delete(k) ==
    \/ lock' = lock \ {k}
    \/ MayFail /\ UNCHANGED lock

\* finally: unlock, once for each call that is left.
Unlock(t) ==
    /\ pc[t] = "unlock"
    /\ Delete(key[t])
    /\ depth' = [depth EXCEPT ![t] = @ - 1]
    /\ Leave(t, depth[t] - 1)
    /\ UNCHANGED <<exists, cache, key, tasks, historyVars>>

\* SETNX throws, whether Redis has carried it out or not.
TryLockFails(t) ==
    /\ MayFail
    /\ pc[t] = "lock"
    /\ depth' = [depth EXCEPT ![t] = IF @ < MaxDepth THEN @ + 1 ELSE @]
    /\ lock' \in {lock, lock \cup {key[t]}}
    /\ pc' = [pc EXCEPT ![t] = "unlock"]
    /\ UNCHANGED <<exists, cache, key, tasks, historyVars>>

\* dbFallback or SET throws: only the finally runs.
RebuildFails(t) ==
    /\ MayFail
    /\ pc[t] = "rebuild"
    /\ Leave(t, depth[t])
    /\ UNCHANGED <<exists, cache, lock, key, depth, tasks, historyVars>>

----------------------------------------------------------------------------
(* queryWithLogicalExpire *)

\* GET.  Nothing cached or not expired yet: the answer.
GetLogical(t) ==
    /\ pc[t] = "get"
    /\ key[t] \in Logical
    /\ pc' = [pc EXCEPT ![t] = IF cache[key[t]] = "expired" THEN "tryLock" ELSE "idle"]
    /\ UNCHANGED <<exists, cache, lock, key, depth, tasks, historyVars>>

\* Mutant of TryLockLogical: the lock is released in any case, as in queryWithMutex.
TryLockReleases(t) ==
    /\ pc[t] = "tryLock"
    /\ pc' = [pc EXCEPT ![t] = "idle"]
    /\ IF key[t] \in lock
       THEN lock' = lock \ {key[t]} /\ UNCHANGED tasks
       ELSE /\ lock' = lock \cup {key[t]}
            /\ tasks' = tasks \cup {[call |-> calls, thread |-> t, key |-> key[t], at |-> "load"]}
    /\ UNCHANGED <<exists, cache, key, depth, historyVars>>

\* tryLock; with the lock the rebuild is submitted.  The old shop is the answer.
TryLockLogical(t) ==
    /\ pc[t] = "tryLock"
    /\ pc' = [pc EXCEPT ![t] = "idle"]
    /\ IF key[t] \in lock
       THEN UNCHANGED <<lock, tasks>>
       ELSE /\ lock' = lock \cup {key[t]}
            /\ tasks' = tasks \cup {[call |-> calls, thread |-> t, key |-> key[t], at |-> "load"]}
    /\ UNCHANGED <<exists, cache, key, depth, historyVars>>

\* SETNX throws, after or before its effect, outside of any try.
TryLockLogicalFails(t) ==
    /\ MayFail
    /\ pc[t] = "tryLock"
    /\ lock' \in {lock, lock \cup {key[t]}}
    /\ pc' = [pc EXCEPT ![t] = "idle"]
    /\ UNCHANGED <<exists, cache, key, depth, tasks, historyVars>>

\* Mutant of RebuildLogical: the lock is given back before the entry is written.
RebuildUnlocks(task) ==
    /\ task.at = "load"
    /\ tasks' = (tasks \ {task}) \cup {[task EXCEPT !.at = "unlock"]}
    /\ Delete(task.key)
    /\ UNCHANGED <<exists, cache, callerVars, historyVars>>

\* A pool thread: dbFallback and setWithLogicalExpire, or an exception.
RebuildLogical(task) ==
    /\ task.at = "load"
    /\ tasks' = (tasks \ {task}) \cup {[task EXCEPT !.at = "unlock"]}
    /\ \/ cache' = [cache EXCEPT ![task.key] = "fresh"]
       \/ MayFail /\ UNCHANGED cache
    /\ UNCHANGED <<exists, lock, callerVars, historyVars>>

\* finally: DEL, whoever has set the lock.
UnlockLogical(task) ==
    /\ task.at = "unlock"
    /\ tasks' = tasks \ {task}
    /\ Delete(task.key)
    /\ UNCHANGED <<exists, cache, callerVars, historyVars>>

----------------------------------------------------------------------------
(* Redis, the clock, the operator and the process *)

TasksOf(k) == {task \in tasks : task.key = k}

\* Somebody is rebuilding k, or has not unlocked after it.
Busy(k) == \/ TasksOf(k) # {}
           \/ \E t \in Thread : pc[t] \in {"rebuild", "unlock"} /\ key[t] = k

\* Mutant of ExpireLock: tryLock sets no TTL.
ExpireLockNever(k) == FALSE /\ UNCHANGED vars

\* The lock's TTL of ten seconds has passed.
ExpireLock(k) ==
    /\ k \in lock
    /\ lock' = lock \ {k}
    /\ outlived' = IF Busy(k) THEN outlived \cup {k} ELSE outlived
    /\ UNCHANGED <<exists, cache, callerVars, tasks, calls, crashes>>

\* A TTL has passed, or updateShop has deleted the key.
ExpireKey(k) ==
    /\ k \in Mutex
    /\ cache[k] # "none"
    /\ cache' = [cache EXCEPT ![k] = "none"]
    /\ UNCHANGED <<exists, lock, callerVars, tasks, historyVars>>

\* The expireTime of an entry has passed; Redis keeps it.
ExpireLogically(k) ==
    /\ k \in Logical
    /\ cache[k] = "fresh"
    /\ cache' = [cache EXCEPT ![k] = "expired"]
    /\ UNCHANGED <<exists, lock, callerVars, tasks, historyVars>>

\* The callers and the pool are gone; what is in Redis stays.
Crash ==
    /\ crashes < MaxCrashes
    /\ crashes' = crashes + 1
    /\ pc' = [t \in Thread |-> "idle"]
    /\ tasks' = {}
    /\ UNCHANGED <<exists, cache, lock, key, depth, outlived, calls>>

Texts(k) == IF k \in Logical THEN {"none", "fresh", "expired"} ELSE {"none", "blank", "shop"}

Init ==
    /\ exists \in SUBSET Key
    /\ cache \in [Key -> {"none", "expired"}]
    /\ \A k \in Key : cache[k] \in Texts(k)
    /\ lock = {}
    /\ pc = [t \in Thread |-> "idle"]
    /\ key \in {[t \in Thread |-> k] : k \in Key}
    /\ depth = [t \in Thread |-> 0]
    /\ tasks = {}
    /\ outlived = {}
    /\ calls = 0
    /\ crashes = 0

QueryWithMutex(t) ==
    Get(t) \/ TryLock(t) \/ TryLockFails(t) \/ Rebuild(t) \/ RebuildFails(t) \/ Unlock(t)

QueryWithLogicalExpire(t) == GetLogical(t) \/ TryLockLogical(t) \/ TryLockLogicalFails(t)

Next ==
    \/ \E t \in Thread :
        \/ \E k \in Key : Call(t, k)
        \/ QueryWithMutex(t)
        \/ QueryWithLogicalExpire(t)
    \/ \E task \in tasks : RebuildLogical(task) \/ UnlockLogical(task)
    \/ \E k \in Key : ExpireLock(k) \/ ExpireKey(k) \/ ExpireLogically(k)
    \/ Crash

Spec == Init /\ [][Next]_vars

\* Callers run on, and Redis drops a lock whose TTL has passed.
FairSpec ==
    /\ Spec
    /\ \A t \in Thread : WF_vars(QueryWithMutex(t) \/ QueryWithLogicalExpire(t))
    /\ \A k \in Key : WF_vars(ExpireLock(k))

----------------------------------------------------------------------------
(* Properties *)

Task == [call : Nat, thread : Thread, key : Logical, at : {"load", "unlock"}]

\* Every variable keeps to its set, and neither strategy writes the other's text.
TypeOK ==
    /\ exists \in SUBSET Key
    /\ cache \in [Key -> {"none", "blank", "shop", "fresh", "expired"}]
    /\ \A k \in Key : cache[k] \in Texts(k)
    /\ lock \in SUBSET Key
    /\ pc \in [Thread -> {"idle", "get", "lock", "rebuild", "unlock", "tryLock"}]
    /\ key \in [Thread -> Key]
    /\ depth \in [Thread -> 0 .. MaxDepth]
    /\ tasks \in SUBSET Task
    /\ outlived \in SUBSET Key
    /\ calls \in 0 .. MaxCalls
    /\ crashes \in 0 .. MaxCrashes

\* queryWithLogicalExpire has at most one rebuild of a shop in hand or queued,
\* whatever fails and whoever dies, as long as no rebuild takes longer than the
\* TTL of its lock.
LogicalRebuildIsExclusive ==
    \A k \in Logical \ outlived : \A a, b \in TasksOf(k) : a = b

\* Every query comes to an end: a caller that waits for the lock is not left
\* behind by a rebuild that fails, by a holder that dies, nor by an unlock that
\* Redis refuses.
EveryQueryEnds == \A t \in Thread : pc[t] # "idle" ~> pc[t] = "idle"

----------------------------------------------------------------------------
(* The inductive invariant behind LogicalRebuildIsExclusive *)

\* A rebuild in hand has its lock, unless the TTL took it.
TasksAreLocked == \A task \in tasks : task.key \in outlived \/ task.key \in lock

\* Only callers of one strategy reach its steps.
CallersKeepApart ==
    \A t \in Thread :
        /\ pc[t] \in {"lock", "rebuild", "unlock"} => key[t] \in Mutex /\ depth[t] \in Nat
        /\ pc[t] = "tryLock" => key[t] \in Logical
        /\ pc[t] \in {"rebuild", "unlock"} => depth[t] > 0

IInv == TypeOK /\ LogicalRebuildIsExclusive /\ TasksAreLocked /\ CallersKeepApart
=============================================================================
