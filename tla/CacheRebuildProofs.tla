------------------------- MODULE CacheRebuildProofs -------------------------
(***************************************************************************)
(* Proofs about CacheRebuild, for any numbers of shops, threads, calls and *)
(* crashes.                                                                *)
(*                                                                         *)
(* queryWithLogicalExpire keeps its rebuilds apart because a task has its  *)
(* lock from the SETNX that made it to the DEL that ends it, and no caller *)
(* of this strategy deletes a lock it did not get.                         *)
(***************************************************************************)
EXTENDS CacheRebuild, TLAPS

USE DEF callerVars, historyVars

LEMMA InitIInv == Init => IInv
  BY BoundsAssumption
  DEF Init, IInv, TypeOK, LogicalRebuildIsExclusive, TasksOf, TasksAreLocked, CallersKeepApart

\* The steps of a caller that leave the tasks and the locks of logical keys alone.
LEMMA CallerKeeps ==
    ASSUME IInv, UNCHANGED <<exists, tasks, outlived, crashes>>, TypeOK',
           \A k \in Logical : k \in lock => k \in lock'
    PROVE  LogicalRebuildIsExclusive' /\ TasksAreLocked'
<1>1. LogicalRebuildIsExclusive'
  BY DEF IInv, LogicalRebuildIsExclusive, TasksOf
<1>2. \A task \in tasks : task.key \in Logical
  BY DEF IInv, TypeOK, Task
<1>3. TasksAreLocked'
  BY <1>2 DEF IInv, TasksAreLocked
<1> QED
  BY <1>1, <1>3

LEMMA CallKeeps ==
    ASSUME IInv, NEW t \in Thread, NEW k \in Key, Call(t, k)
    PROVE  IInv'
<1>1. TypeOK'
  BY BoundsAssumption DEF Call, IInv, TypeOK
<1>2. LogicalRebuildIsExclusive' /\ TasksAreLocked'
  BY <1>1, CallerKeeps DEF Call
<1>3. CallersKeepApart'
  BY DEF Call, IInv, TypeOK, CallersKeepApart, Mutex
<1> QED
  BY <1>1, <1>2, <1>3 DEF IInv

LEMMA GetKeeps ==
    ASSUME IInv, NEW t \in Thread, Get(t)
    PROVE  IInv'
<1>1. TypeOK'
  BY DEF Get, Leave, IInv, TypeOK
<1>2. LogicalRebuildIsExclusive' /\ TasksAreLocked'
  BY <1>1, CallerKeeps DEF Get
<1>3. CallersKeepApart'
  BY DEF Get, Leave, IInv, TypeOK, CallersKeepApart, Mutex
<1> QED
  BY <1>1, <1>2, <1>3 DEF IInv

LEMMA TryLockKeeps ==
    ASSUME IInv, NEW t \in Thread, TryLock(t) \/ TryLockFails(t)
    PROVE  IInv'
<1>1. key[t] \in Mutex
  BY DEF TryLock, TryLockFails, IInv, CallersKeepApart
<1>2. TypeOK'
  BY BoundsAssumption DEF TryLock, TryLockFails, IInv, TypeOK, Texts
<1>3. LogicalRebuildIsExclusive' /\ TasksAreLocked'
  BY <1>1, <1>2, CallerKeeps, KeyAssumption DEF TryLock, TryLockFails, Mutex, IInv, TypeOK
<1>4. CallersKeepApart'
  BY <1>1, BoundsAssumption DEF TryLock, TryLockFails, IInv, TypeOK, CallersKeepApart
<1> QED
  BY <1>2, <1>3, <1>4 DEF IInv

LEMMA RebuildKeeps ==
    ASSUME IInv, NEW t \in Thread, Rebuild(t) \/ RebuildFails(t)
    PROVE  IInv'
<1>1. key[t] \in Mutex
  BY DEF Rebuild, RebuildFails, IInv, CallersKeepApart
<1>2. TypeOK'
  BY <1>1 DEF Rebuild, RebuildFails, Leave, IInv, TypeOK, Texts, Mutex
<1>3. LogicalRebuildIsExclusive' /\ TasksAreLocked'
  BY <1>2, CallerKeeps DEF Rebuild, RebuildFails
<1>4. CallersKeepApart'
  BY <1>1 DEF Rebuild, RebuildFails, Leave, IInv, TypeOK, CallersKeepApart
<1> QED
  BY <1>2, <1>3, <1>4 DEF IInv

LEMMA UnlockKeeps ==
    ASSUME IInv, NEW t \in Thread, Unlock(t)
    PROVE  IInv'
<1>1. key[t] \in Mutex /\ depth[t] \in Nat /\ depth[t] > 0
  BY DEF Unlock, IInv, CallersKeepApart
<1>2. TypeOK'
  BY <1>1, BoundsAssumption DEF Unlock, Delete, Leave, IInv, TypeOK, Texts
<1>3. LogicalRebuildIsExclusive' /\ TasksAreLocked'
  BY <1>1, <1>2, CallerKeeps, KeyAssumption DEF Unlock, Delete, Mutex, IInv, TypeOK
<1>4. CallersKeepApart'
  BY <1>1 DEF Unlock, Leave, IInv, TypeOK, CallersKeepApart
<1> QED
  BY <1>2, <1>3, <1>4 DEF IInv

LEMMA GetLogicalKeeps ==
    ASSUME IInv, NEW t \in Thread, GetLogical(t)
    PROVE  IInv'
<1>1. TypeOK'
  BY DEF GetLogical, IInv, TypeOK
<1>2. LogicalRebuildIsExclusive' /\ TasksAreLocked'
  BY <1>1, CallerKeeps DEF GetLogical
<1>3. CallersKeepApart'
  BY DEF GetLogical, IInv, TypeOK, CallersKeepApart
<1> QED
  BY <1>1, <1>2, <1>3 DEF IInv

LEMMA TryLockLogicalFailsKeeps ==
    ASSUME IInv, NEW t \in Thread, TryLockLogicalFails(t)
    PROVE  IInv'
<1>1. TypeOK'
  BY DEF TryLockLogicalFails, IInv, TypeOK
<1>2. LogicalRebuildIsExclusive'
  BY DEF TryLockLogicalFails, IInv, LogicalRebuildIsExclusive, TasksOf
<1>3. TasksAreLocked'
  BY DEF TryLockLogicalFails, IInv, TypeOK, Task, TasksAreLocked
<1>4. CallersKeepApart'
  BY DEF TryLockLogicalFails, IInv, TypeOK, CallersKeepApart
<1> QED
  BY <1>1, <1>2, <1>3, <1>4 DEF IInv

\* The one step that adds a task: the lock it took was free, so no task had it.
LEMMA TryLockLogicalKeeps ==
    ASSUME IInv, NEW t \in Thread, TryLockLogical(t)
    PROVE  IInv'
<1> DEFINE new == [call |-> calls, thread |-> t, key |-> key[t], at |-> "load"]
<1>1. key[t] \in Logical /\ key[t] \in Key
  BY DEF TryLockLogical, IInv, TypeOK, CallersKeepApart
<1>2. CallersKeepApart'
  BY DEF TryLockLogical, IInv, TypeOK, CallersKeepApart
<1>3. CASE key[t] \in lock
  <2>1. UNCHANGED <<lock, tasks>>
    BY <1>3 DEF TryLockLogical
  <2>2. TypeOK'
    BY <2>1 DEF TryLockLogical, IInv, TypeOK, Texts
  <2>3. LogicalRebuildIsExclusive' /\ TasksAreLocked'
    BY <2>1, <2>2, CallerKeeps DEF TryLockLogical
  <2> QED
    BY <1>2, <2>2, <2>3 DEF IInv
<1>4. CASE key[t] \notin lock
  <2>1. /\ lock' = lock \cup {key[t]}
        /\ tasks' = tasks \cup {new}
        /\ UNCHANGED <<exists, cache, key, depth, outlived, calls, crashes>>
    BY <1>4 DEF TryLockLogical
  <2>2. new \in Task /\ new.key = key[t]
    BY <1>1, BoundsAssumption DEF Task, IInv, TypeOK
  <2>3. TypeOK'
    <3> HIDE DEF new
    <3> QED
      BY <2>1, <2>2 DEF TryLockLogical, IInv, TypeOK, Texts
  <2> HIDE DEF new
  <2>4. \A task \in tasks : task.key = key[t] => key[t] \in outlived
    BY <1>4 DEF IInv, TasksAreLocked
  <2>5. LogicalRebuildIsExclusive'
    BY <2>1, <2>2, <2>4 DEF IInv, LogicalRebuildIsExclusive, TasksOf
  <2>6. TasksAreLocked'
    BY <1>1, <2>1, <2>2 DEF IInv, TypeOK, Task, TasksAreLocked
  <2> QED
    BY <1>2, <2>3, <2>5, <2>6 DEF IInv
<1> QED
  BY <1>3, <1>4

\* A task goes on to its unlock: it is the only one of its key, before and after.
LEMMA RebuildLogicalKeeps ==
    ASSUME IInv, NEW task \in tasks, RebuildLogical(task)
    PROVE  IInv'
<1> DEFINE next == [task EXCEPT !.at = "unlock"]
<1>1. task \in Task /\ task.key \in Logical /\ task.key \in Key
  BY KeyAssumption DEF IInv, TypeOK, Task
<1>2. next \in Task /\ next.key = task.key
  BY <1>1 DEF Task
<1>3. /\ tasks' = (tasks \ {task}) \cup {next}
      /\ UNCHANGED <<exists, lock, pc, key, depth, outlived, calls, crashes>>
  BY DEF RebuildLogical
<1> HIDE DEF next
<1>4. TypeOK'
  BY <1>1, <1>2, <1>3 DEF RebuildLogical, IInv, TypeOK, Texts
<1>5. LogicalRebuildIsExclusive'
  BY <1>1, <1>2, <1>3 DEF IInv, LogicalRebuildIsExclusive, TasksOf
<1>6. TasksAreLocked'
  BY <1>2, <1>3 DEF IInv, TasksAreLocked
<1>7. CallersKeepApart'
  BY <1>3 DEF IInv, CallersKeepApart
<1> QED
  BY <1>4, <1>5, <1>6, <1>7 DEF IInv

\* A task that is over deletes a lock no other task of its key holds.
LEMMA UnlockLogicalKeeps ==
    ASSUME IInv, NEW task \in tasks, UnlockLogical(task)
    PROVE  IInv'
<1>1. task.key \in Logical /\ task.key \in Key
  BY KeyAssumption DEF IInv, TypeOK, Task
<1>2. /\ tasks' = tasks \ {task}
      /\ UNCHANGED <<exists, cache, pc, key, depth, outlived, calls, crashes>>
      /\ lock' \in {lock, lock \ {task.key}}
  BY DEF UnlockLogical, Delete
<1>3. TypeOK'
  BY <1>1, <1>2 DEF IInv, TypeOK, Texts
<1>4. LogicalRebuildIsExclusive'
  BY <1>2 DEF IInv, LogicalRebuildIsExclusive, TasksOf
<1>5. TasksAreLocked'
  <2> SUFFICES ASSUME NEW other \in tasks, other # task, other.key \notin outlived
               PROVE  other.key \in lock'
    BY <1>2 DEF TasksAreLocked
  <2>1. other.key \in lock /\ other.key \in Logical /\ other.key \in Key
    BY KeyAssumption DEF IInv, TypeOK, Task, TasksAreLocked
  <2>2. other.key # task.key
    BY <1>1, <2>1 DEF IInv, LogicalRebuildIsExclusive, TasksOf
  <2> QED
    BY <1>1, <1>2, <2>1, <2>2 DEF IInv, TypeOK
<1>6. CallersKeepApart'
  BY <1>2 DEF IInv, CallersKeepApart
<1> QED
  BY <1>3, <1>4, <1>5, <1>6 DEF IInv

\* A lock may vanish under a task only by its TTL, which is then on record.
LEMMA ExpireLockKeeps ==
    ASSUME IInv, NEW k \in Key, ExpireLock(k)
    PROVE  IInv'
<1>1. TypeOK'
  BY DEF ExpireLock, IInv, TypeOK, Texts
<1>2. LogicalRebuildIsExclusive'
  BY DEF ExpireLock, IInv, LogicalRebuildIsExclusive, TasksOf
<1>3. TasksAreLocked'
  BY DEF ExpireLock, IInv, TypeOK, Task, TasksAreLocked, Busy, TasksOf
<1>4. CallersKeepApart'
  BY DEF ExpireLock, IInv, CallersKeepApart
<1> QED
  BY <1>1, <1>2, <1>3, <1>4 DEF IInv

LEMMA ExpireEntryKeeps ==
    ASSUME IInv, NEW k \in Key, ExpireKey(k) \/ ExpireLogically(k)
    PROVE  IInv'
<1>1. TypeOK'
  BY DEF ExpireKey, ExpireLogically, IInv, TypeOK, Texts, Mutex
<1>2. LogicalRebuildIsExclusive' /\ TasksAreLocked'
  BY <1>1, CallerKeeps DEF ExpireKey, ExpireLogically
<1>3. CallersKeepApart'
  BY DEF ExpireKey, ExpireLogically, IInv, CallersKeepApart
<1> QED
  BY <1>1, <1>2, <1>3 DEF IInv

LEMMA CrashKeeps == ASSUME IInv, Crash PROVE IInv'
<1>1. TypeOK'
  BY BoundsAssumption DEF Crash, IInv, TypeOK, Texts
<1> QED
  BY <1>1 DEF Crash, IInv, LogicalRebuildIsExclusive, TasksOf, TasksAreLocked, CallersKeepApart

\* The invariant is inductive: every step of queryWithMutex,
\* queryWithLogicalExpire, the rebuild pool, the TTLs and a crash keeps it.
THEOREM Invariance == Spec => []IInv
<1>1. Init => IInv
  BY InitIInv
<1>2. IInv /\ [Next]_vars => IInv'
  <2> SUFFICES ASSUME IInv, [Next]_vars PROVE IInv'
    OBVIOUS
  <2>1. CASE \E t \in Thread, k \in Key : Call(t, k)
    BY <2>1, CallKeeps
  <2>2. CASE \E t \in Thread : QueryWithMutex(t)
    BY <2>2, GetKeeps, TryLockKeeps, RebuildKeeps, UnlockKeeps DEF QueryWithMutex
  <2>3. CASE \E t \in Thread : QueryWithLogicalExpire(t)
    BY <2>3, GetLogicalKeeps, TryLockLogicalKeeps, TryLockLogicalFailsKeeps
       DEF QueryWithLogicalExpire
  <2>4. CASE \E task \in tasks : RebuildLogical(task) \/ UnlockLogical(task)
    BY <2>4, RebuildLogicalKeeps, UnlockLogicalKeeps
  <2>5. CASE \E k \in Key : ExpireLock(k) \/ ExpireKey(k) \/ ExpireLogically(k)
    BY <2>5, ExpireLockKeeps, ExpireEntryKeeps
  <2>6. CASE Crash
    BY <2>6, CrashKeeps
  <2>7. CASE UNCHANGED vars
    BY <2>7 DEF vars, IInv, TypeOK, Texts, LogicalRebuildIsExclusive, TasksOf,
                TasksAreLocked, CallersKeepApart
  <2> QED
    BY <2>1, <2>2, <2>3, <2>4, <2>5, <2>6, <2>7 DEF Next
<1> QED
  BY <1>1, <1>2, PTL DEF Spec

\* queryWithLogicalExpire never has two rebuilds of one shop in hand, for any
\* number of threads, crashes and failed Redis commands, while no rebuild takes
\* longer than its lock lives.
THEOREM LogicalExclusion == Spec => []LogicalRebuildIsExclusive
<1>1. IInv => LogicalRebuildIsExclusive
  BY DEF IInv
<1> QED
  BY <1>1, Invariance, PTL

\* Every variable of the two strategies keeps to its set, and neither strategy
\* writes the other's text under a key.
THEOREM Typing == Spec => []TypeOK
<1>1. IInv => TypeOK
  BY DEF IInv
<1> QED
  BY <1>1, Invariance, PTL
=============================================================================
