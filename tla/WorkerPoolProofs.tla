-------------------------- MODULE WorkerPoolProofs --------------------------
(***************************************************************************)
(* Proofs about the worker pool, for any number of tasks, task types and   *)
(* workers, either claim path, and every set of faults.                    *)
(***************************************************************************)
EXTENDS WorkerPool, PhpWorkerProofs, SequenceTheorems

USE TableAssumption, WorkerAssumption, PoolAssumption DEF HasGoroutine

\* The type the free slots carry is one.
LEMMA AnyTypeIsType == AnyType \in TaskTypes
BY DEF AnyType

-----------------------------------------------------------------------------
(* The claims: who owns which task, and what a snapshot cannot hold.        *)

ClaimInv == Owners /\ SnapshotsSound /\ OwnTaskNotExcluded

\* A statement of a worker keeps the claims: it claims a free task, or gives up its
\* own.
LEMMA EffectKeepsClaims ==
    ASSUME PhpInv, preexisting \in [Workers -> SUBSET Tasks], ClaimInv,
           NEW w \in Workers, Effect(w), UNCHANGED preexisting
    PROVE  ClaimInv'
<1>1. Owners'
  BY EffectKeepsOwners DEF ClaimInv
<1> USE DEF PhpInv, PhpTypeOK, Effect, Forward
<1>2. SnapshotsSound'
  BY DEF ClaimInv, SnapshotsSound
<1>3. OwnTaskNotExcluded'
  BY DEF ClaimInv, SnapshotsSound, OwnTaskNotExcluded
<1> QED BY <1>1, <1>2, <1>3 DEF ClaimInv

\* Rows that move forward with no process involved.
LEMMA ForwardKeepsClaims ==
    ASSUME PhpInv, preexisting \in [Workers -> SUBSET Tasks], ClaimInv, Forward,
           UNCHANGED <<wtype, proc, task, preexisting>>
    PROVE  ClaimInv'
<1>1. Owners'
  BY ForwardKeepsOwners DEF ClaimInv
<1>2. OwnTaskNotExcluded'
  BY DEF ClaimInv, OwnTaskNotExcluded
<1>3. SnapshotsSound'
  BY DEF PhpInv, PhpTypeOK, Forward, ClaimInv, SnapshotsSound
<1> QED BY <1>1, <1>2, <1>3 DEF ClaimInv

\* A worker is started in a slot that has no task, its snapshot is of RUNNING
\* rows only.
LEMMA StartKeepsClaims ==
    ASSUME PhpInv, PoolTypeOK, ClaimInv, GoroutinesSound,
           NEW ty \in TaskTypes, NEW w \in Workers, StartWorker(ty, w)
    PROVE  ClaimInv'
<1> USE DEF Owners, PhpInv, PhpTypeOK, PoolTypeOK, StartWorker, tableVars
<1>1. task[w] = NoTask
  BY DEF ClaimInv, ClaimsSound, GoroutinesSound
<1>2. ClaimsSound' /\ OneOwner'
  BY <1>1 DEF ClaimInv, ClaimsSound, OneOwner
<1>3. /\ status' = status /\ task' = task
      /\ \A v \in Workers \ {w} : preexisting'[v] = preexisting[v]
      /\ \A t \in preexisting'[w] : status[t] = "running"
  BY DEF RunningTaskIDs, RowsOf
<1>4. SnapshotsSound' /\ OwnTaskNotExcluded'
  BY ONLY <1>1, <1>3, ClaimInv DEF ClaimInv, SnapshotsSound, OwnTaskNotExcluded
<1> QED BY <1>2, <1>4 DEF ClaimInv

\* So does the end of a process of which nothing is left.
LEMMA FreeSlotKeepsClaims ==
    ASSUME PhpInv, PoolTypeOK, ClaimInv, NEW w \in Workers, FreeSlot(w)
    PROVE  ClaimInv'
<1> USE DEF Owners, PhpInv, PhpTypeOK, PoolTypeOK, FreeSlot, tableVars
<1>1. ClaimsSound' /\ OneOwner'
  BY DEF ClaimInv, ClaimsSound, OneOwner
<1>2. SnapshotsSound' /\ OwnTaskNotExcluded'
  BY DEF ClaimInv, SnapshotsSound, OwnTaskNotExcluded
<1> QED BY <1>1, <1>2 DEF ClaimInv
-----------------------------------------------------------------------------
(* The sequences of registered workers.                                     *)

\* Keeping the first n workers of a type.
LEMMA PrefixOfRegistry ==
    ASSUME NEW s \in Seq(Workers), NEW n \in Nat, n <= Len(s)
    PROVE  /\ SubSeq(s, 1, n) \in Seq(Workers)
           /\ ToSet(SubSeq(s, 1, n)) \subseteq ToSet(s)
           /\ IsInjective(s) => IsInjective(SubSeq(s, 1, n))
<1> DEFINE r == SubSeq(s, 1, n)
<1>1. r \in Seq(Workers) /\ Len(r) = n /\ \A i \in 1 .. n : r[i] = s[i]
  OBVIOUS
<1>2. DOMAIN r = 1 .. n /\ DOMAIN s = 1 .. Len(s)
  BY <1>1
<1> HIDE DEF r
<1>3. ToSet(r) \subseteq ToSet(s)
  BY <1>1, <1>2 DEF ToSet
<1>4. IsInjective(s) => IsInjective(r)
  BY <1>1, <1>2 DEF IsInjective
<1> QED BY <1>1, <1>3, <1>4 DEF r

\* Registering a worker.
LEMMA AppendToRegistry ==
    ASSUME NEW s \in Seq(Workers), NEW w \in Workers
    PROVE  /\ Append(s, w) \in Seq(Workers)
           /\ ToSet(Append(s, w)) = ToSet(s) \cup {w}
           /\ IsInjective(s) /\ w \notin ToSet(s) => IsInjective(Append(s, w))
<1> DEFINE r == Append(s, w)
<1>1. /\ r \in Seq(Workers) /\ Len(r) = Len(s) + 1 /\ r[Len(s) + 1] = w
      /\ \A i \in 1 .. Len(s) : r[i] = s[i]
  OBVIOUS
<1>2. DOMAIN r = 1 .. Len(s) + 1 /\ DOMAIN s = 1 .. Len(s) /\ Len(s) \in Nat
  BY <1>1
<1> HIDE DEF r
<1>3. ToSet(r) = ToSet(s) \cup {w}
  BY <1>1, <1>2 DEF ToSet
<1>4. IsInjective(s) /\ w \notin ToSet(s) => IsInjective(r)
  BY <1>1, <1>2 DEF IsInjective, ToSet
<1> QED BY <1>1, <1>3, <1>4 DEF r

\* Removing a worker that may be registered.
LEMMA WithoutWorker ==
    ASSUME NEW s \in Seq(Workers), NEW w \in Workers
    PROVE  /\ Without(s, w) \in Seq(Workers) /\ Len(Without(s, w)) <= Len(s)
           /\ ToSet(Without(s, w)) \subseteq ToSet(s)
           /\ IsInjective(s) => /\ IsInjective(Without(s, w))
                               /\ w \notin ToSet(Without(s, w))
<1>1. CASE \A i \in DOMAIN s : s[i] # w
  BY <1>1 DEF Without, ToSet
<1>2. ASSUME NEW j \in DOMAIN s, s[j] = w
      PROVE  /\ Without(s, w) \in Seq(Workers) /\ Len(Without(s, w)) <= Len(s)
             /\ ToSet(Without(s, w)) \subseteq ToSet(s)
             /\ IsInjective(s) => /\ IsInjective(Without(s, w))
                                 /\ w \notin ToSet(Without(s, w))
  <2> DEFINE k == CHOOSE i \in DOMAIN s : s[i] = w
             r == RemoveAt(s, k)
  <2>1. k \in 1 .. Len(s) /\ s[k] = w
    BY <1>2
  <2>2. Without(s, w) = r
    BY <1>2 DEF Without
  <2> HIDE DEF k
  <2>3. /\ r \in Seq(Workers) /\ Len(r) = Len(s) - 1
        /\ \A i \in 1 .. Len(r) : r[i] = IF i < k THEN s[i] ELSE s[i + 1]
    <3> DEFINE a == SubSeq(s, 1, k - 1)
               b == SubSeq(s, k + 1, Len(s))
    <3>1. Len(s) \in Nat /\ k \in Nat
      BY <2>1
    <3>2. /\ a \in Seq(Workers) /\ Len(a) = k - 1
          /\ \A i \in 1 .. k - 1 : a[i] = s[i]
      BY <2>1, <3>1
    <3>3. /\ b \in Seq(Workers) /\ Len(b) = Len(s) - k
          /\ \A i \in 1 .. Len(s) - k : b[i] = s[k + i]
      BY <2>1, <3>1
    <3>4. r = a \o b
      BY DEF RemoveAt
    <3> HIDE DEF a, b, r
    <3>5. /\ r \in Seq(Workers) /\ Len(r) = Len(a) + Len(b)
          /\ \A i \in 1 .. Len(a) + Len(b) :
                r[i] = IF i <= Len(a) THEN a[i] ELSE b[i - Len(a)]
      BY ONLY <3>2, <3>3, <3>4, ConcatProperties
    <3>6. ASSUME NEW i \in 1 .. Len(s) - 1
          PROVE  r[i] = IF i < k THEN s[i] ELSE s[i + 1]
      <4>1. r[i] = IF i < k THEN a[i] ELSE b[i - (k - 1)]
        <5>1. Len(a) + Len(b) = Len(s) - 1 /\ Len(a) = k - 1
          BY ONLY <3>1, <3>2, <3>3
        <5>2. r[i] = IF i <= Len(a) THEN a[i] ELSE b[i - Len(a)]
          BY ONLY <3>5, <3>6, <5>1
        <5>3. i <= Len(a) <=> i < k
          BY ONLY <3>1, <3>6, <5>1
        <5> QED BY ONLY <5>1, <5>2, <5>3
      <4>2. CASE i < k
        <5>1. i \in 1 .. k - 1
          BY ONLY <3>1, <3>6, <4>2
        <5>2. a[i] = s[i]
          BY ONLY <3>2, <5>1
        <5> QED BY <4>1, <4>2, <5>2
      <4>3. CASE i >= k
        <5>1. i - (k - 1) \in 1 .. Len(s) - k /\ k + (i - (k - 1)) = i + 1
          BY ONLY <2>1, <3>1, <3>6, <4>3
        <5> QED BY ONLY <3>1, <3>3, <3>6, <4>1, <4>3, <5>1
      <4> QED BY ONLY <3>1, <3>6, <4>2, <4>3
    <3>7. Len(r) = Len(s) - 1
      BY ONLY <3>1, <3>2, <3>3, <3>5
    <3> QED BY ONLY <3>5, <3>6, <3>7
  <2>4. DOMAIN r = 1 .. Len(s) - 1 /\ DOMAIN s = 1 .. Len(s) /\ Len(s) \in Nat
    BY <2>3
  <2> HIDE DEF r
  <2>5. ASSUME NEW i \in DOMAIN r
        PROVE  \E m \in DOMAIN s : r[i] = s[m] /\ m # k
    <3>1. CASE i < k
      BY ONLY <2>1, <2>3, <2>4, <2>5, <3>1
    <3>2. CASE i >= k
      <4>1. r[i] = s[i + 1] /\ i + 1 \in DOMAIN s /\ i + 1 # k
        BY ONLY <2>1, <2>3, <2>4, <2>5, <3>2
      <4> QED BY <4>1
    <3> QED BY <2>1, <2>4, <3>1, <3>2
  <2>6. ToSet(r) \subseteq ToSet(s)
    BY <2>5 DEF ToSet
  <2>7. ASSUME IsInjective(s) PROVE IsInjective(r) /\ w \notin ToSet(r)
    <3>1. w \notin ToSet(r)
      BY <2>1, <2>4, <2>5, <2>7 DEF IsInjective, ToSet
    <3>2. ASSUME NEW i \in DOMAIN r, NEW j2 \in DOMAIN r, r[i] = r[j2]
          PROVE  i = j2
      <4> DEFINE from(x) == IF x < k THEN x ELSE x + 1
      <4>1. from(i) \in DOMAIN s /\ from(j2) \in DOMAIN s
        BY <2>1, <2>4
      <4>2. s[from(i)] = s[from(j2)]
        BY <2>1, <2>3, <2>4, <3>2
      <4>3. from(i) = from(j2)
        BY <2>7, <4>1, <4>2 DEF IsInjective
      <4> QED BY <2>1, <2>4, <4>3
    <3> QED BY <3>1, <3>2 DEF IsInjective
  <2> QED BY <2>2, <2>3, <2>6, <2>7
<1> QED BY <1>1, <1>2
-----------------------------------------------------------------------------
(* Type correctness of the pool.                                            *)

\* The processes and the table keep their types where nothing happens to them.
LEMMA UnchangedTypes ==
    ASSUME PhpInv, UNCHANGED <<phpVars, tableVars>> PROVE PhpInv'
BY DEF PhpInv, TableTypeOK, PhpTypeOK, phpVars, tableVars

\* Where the goroutine goes when its command has ended, by the error of the context.
LEMMA AfterRunIsPlace ==
    ASSUME PoolTypeOK, NEW w \in Workers
    PROVE  /\ AfterRun(w) \in {"orphans", "marking", "removing"}
           /\ AfterRun(w) = "orphans" <=> ctxErr[w] = "deadline"
           /\ AfterRun(w) = "marking" => ctxErr[w] = "none"
BY DEF AfterRun, PoolTypeOK

\* Reconcile, up to its first start, keeps the types.
LEMMA ReconcileTypes ==
    ASSUME PoolInv, NEW desired \in [TaskTypes -> Nat], ReconcileBegin(desired)
    PROVE  PoolTypeOK'
<1> USE DEF PoolInv, PoolTypeOK
<1>1. deficit' \in [TaskTypes -> Nat]
  <2>1. \A ty \in TaskTypes : Len(workers[ty]) \in Nat /\ desired[ty] \in Nat
    OBVIOUS
  <2> QED BY <2>1 DEF ReconcileBegin, Lacking
<1>2. workers' \in [TaskTypes -> Seq(Workers)]
  <2>1. ASSUME NEW ty \in TaskTypes, Len(workers[ty]) > desired[ty]
        PROVE  SubSeq(workers[ty], 1, desired[ty]) \in Seq(Workers)
    BY <2>1, PrefixOfRegistry
  <2> QED BY <2>1 DEF ReconcileBegin
<1>3. ctxErr' \in [Workers -> {"none", "canceled", "deadline"}]
  BY DEF ReconcileBegin, CancelContexts
<1> QED BY <1>1, <1>2, <1>3 DEF ReconcileBegin, shutdownVars

\* The goroutine of one worker.
LEMMA GoroutineTypes ==
    ASSUME PoolIInv, NEW w \in Workers, Goroutine(w)
    PROVE  PoolInv'
<1> USE DEF PoolIInv, PoolInv, reconcileVars, shutdownVars
<1>1. CASE Spawn(w) \/ SpawnFail(w) \/ Reap(w)
  <2>1. PhpInv'
    BY <1>1, SignalTypes, UnchangedTypes DEF Spawn, SpawnFail, Reap
  <2>2. PoolTypeOK'
    BY <1>1, AfterRunIsPlace
       DEF Spawn, SpawnFail, Reap, GoroutineTo, PoolTypeOK, GorStates
  <2> QED BY <2>1, <2>2
<1>2. CASE Deadline(w)
  BY <1>2, UnchangedTypes DEF Deadline, PoolTypeOK
<1>3. CASE Terminate(w) \/ Escalate(w)
  <2>1. PhpInv'
    BY <1>3, SignalTypes DEF Terminate, Escalate
  <2> QED BY <1>3, <2>1 DEF Terminate, Escalate, poolVars, PoolTypeOK
<1>4. CASE FailOrphanedTasks(w)
  <2>1. status' \in [Tasks -> Statuses]
    BY <1>4 DEF FailOrphanedTasks, FailRunningTasks, PhpInv, TableTypeOK, Statuses
  <2>2. PhpInv'
    BY <1>4, <2>1 DEF FailOrphanedTasks, PhpInv, TableTypeOK, PhpTypeOK, phpVars
  <2> QED BY <1>4, <2>2 DEF FailOrphanedTasks, GoroutineTo, PoolTypeOK, GorStates
<1>5. CASE MarkUnworkable(w)
  <2>1. wtype[w] \in TaskTypes
    BY DEF PhpInv, PhpTypeOK
  <2> QED BY <1>5, <2>1, UnchangedTypes DEF MarkUnworkable, PoolTypeOK, GorStates
<1>6. CASE RemoveWorker(w)
  <2>1. PhpInv'
    BY <1>6, AnyTypeIsType
       DEF RemoveWorker, FreeSlot, PhpInv, TableTypeOK, PhpTypeOK, ProcStates, Exits, tableVars
  <2>2. workers' \in [TaskTypes -> Seq(Workers)]
    <3>1. wtype[w] \in TaskTypes
      BY DEF PhpInv, PhpTypeOK
    <3>2. workers[wtype[w]] \in Seq(Workers)
      BY <3>1 DEF PoolTypeOK
    <3>3. Without(workers[wtype[w]], w) \in Seq(Workers)
      BY ONLY <3>2, WithoutWorker
    <3> QED BY <1>6, <3>1, <3>3 DEF RemoveWorker, PoolTypeOK
  <2> QED BY <1>6, <2>1, <2>2 DEF RemoveWorker, FreeSlot, PoolTypeOK, GorStates
<1> QED BY <1>1, <1>2, <1>3, <1>4, <1>5, <1>6 DEF Goroutine, GoroutineRuns, GoroutineLocks

\* Every step of the pool and of its client.
LEMMA PoolStepTypes ==
    ASSUME PoolIInv, [PoolNext]_vars
    PROVE  PoolInv'
<1> USE DEF PoolIInv, PoolInv, reconcileVars, shutdownVars
<1>1. ASSUME NEW w \in Workers, Goroutine(w) PROVE PoolInv'
  BY <1>1, GoroutineTypes
<1>2. ASSUME NEW w \in Workers, PhpStep(w), UNCHANGED poolVars PROVE PoolInv'
  BY <1>2, PhpStepTypes DEF poolVars, PoolTypeOK
<1>3. ASSUME NEW ty \in TaskTypes, NEW w \in Workers, StartWorker(ty, w) PROVE PoolInv'
  <2>1. PhpInv'
    BY <1>3 DEF StartWorker, PhpInv, TableTypeOK, PhpTypeOK, tableVars
  <2>2. preexisting' \in [Workers -> SUBSET Tasks]
    BY <1>3 DEF StartWorker, RunningTaskIDs, RowsOf, PoolTypeOK
  <2> QED BY <1>3, <2>1, <2>2 DEF StartWorker, PoolTypeOK, GorStates
<1>4. CASE AppendWorker
  <2>1. turn \in TaskTypes /\ launched \in Workers /\ deficit[turn] \in Nat \ {0}
    BY <1>4 DEF AppendWorker, ReconcileSound, PoolTypeOK
  <2>2. Append(workers[turn], launched) \in Seq(Workers)
    BY <2>1, AppendToRegistry DEF PoolTypeOK
  <2> QED BY <1>4, <2>1, <2>2, UnchangedTypes DEF AppendWorker, PoolTypeOK
<1>5. CASE ShutdownBegin
  <2>1. RegisteredWorkers \subseteq Workers
    BY DEF RegisteredWorkers, Registered, ToSet, PoolTypeOK
  <2> QED BY <1>5, <2>1, UnchangedTypes DEF ShutdownBegin, CancelContexts, PoolTypeOK
<1>6. CASE ShutdownEnd \/ ResetUnworkable
  BY <1>6, UnchangedTypes DEF ShutdownEnd, ResetUnworkable, PoolTypeOK
<1>7. CASE TableStep /\ UNCHANGED <<phpVars, poolVars>>
  BY <1>7, TableStepTypes DEF PhpInv, PhpTypeOK, phpVars, poolVars, PoolTypeOK
<1>8. ASSUME NEW desired \in [TaskTypes -> 0 .. MaxDesired], ReconcileBegin(desired)
      PROVE  PoolInv'
  BY <1>8, ReconcileTypes, UnchangedTypes DEF ReconcileBegin
<1>9. CASE CancelParent
  BY <1>9, UnchangedTypes DEF CancelParent, CancelContexts, PoolTypeOK
<1>10. CASE UNCHANGED vars
  BY <1>10, UnchangedTypes DEF vars, poolVars, PoolTypeOK
<1>12. ASSUME NEW w \in Workers, OrphanGone(w) PROVE PoolInv'
  <2>1. PhpInv'
    BY <1>12, AnyTypeIsType
       DEF OrphanGone, FreeSlot, PhpInv, TableTypeOK, PhpTypeOK, ProcStates, Exits, tableVars
  <2> QED BY <1>12, <2>1 DEF OrphanGone, FreeSlot, PoolTypeOK, GorStates
<1>13. ASSUME NEW w \in Workers, OrphanSignalled(w) PROVE PoolInv'
  <2>1. PhpInv'
    BY <1>13, SignalTypes DEF OrphanSignalled
  <2> QED BY <1>13, <2>1 DEF OrphanSignalled, poolVars, PoolTypeOK
<1>14. CASE SupervisorDies \/ Restart
  <2>1. workers' \in [TaskTypes -> Seq(Workers)]
    <3>1. <<>> \in Seq(Workers) /\ workers' = [ty \in TaskTypes |-> <<>>]
      BY <1>14 DEF SupervisorDies, Restart, Forget
    <3> QED BY ONLY <3>1
  <2>2. /\ gor' \in [Workers -> GorStates] /\ deficit' \in [TaskTypes -> Nat]
        /\ ctxErr' \in [Workers -> {"none", "canceled", "deadline"}]
        /\ preexisting' \in [Workers -> SUBSET Tasks]
    BY <1>14 DEF SupervisorDies, Restart, Forget, GorStates
  <2>3. /\ unworkable' = {} /\ turn' = NoType /\ launched' = NoWorker
        /\ ctxDone' = FALSE /\ shutdown' \in {"no", "died"} /\ awaited' = {}
        /\ UNCHANGED <<phpVars, tableVars>>
    BY <1>14 DEF SupervisorDies, Restart, Forget
  <2> QED BY <2>1, <2>2, <2>3, UnchangedTypes DEF PoolTypeOK
<1> QED BY <1>1, <1>2, <1>3, <1>4, <1>5, <1>6, <1>7, <1>8, <1>9, <1>10, <1>12, <1>13,
           <1>14
        DEF PoolNext, PoolStep, ScaleUp, Orphans, Client
-----------------------------------------------------------------------------
(* The claims, over every step of the pool.                                 *)

\* Every step of the pool keeps the claims,
LEMMA PoolStepClaims ==
    ASSUME PoolIInv, [PoolNext]_vars
    PROVE  ClaimInv'
<1> USE DEF PoolIInv, PoolInv
<1>1. ClaimInv /\ preexisting \in [Workers -> SUBSET Tasks]
  BY DEF ClaimInv, Owners, PoolTypeOK
<1>2. ASSUME NEW w \in Workers, Effect(w), UNCHANGED preexisting PROVE ClaimInv'
  BY <1>1, <1>2, EffectKeepsClaims
<1>3. ASSUME Forward, UNCHANGED <<wtype, proc, task, preexisting>> PROVE ClaimInv'
  BY <1>1, <1>3, ForwardKeepsClaims
<1>4. ASSUME UNCHANGED <<phpVars, tableVars, preexisting>> PROVE ClaimInv'
  BY <1>3, <1>4, SameRowsForward DEF phpVars, tableVars
<1>5. ASSUME NEW w \in Workers, Goroutine(w) PROVE ClaimInv'
  <2>1. CASE Spawn(w) \/ Terminate(w) \/ Escalate(w)
    <3>1. /\ Fork(w) \/ SigTerm(w) \/ SigKill(w)
          /\ UNCHANGED status /\ UNCHANGED preexisting
      BY <2>1 DEF Spawn, Terminate, Escalate, GoroutineTo, tableVars, poolVars
    <3> QED BY <1>1, <1>2, <3>1, SignalEffect DEF ClaimInv, Owners
  <2>2. CASE SpawnFail(w) \/ Reap(w) \/ Deadline(w) \/ MarkUnworkable(w)
    BY <1>4, <2>2 DEF SpawnFail, Reap, Deadline, MarkUnworkable, GoroutineTo
  <2>3. CASE FailOrphanedTasks(w)
    <3>1. Forward
      BY <2>3 DEF FailOrphanedTasks, FailRunningTasks, RowsOf, Forward,
                  PhpInv, TableTypeOK
    <3> QED BY <1>3, <2>3, <3>1 DEF FailOrphanedTasks, GoroutineTo, phpVars
  <2>4. CASE RemoveWorker(w)
    BY <1>1, <2>4, FreeSlotKeepsClaims DEF RemoveWorker
  <2> QED BY <1>5, <2>1, <2>2, <2>3, <2>4
          DEF Goroutine, GoroutineRuns, GoroutineLocks
<1>6. ASSUME NEW w \in Workers, PhpStep(w), UNCHANGED poolVars PROVE ClaimInv'
  BY <1>2, <1>6, PhpStepEffect DEF poolVars
<1>7. ASSUME NEW ty \in TaskTypes, NEW w \in Workers, StartWorker(ty, w) PROVE ClaimInv'
  BY <1>1, <1>7, StartKeepsClaims
<1>8. CASE TableStep /\ UNCHANGED <<phpVars, poolVars>>
  BY <1>3, <1>8, TableStepForward DEF PhpInv, phpVars, poolVars
<1>9. CASE AppendWorker \/ ShutdownBegin \/ ShutdownEnd \/ (Client /\ ~SupervisorDies /\ ~Restart)
  BY <1>4, <1>9 DEF AppendWorker, ShutdownBegin, ShutdownEnd, Client, ReconcileBegin,
                    ResetUnworkable, CancelParent
<1>10. CASE UNCHANGED vars
  BY <1>4, <1>10 DEF vars, poolVars
<1>11. CASE SupervisorDies \/ Restart
  <2>1. UNCHANGED <<wtype, proc, task, status>> /\ preexisting' = [w \in Workers |-> {}]
    BY <1>11 DEF SupervisorDies, Restart, Forget, phpVars, tableVars
  <2> QED BY <1>1, <2>1
          DEF ClaimInv, Owners, ClaimsSound, OneOwner, SnapshotsSound, OwnTaskNotExcluded
<1>12. ASSUME NEW w \in Workers, OrphanGone(w) PROVE ClaimInv'
  BY <1>1, <1>12, FreeSlotKeepsClaims DEF OrphanGone
<1>13. ASSUME NEW w \in Workers, OrphanSignalled(w) PROVE ClaimInv'
  <2>1. SigTerm(w) \/ SigKill(w)
    BY <1>13 DEF OrphanSignalled
  <2>2. UNCHANGED <<status, preexisting>>
    BY <1>13 DEF OrphanSignalled, tableVars, poolVars
  <2> QED BY <1>1, <1>2, <2>1, <2>2, SignalEffect DEF ClaimInv, Owners
<1> QED BY <1>5, <1>6, <1>7, <1>8, <1>9, <1>10, <1>11, <1>12, <1>13
        DEF PoolNext, PoolStep, ScaleUp, Orphans, Client

-----------------------------------------------------------------------------
(* The goroutines, and what the cleanup after a hard timeout leaves behind. *)

\* every step keeps each goroutine where its context and its process say,
LEMMA PoolStepGoroutines ==
    ASSUME PoolIInv, [PoolNext]_vars
    PROVE  GoroutinesSound' /\ CleanupComplete'
<1> USE DEF PoolIInv, PoolInv, PhpInv, TableTypeOK, PhpTypeOK, PoolTypeOK
<1>1. ASSUME UNCHANGED <<phpVars, tableVars, gor, ctxErr>>
      PROVE  GoroutinesSound' /\ CleanupComplete'
  BY <1>1 DEF phpVars, tableVars, GoroutinesSound, CleanupComplete
<1>2. ASSUME NEW S \in SUBSET Workers, CancelContexts(S), UNCHANGED <<phpVars, tableVars, gor>>
      PROVE  GoroutinesSound' /\ CleanupComplete'
  BY <1>2 DEF CancelContexts, phpVars, tableVars, GoroutinesSound, CleanupComplete
<1>3. ASSUME NEW w \in Workers, Goroutine(w)
      PROVE  GoroutinesSound' /\ CleanupComplete'
  <2>1. CASE Spawn(w)
    BY <2>1 DEF Spawn, Fork, GoroutineTo, tableVars, GoroutinesSound, CleanupComplete
  <2>2. CASE SpawnFail(w)
    <3>1. proc[w] = "none" /\ task[w] = NoTask
      BY <2>2 DEF SpawnFail, GoroutinesSound, ClaimsSound
    <3> QED BY <2>2, <3>1, AfterRunIsPlace
            DEF SpawnFail, GoroutineTo, phpVars, tableVars, GoroutinesSound, CleanupComplete
  <2>3. CASE Reap(w)
    BY <2>3, AfterRunIsPlace
       DEF Reap, GoroutineTo, phpVars, tableVars, GoroutinesSound, CleanupComplete
  <2>4. CASE Deadline(w)
    BY <2>4 DEF Deadline, phpVars, tableVars, GoroutinesSound, CleanupComplete
  <2>5. CASE Terminate(w) \/ Escalate(w)
    <3>1. /\ gor[w] = "running" /\ UNCHANGED <<gor, ctxErr, status>>
          /\ \A v \in Workers \ {w} : proc'[v] = proc[v] /\ task'[v] = task[v]
      BY <2>5 DEF Terminate, Escalate, SigTerm, SigKill, Exit, Die, poolVars, tableVars
    <3> QED BY <3>1 DEF GoroutinesSound, CleanupComplete
  <2>6. CASE FailOrphanedTasks(w)
    <3>1. GoroutinesSound'
      BY <2>6 DEF FailOrphanedTasks, GoroutineTo, phpVars, GoroutinesSound
    <3>2. ASSUME "db" \notin Faults, task[w] # NoTask PROVE status'[task[w]] # "running"
      <4>1. task[w] \in Tasks /\ TypeOf[task[w]] = wtype[w] /\ task[w] \notin preexisting[w]
        BY <3>2 DEF ClaimsSound, OwnTaskNotExcluded
      <4> QED BY <2>6, <3>2, <4>1 DEF FailOrphanedTasks, FailRunningTasks, RowsOf
    <3>3. \A t \in Tasks : status[t] # "running" => status'[t] # "running"
      BY <2>6 DEF FailOrphanedTasks, FailRunningTasks, RowsOf
    <3>4. CleanupComplete'
      BY <2>6, <3>2, <3>3 DEF FailOrphanedTasks, GoroutineTo, phpVars, CleanupComplete
    <3> QED BY <3>1, <3>4
  <2>7. CASE MarkUnworkable(w)
    BY <2>7 DEF MarkUnworkable, phpVars, tableVars, GoroutinesSound, CleanupComplete
  <2>8. CASE RemoveWorker(w)
    BY <2>8 DEF RemoveWorker, FreeSlot, tableVars, GoroutinesSound, CleanupComplete
  <2> QED BY <1>3, <2>1, <2>2, <2>3, <2>4, <2>5, <2>6, <2>7, <2>8
          DEF Goroutine, GoroutineRuns, GoroutineLocks
<1>4. ASSUME NEW w \in Workers, PhpStep(w), UNCHANGED poolVars
      PROVE  GoroutinesSound' /\ CleanupComplete'
  <2>1. Effect(w)
    BY <1>4, PhpStepEffect
  <2>2. proc[w] \notin {"none", "dead"}
    BY <1>4 DEF PhpStep, Boot, BootNoProvider, BootFail, StopOnSignal, TimeoutReached,
       StopOnMaxTasks, BeginClaim, Crash, ClaimNext, Fetch, NothingToClaim, LockWon,
       LockLost, GiveUpClaim, ClaimError, Finish
  <2>3. gor[w] \in {"running", "lost"} /\ UNCHANGED <<gor, ctxErr>>
    BY <1>4, <2>2 DEF GoroutinesSound, poolVars, GorStates
  <2>4. GoroutinesSound'
    BY <2>1, <2>3 DEF Effect, GoroutinesSound
  <2>5. ASSUME NEW v \in Workers, "db" \notin Faults, gor'[v] = "removing",
               ctxErr'[v] = "deadline", task'[v] # NoTask
        PROVE  status'[task'[v]] # "running"
    <3>1. v # w /\ task'[v] = task[v] /\ task[v] \in Tasks
      BY <2>1, <2>3, <2>5 DEF Effect
    <3>2. status[task[v]] \notin {"absent", "scheduled", "running"}
      BY <2>3, <2>5, <3>1 DEF CleanupComplete, ClaimsSound, GoroutinesSound
    <3> QED BY <2>1, <3>1, <3>2 DEF Effect, Forward
  <2> QED BY <2>4, <2>5 DEF CleanupComplete
<1>5. ASSUME NEW ty \in TaskTypes, NEW w \in Workers, StartWorker(ty, w)
      PROVE  GoroutinesSound' /\ CleanupComplete'
  BY <1>5 DEF StartWorker, tableVars, GoroutinesSound, CleanupComplete
<1>6. CASE AppendWorker \/ ShutdownEnd \/ ResetUnworkable
  BY <1>1, <1>6 DEF AppendWorker, ShutdownEnd, ResetUnworkable
<1>7. CASE ShutdownBegin \/ CancelParent
  <2>1. RegisteredWorkers \in SUBSET Workers
    BY DEF RegisteredWorkers, Registered, ToSet
  <2> QED BY <1>2, <1>7, <2>1 DEF ShutdownBegin, CancelParent
<1>8. ASSUME NEW desired \in [TaskTypes -> 0 .. MaxDesired], ReconcileBegin(desired)
      PROVE  GoroutinesSound' /\ CleanupComplete'
  <2>1. UNION {Surplus(ty, desired[ty]) : ty \in TaskTypes} \in SUBSET Workers
    BY DEF Surplus
  <2> QED BY <1>2, <1>8, <2>1 DEF ReconcileBegin
<1>9. CASE TableStep /\ UNCHANGED <<phpVars, poolVars>>
  <2>1. Forward
    BY <1>9, TableStepForward
  <2>2. GoroutinesSound'
    BY <1>9 DEF phpVars, poolVars, GoroutinesSound
  <2>3. UNCHANGED <<gor, ctxErr, task, proc>>
    BY <1>9 DEF phpVars, poolVars
  <2>4. ASSUME NEW v \in Workers, "db" \notin Faults, gor[v] = "removing",
               ctxErr[v] = "deadline", task[v] # NoTask
        PROVE  status'[task[v]] # "running"
    <3>1. task[v] \in Tasks
      BY <2>4
    <3>2. status[task[v]] \notin {"absent", "scheduled", "running"}
      BY <2>4 DEF CleanupComplete, ClaimsSound, GoroutinesSound
    <3> QED BY <2>1, <3>1, <3>2 DEF Forward
  <2>5. CleanupComplete'
    BY <2>3, <2>4 DEF CleanupComplete
  <2> QED BY <2>2, <2>5
<1>10. CASE UNCHANGED vars
  BY <1>1, <1>10 DEF vars, poolVars
<1>11. CASE SupervisorDies \/ Restart
  BY <1>11 DEF SupervisorDies, Restart, Forget, phpVars, GoroutinesSound, CleanupComplete
<1>12. ASSUME NEW w \in Workers, OrphanGone(w)
       PROVE  GoroutinesSound' /\ CleanupComplete'
  BY <1>12 DEF OrphanGone, FreeSlot, tableVars, GoroutinesSound, CleanupComplete
<1>13. ASSUME NEW w \in Workers, OrphanSignalled(w)
       PROVE  GoroutinesSound' /\ CleanupComplete'
  <2>1. /\ gor[w] = "lost" /\ UNCHANGED <<gor, ctxErr, status>>
        /\ \A v \in Workers \ {w} : proc'[v] = proc[v] /\ task'[v] = task[v]
    BY <1>13 DEF OrphanSignalled, SigTerm, SigKill, Exit, Die, poolVars, tableVars
  <2> QED BY <2>1 DEF GoroutinesSound, CleanupComplete
<1> QED BY <1>3, <1>4, <1>5, <1>6, <1>7, <1>8, <1>9, <1>10, <1>11, <1>12, <1>13
        DEF PoolNext, PoolStep, ScaleUp, Orphans, Client

-----------------------------------------------------------------------------
(* The registry: the lock, Reconcile, Shutdown.                             *)

RegistryInv ==
    RegistryIsLive /\ ReconcileSound /\ ShutdownSound /\ ShutdownAwaitsRegistered

\* While the lock is free, Reconcile has left no trace.
LEMMA NotScaling ==
    ASSUME PoolTypeOK, ReconcileSound, ~Scaling
    PROVE  turn = NoType /\ launched = NoWorker
BY DEF PoolTypeOK, ReconcileSound, Scaling

\* Steps that leave the registry alone and end no goroutine.
LEMMA RegistryKept ==
    ASSUME PoolIInv, UNCHANGED <<workers, reconcileVars, shutdown, awaited, wtype>>,
           \A w \in Workers : HasGoroutine(w) => gor'[w] \notin {"none", "lost"}
    PROVE  RegistryIsLive' /\ ShutdownSound' /\ ShutdownAwaitsRegistered'
<1> USE DEF reconcileVars
<1>1. RegistryIsLive'
  <2>1. RegistryIsLive /\ \A ty \in TaskTypes : workers[ty] \in Seq(Workers)
    BY DEF PoolIInv, PoolInv, PoolTypeOK
  <2>2. \A ty \in TaskTypes : ToSet(workers[ty]) \subseteq Workers
    BY ONLY <2>1 DEF ToSet
  <2> QED BY <2>1, <2>2 DEF RegistryIsLive, Registered
<1>2. Scaling' = Scaling
  BY DEF Scaling
<1>3. RegisteredWorkers' = RegisteredWorkers
  BY DEF RegisteredWorkers, Registered
<1>4. \A ty \in TaskTypes : Registered(ty)' = Registered(ty)
  BY DEF Registered
<1> QED BY <1>1, <1>2, <1>3, <1>4 DEF PoolIInv, ShutdownSound, ShutdownAwaitsRegistered

\* A step that leaves the map alone and ends no goroutine keeps the map exact.
LEMMA RegistryUntouched ==
    ASSUME PoolIInv, UNCHANGED <<workers, unworkable, reconcileVars, shutdown, awaited, wtype>>,
           \A w \in Workers : HasGoroutine(w) => gor'[w] \notin {"none", "lost"}
    PROVE  RegistryInv'
<1>1. ReconcileSound'
  BY DEF PoolIInv, PoolInv, PoolTypeOK, reconcileVars, Registered, ToSet, ReconcileSound
<1> QED BY <1>1, RegistryKept DEF RegistryInv

\* Scaling down keeps the map exact,
LEMMA ReconcileRegistry ==
    ASSUME PoolIInv, NEW desired \in [TaskTypes -> Nat], ReconcileBegin(desired)
    PROVE  RegistryInv'
<1> USE DEF PoolIInv, PoolInv
<1>1. /\ turn' = NoType /\ launched' = NoWorker /\ shutdown' = "no"
      /\ UNCHANGED <<gor, wtype, unworkable>>
  BY NotScaling DEF ReconcileBegin, Idle, shutdownVars, phpVars
<1>2. ASSUME NEW ty \in TaskTypes
      PROVE  ToSet(workers'[ty]) \subseteq ToSet(workers[ty]) /\ IsInjective(workers'[ty])
  <2>1. workers[ty] \in Seq(Workers) /\ IsInjective(workers[ty])
    BY DEF PoolTypeOK, RegistryIsLive
  <2>2. CASE Len(workers[ty]) > desired[ty]
    <3>1. workers'[ty] = SubSeq(workers[ty], 1, desired[ty])
      BY <2>2 DEF ReconcileBegin
    <3>2. desired[ty] \in Nat /\ desired[ty] <= Len(workers[ty])
      BY <2>1, <2>2
    <3> QED BY ONLY <2>1, <3>1, <3>2, PrefixOfRegistry
  <2>3. CASE ~(Len(workers[ty]) > desired[ty])
    BY <2>1, <2>3 DEF ReconcileBegin
  <2> QED BY <2>2, <2>3
<1>3. RegistryIsLive'
  BY <1>1, <1>2 DEF RegistryIsLive, Registered
<1>4. ReconcileSound'
  BY <1>1 DEF ReconcileSound, ReconcileBegin, Lacking
<1> QED BY <1>1, <1>3, <1>4 DEF RegistryInv, ShutdownSound, ShutdownAwaitsRegistered

\* so does the start of a goroutine,
LEMMA StartRegistry ==
    ASSUME PoolIInv, NEW ty \in TaskTypes, NEW w \in Workers, StartWorker(ty, w)
    PROVE  RegistryInv'
<1> USE DEF PoolIInv, PoolInv
<1>1. /\ turn' = ty /\ launched' = w /\ deficit[ty] > 0
      /\ gor'[w] = "starting" /\ wtype'[w] = ty
      /\ \A v \in Workers \ {w} : gor'[v] = gor[v] /\ wtype'[v] = wtype[v]
      /\ UNCHANGED <<workers, deficit, unworkable, shutdown, awaited>>
  BY DEF StartWorker, PoolTypeOK, PhpInv, PhpTypeOK, shutdownVars
<1>2. \A u \in TaskTypes : w \notin Registered(u) /\ Registered(u) \subseteq Workers
  BY DEF StartWorker, RegistryIsLive, PoolTypeOK, Registered, ToSet
<1>3. RegistryIsLive'
  BY <1>1, <1>2 DEF RegistryIsLive, Registered
<1>4. ReconcileSound'
  BY <1>1, <1>2 DEF ReconcileSound, Registered
<1>5. shutdown' = "no"
  BY <1>1 DEF StartWorker, Up, ShutdownSound, Scaling, PoolTypeOK
<1> QED BY <1>3, <1>4, <1>5 DEF RegistryInv, ShutdownSound, ShutdownAwaitsRegistered

\* its registration,
LEMMA AppendRegistry ==
    ASSUME PoolIInv, AppendWorker
    PROVE  RegistryInv'
<1> USE DEF PoolIInv, PoolInv
<1>1. /\ turn \in TaskTypes /\ launched \in Workers /\ deficit[turn] \in Nat \ {0}
      /\ HasGoroutine(launched) /\ wtype[launched] = turn
      /\ launched \notin ToSet(workers[turn])
  <2>1. launched \in Workers /\ turn \in TaskTypes /\ deficit[turn] \in Nat \ {0}
    BY DEF AppendWorker, ReconcileSound, PoolTypeOK
  <2> QED BY <2>1 DEF AppendWorker, ReconcileSound, Registered
<1>2. /\ launched' = NoWorker /\ UNCHANGED <<gor, wtype, unworkable, shutdown, awaited>>
      /\ workers'[turn] = Append(workers[turn], launched)
      /\ \A ty \in TaskTypes \ {turn} : workers'[ty] = workers[ty]
  BY <1>1 DEF AppendWorker, PoolTypeOK, shutdownVars, phpVars
<1>3. /\ ToSet(workers'[turn]) = ToSet(workers[turn]) \cup {launched}
      /\ IsInjective(workers'[turn])
  <2>1. workers[turn] \in Seq(Workers) /\ IsInjective(workers[turn])
    BY <1>1 DEF PoolTypeOK, RegistryIsLive
  <2> QED BY <1>1, <1>2, <2>1, AppendToRegistry
<1>4. RegistryIsLive'
  <2>1. ASSUME NEW ty \in TaskTypes
        PROVE  IsInjective(workers'[ty]) /\ \A w \in ToSet(workers'[ty]) :
                                               gor'[w] \notin {"none", "lost"} /\ wtype'[w] = ty
    <3>1. CASE ty = turn
      BY <1>1, <1>2, <1>3, <3>1 DEF RegistryIsLive, Registered
    <3>2. CASE ty # turn
      BY <1>2, <3>2 DEF RegistryIsLive, Registered
    <3> QED BY <3>1, <3>2
  <2> QED BY <2>1 DEF RegistryIsLive, Registered
<1>5. ReconcileSound'
  <2>1. \A ty \in TaskTypes : deficit'[ty] > 0 => deficit[ty] > 0
    BY <1>1 DEF AppendWorker, PoolTypeOK
  <2>2. turn' # NoType => deficit'[turn'] > 0
    BY <1>1 DEF AppendWorker, PoolTypeOK
  <2> QED BY <1>2, <2>1, <2>2 DEF ReconcileSound
<1>6. shutdown' = "no"
  BY <1>1, <1>2 DEF AppendWorker, Up, ShutdownSound, Scaling, PoolTypeOK
<1> QED BY <1>4, <1>5, <1>6 DEF RegistryInv, ShutdownSound, ShutdownAwaitsRegistered

\* and its end.
LEMMA RemoveRegistry ==
    ASSUME PoolIInv, NEW w \in Workers, RemoveWorker(w)
    PROVE  RegistryInv'
<1> USE DEF PoolIInv, PoolInv
<1> DEFINE ty == wtype[w]
<1>1. ty \in TaskTypes /\ workers[ty] \in Seq(Workers) /\ IsInjective(workers[ty])
  BY DEF PhpInv, PhpTypeOK, PoolTypeOK, RegistryIsLive
<1>2. /\ workers'[ty] = Without(workers[ty], w)
      /\ \A u \in TaskTypes \ {ty} : workers'[u] = workers[u]
      /\ \A v \in Workers \ {w} : gor'[v] = gor[v] /\ wtype'[v] = wtype[v]
      /\ UNCHANGED <<deficit, turn, launched, unworkable, shutdown, awaited>>
  BY <1>1 DEF RemoveWorker, FreeSlot, PoolTypeOK, PhpInv, PhpTypeOK, reconcileVars,
              shutdownVars
<1> HIDE DEF ty
<1>3. /\ ToSet(workers'[ty]) \subseteq ToSet(workers[ty])
      /\ IsInjective(workers'[ty]) /\ w \notin ToSet(workers'[ty])
  BY <1>1, <1>2, WithoutWorker
<1>4. \A u \in TaskTypes :
        /\ ToSet(workers'[u]) \subseteq ToSet(workers[u])
        /\ IsInjective(workers'[u]) /\ w \notin ToSet(workers'[u])
        /\ ToSet(workers[u]) \subseteq Workers
  <2> SUFFICES ASSUME NEW u \in TaskTypes
               PROVE  /\ ToSet(workers'[u]) \subseteq ToSet(workers[u])
                      /\ IsInjective(workers'[u]) /\ w \notin ToSet(workers'[u])
                      /\ ToSet(workers[u]) \subseteq Workers
    OBVIOUS
  <2>1. ToSet(workers[u]) \subseteq Workers
    <3>1. workers[u] \in Seq(Workers)
      BY DEF PoolTypeOK
    <3> QED BY ONLY <3>1 DEF ToSet
  <2>2. CASE u = ty
    BY <1>3, <2>1, <2>2
  <2>3. CASE u # ty
    BY <1>2, <2>1, <2>3 DEF RegistryIsLive, Registered, ty
  <2> QED BY <2>2, <2>3
<1>5. RegistryIsLive'
  <2>1. ASSUME NEW u \in TaskTypes, NEW v \in ToSet(workers'[u])
        PROVE  gor'[v] \notin {"none", "lost"} /\ wtype'[v] = u
    <3>1. v \in ToSet(workers[u]) /\ v \in Workers \ {w}
      BY <1>4, <2>1
    <3> QED BY <1>2, <3>1 DEF RegistryIsLive, Registered
  <2> QED BY <1>4, <2>1 DEF RegistryIsLive, Registered
<1>6. turn' = NoType /\ launched' = NoWorker /\ shutdown' # "done"
  BY <1>2, NotScaling DEF RemoveWorker, LockFree, Up
<1>7. ReconcileSound' /\ ShutdownSound'
  BY <1>2, <1>4, <1>6 DEF ReconcileSound, ShutdownSound, Scaling, Registered
<1> QED BY <1>5, <1>6, <1>7 DEF RegistryInv, ShutdownAwaitsRegistered

\* A worker without a goroutine is not registered, so its end changes nothing.
LEMMA OrphanGoneRegistry ==
    ASSUME PoolIInv, NEW w \in Workers, OrphanGone(w)
    PROVE  RegistryInv'
<1> USE DEF PoolIInv, PoolInv
<1>1. /\ ~HasGoroutine(w) /\ UNCHANGED <<workers, deficit, turn, launched, unworkable,
                                         shutdown, awaited>>
      /\ \A v \in Workers \ {w} : gor'[v] = gor[v] /\ wtype'[v] = wtype[v]
  BY DEF OrphanGone, FreeSlot, PoolTypeOK, PhpInv, PhpTypeOK,
         reconcileVars, shutdownVars
<1>2. \A ty \in TaskTypes : w \notin Registered(ty) /\ Registered(ty) \subseteq Workers
  BY <1>1 DEF RegistryIsLive, PoolTypeOK, Registered, ToSet
<1>3. RegistryIsLive'
  BY <1>1, <1>2 DEF RegistryIsLive, Registered
<1>4. ReconcileSound'
  BY <1>1 DEF ReconcileSound, Registered, PoolTypeOK
<1>5. ShutdownSound' /\ ShutdownAwaitsRegistered'
  BY <1>1 DEF ShutdownSound, ShutdownAwaitsRegistered, Scaling, Registered,
              RegisteredWorkers
<1> QED BY <1>3, <1>4, <1>5 DEF RegistryInv

\* So every step keeps the map exact.
LEMMA PoolStepRegistry ==
    ASSUME PoolIInv, [PoolNext]_vars
    PROVE  RegistryInv'
<1> USE DEF reconcileVars, shutdownVars, poolVars
<1>1. ASSUME NEW w \in Workers, Goroutine(w) PROVE RegistryInv'
  <2>1. CASE Spawn(w) \/ SpawnFail(w) \/ Reap(w) \/ FailOrphanedTasks(w)
    <3>1. AfterRun(w) \notin {"none", "lost"} /\ gor \in [Workers -> GorStates]
      BY AfterRunIsPlace DEF PoolIInv, PoolInv, PoolTypeOK
    <3> QED BY <2>1, <3>1, RegistryUntouched
            DEF Spawn, SpawnFail, Reap, FailOrphanedTasks, GoroutineTo, Fork, phpVars
  <2>2. CASE Deadline(w) \/ Terminate(w) \/ Escalate(w)
    <3>1. UNCHANGED <<workers, unworkable, reconcileVars, shutdown, awaited, wtype, gor>>
      BY <2>2 DEF Deadline, Terminate, Escalate, SigTerm, SigKill, Exit, Die, phpVars
    <3> QED BY <3>1, RegistryUntouched
  <2>3. CASE MarkUnworkable(w)
    <3>1. ReconcileSound'
      BY <2>3, NotScaling
         DEF PoolIInv, PoolInv, PoolTypeOK, MarkUnworkable, LockFree, ReconcileSound, Scaling
    <3>2. /\ UNCHANGED <<workers, reconcileVars, shutdown, awaited, wtype>>
          /\ \A v \in Workers : HasGoroutine(v) => gor'[v] \notin {"none", "lost"}
      BY <2>3 DEF MarkUnworkable, phpVars, PoolIInv, PoolInv, PoolTypeOK
    <3> QED BY <3>1, <3>2, RegistryKept DEF RegistryInv
  <2>4. CASE RemoveWorker(w)
    BY <2>4, RemoveRegistry
  <2> QED BY <1>1, <2>1, <2>2, <2>3, <2>4 DEF Goroutine, GoroutineRuns, GoroutineLocks
<1>2. ASSUME NEW w \in Workers, PhpStep(w), UNCHANGED poolVars PROVE RegistryInv'
  <2>1. UNCHANGED wtype
    BY <1>2, PhpStepEffect DEF PoolIInv, PoolInv, Effect
  <2> QED BY <1>2, <2>1, RegistryUntouched
<1>3. ASSUME NEW ty \in TaskTypes, NEW w \in Workers, StartWorker(ty, w)
      PROVE  RegistryInv'
  BY <1>3, StartRegistry
<1>4. CASE AppendWorker
  BY <1>4, AppendRegistry
<1>5. CASE ShutdownBegin
  <2>1. /\ UNCHANGED <<workers, unworkable, deficit, turn, launched, gor, wtype>>
        /\ shutdown' = "waiting" /\ awaited' = RegisteredWorkers /\ ~Scaling
    BY <1>5 DEF ShutdownBegin, Idle, phpVars
  <2>2. RegistryIsLive' /\ ReconcileSound'
    BY <2>1 DEF PoolIInv, PoolInv, RegistryIsLive, ReconcileSound, Registered
  <2>3. ShutdownSound' /\ ShutdownAwaitsRegistered'
    BY <2>1 DEF ShutdownSound, ShutdownAwaitsRegistered, Scaling, Registered,
                RegisteredWorkers
  <2> QED BY <2>2, <2>3 DEF RegistryInv
<1>6. CASE ShutdownEnd
  <2>1. /\ UNCHANGED <<workers, unworkable, deficit, turn, launched, gor, wtype>>
        /\ shutdown = "waiting" /\ shutdown' = "done"
    BY <1>6 DEF ShutdownEnd, phpVars
  <2>2. RegistryIsLive' /\ ReconcileSound'
    BY <2>1 DEF PoolIInv, PoolInv, RegistryIsLive, ReconcileSound, Registered
  <2>3. \A ty \in TaskTypes : Registered(ty) = {}
    BY <1>6 DEF ShutdownEnd, AllDone, PoolIInv, ShutdownSound, RegistryIsLive
  <2>4. ShutdownSound' /\ ShutdownAwaitsRegistered'
    BY <2>1, <2>3 DEF PoolIInv, ShutdownSound, ShutdownAwaitsRegistered, Scaling,
                      Registered, RegisteredWorkers
  <2> QED BY <2>2, <2>4 DEF RegistryInv
<1>7. CASE TableStep /\ UNCHANGED <<phpVars, poolVars>>
  BY <1>7, RegistryUntouched DEF phpVars
<1>8. ASSUME NEW desired \in [TaskTypes -> 0 .. MaxDesired], ReconcileBegin(desired)
      PROVE  RegistryInv'
  BY <1>8, ReconcileRegistry
<1>9. CASE ResetUnworkable
  <2>1. /\ UNCHANGED <<workers, deficit, turn, launched, gor, wtype, shutdown, awaited>>
        /\ unworkable' = {}
    BY <1>9 DEF ResetUnworkable, phpVars
  <2> QED BY <2>1 DEF PoolIInv, RegistryInv, RegistryIsLive, ReconcileSound, ShutdownSound,
                      ShutdownAwaitsRegistered, Scaling, Registered, RegisteredWorkers
<1>10. CASE CancelParent \/ UNCHANGED vars
  BY <1>10, RegistryUntouched DEF CancelParent, vars, phpVars
<1>12. CASE SupervisorDies \/ Restart
  <2>1. /\ workers' = [ty \in TaskTypes |-> <<>>] /\ deficit' = [ty \in TaskTypes |-> 0]
        /\ turn' = NoType /\ launched' = NoWorker /\ shutdown' \in {"no", "died"}
    BY <1>12 DEF SupervisorDies, Restart, Forget
  <2>2. RegistryIsLive'
    BY <2>1 DEF RegistryIsLive, Registered, ToSet, IsInjective
  <2>3. ReconcileSound' /\ ShutdownSound' /\ ShutdownAwaitsRegistered'
    BY <2>1 DEF ReconcileSound, ShutdownSound, ShutdownAwaitsRegistered
  <2> QED BY <2>2, <2>3 DEF RegistryInv
<1>13. ASSUME NEW w \in Workers, OrphanGone(w) PROVE RegistryInv'
  BY <1>13, OrphanGoneRegistry
<1>14. ASSUME NEW w \in Workers, OrphanSignalled(w) PROVE RegistryInv'
  <2>1. UNCHANGED <<workers, unworkable, reconcileVars, shutdown, awaited, wtype, gor>>
    BY <1>14 DEF OrphanSignalled, SigTerm, SigKill, Exit, Die, phpVars
  <2> QED BY <2>1, RegistryUntouched
<1> QED BY <1>1, <1>2, <1>3, <1>4, <1>5, <1>6, <1>7, <1>8, <1>9, <1>10, <1>12, <1>13,
           <1>14
        DEF PoolNext, PoolStep, ScaleUp, Orphans, Client

-----------------------------------------------------------------------------
(* The inductive invariant, and what follows from it.                       *)

\* At first there is no goroutine and no worker is registered.
LEMMA PoolInitInv ==
    ASSUME PoolInit
    PROVE  PoolIInv
<1> USE AnyTypeIsType DEF PoolInit, InitTable, InitPool, InitPhp
<1>1. PoolInv
  <2>1. TableTypeOK
    BY DEF TableTypeOK, Statuses
  <2>2. PhpTypeOK
    BY DEF PhpTypeOK, ProcStates, Exits
  <2>3. PoolTypeOK
    <3>1. workers \in [TaskTypes -> Seq(Workers)]
      OBVIOUS
    <3> QED BY <3>1 DEF PoolTypeOK, GorStates
  <2> QED BY <2>1, <2>2, <2>3 DEF PoolInv, PhpInv
<1>2. ClaimsSound /\ OneOwner /\ SnapshotsSound /\ OwnTaskNotExcluded
  BY DEF ClaimsSound, OneOwner, SnapshotsSound, OwnTaskNotExcluded
<1>3. GoroutinesSound /\ CleanupComplete
  BY DEF GoroutinesSound, CleanupComplete
<1>4. RegistryIsLive /\ ReconcileSound
  BY DEF RegistryIsLive, ReconcileSound, Registered, ToSet, IsInjective
<1>5. ShutdownSound /\ ShutdownAwaitsRegistered
  BY DEF ShutdownSound, ShutdownAwaitsRegistered
<1> QED BY <1>1, <1>2, <1>3, <1>4, <1>5 DEF PoolIInv

\* All of it together.
LEMMA PoolStepInv ==
    ASSUME PoolIInv, [PoolNext]_vars
    PROVE  PoolIInv'
BY PoolStepTypes, PoolStepClaims, PoolStepGoroutines, PoolStepRegistry
   DEF PoolIInv, ClaimInv, Owners, RegistryInv

\* The strengthening of all the safety properties is an invariant of the pool.
THEOREM PoolInductive == PoolSpec => []PoolIInv
<1>1. PoolInit => PoolIInv
  BY PoolInitInv
<1>2. PoolIInv /\ [PoolNext]_vars => PoolIInv'
  BY PoolStepInv
<1> QED BY <1>1, <1>2, PTL DEF PoolSpec

\* Every variable of the table, of the processes and of the pool keeps its type.
THEOREM TypeCorrect == PoolSpec => []PoolInv
<1>1. PoolIInv => PoolInv
  BY DEF PoolIInv
<1> QED BY <1>1, PoolInductive, PTL

\* Run.php:36-37, 196-199: no two live workers ever process the same task, on
\* either claim path, whatever is scheduled, cancelled, failed or killed meanwhile.
THEOREM MutualExclusion == PoolSpec => []NoDoubleProcessing
<1>1. PoolIInv => NoDoubleProcessing
  BY OwnersExclude DEF PoolIInv
<1> QED BY <1>1, PoolInductive, PTL

\* pool.go:200-203: the snapshot taken before a worker starts never holds the
\* worker's own task.
THEOREM SnapshotSafe == PoolSpec => []OwnTaskNotExcluded
<1>1. PoolIInv => OwnTaskNotExcluded
  BY DEF PoolIInv
<1> QED BY <1>1, PoolInductive, PTL

\* pool.go:235-241: the cleanup after a hard timeout reaches the task the worker
\* was killed with.
THEOREM CleanupReachesTask == PoolSpec => []CleanupComplete
<1>1. PoolIInv => CleanupComplete
  BY DEF PoolIInv
<1> QED BY <1>1, PoolInductive, PTL

\* pool.go:158-165, 321-334: p.workers holds no worker that has ended and none
\* twice.
THEOREM RegistryCorrect == PoolSpec => []RegistryIsLive
<1>1. PoolIInv => RegistryIsLive
  BY DEF PoolIInv
<1> QED BY <1>1, PoolInductive, PTL

\* pool.go:337-351: Shutdown returns only when no registered worker is left.
THEOREM ShutdownCorrect == PoolSpec => []ShutdownAwaitsRegistered
<1>1. PoolIInv => ShutdownAwaitsRegistered
  BY DEF PoolIInv
<1> QED BY <1>1, PoolInductive, PTL

-----------------------------------------------------------------------------
\* A goroutine comes to life in startWorker only.
LEMMA OnlyStartWorkerStarts ==
    ASSUME PoolIInv, [PoolNext]_vars, NEW w \in Workers,
           gor[w] = "none", gor'[w] = "starting"
    PROVE  \E ty \in TaskTypes : StartWorker(ty, w)
<1> USE DEF PoolIInv, PoolInv, PoolTypeOK
<1>1. ASSUME UNCHANGED gor PROVE FALSE
  BY <1>1
<1>2. ASSUME NEW v \in Workers, gor[v] # "none",
             \A u \in Workers \ {v} : gor'[u] = gor[u]
      PROVE  FALSE
  BY <1>2
<1>3. ASSUME NEW v \in Workers, Goroutine(v) PROVE FALSE
  <2>1. gor[v] # "none" /\ \A u \in Workers \ {v} : gor'[u] = gor[u]
    BY <1>3 DEF Goroutine, GoroutineRuns, GoroutineLocks, Spawn, SpawnFail, Terminate,
                Escalate, Reap, FailOrphanedTasks, Deadline, MarkUnworkable,
                RemoveWorker, FreeSlot, GoroutineTo, poolVars
  <2> QED BY <1>2, <2>1
<1>4. ASSUME NEW ty \in TaskTypes, NEW v \in Workers, StartWorker(ty, v)
      PROVE  v = w
  BY <1>4 DEF StartWorker
<1>5. ASSUME \/ AppendWorker \/ ShutdownBegin \/ ShutdownEnd
             \/ (Client /\ ~SupervisorDies /\ ~Restart)
             \/ UNCHANGED poolVars \/ UNCHANGED vars
      PROVE  FALSE
  BY <1>1, <1>5 DEF AppendWorker, ShutdownBegin, ShutdownEnd, Client, ReconcileBegin,
                    ResetUnworkable, CancelParent, poolVars, vars
<1>6. ASSUME SupervisorDies \/ Restart PROVE FALSE
  BY <1>6 DEF SupervisorDies, Restart, Forget
<1>7. ASSUME NEW v \in Workers, OrphanGone(v) \/ OrphanSignalled(v) PROVE FALSE
  <2>1. gor[v] # "none" /\ \A u \in Workers \ {v} : gor'[u] = gor[u]
    BY <1>7 DEF OrphanGone, FreeSlot, OrphanSignalled, poolVars
  <2> QED BY <1>2, <2>1
<1> QED BY <1>3, <1>4, <1>5, <1>6, <1>7 DEF PoolNext, PoolStep, ScaleUp, Orphans, Client

\* pool.go:159-162, 272-276: no worker is started for a type known to have no
\* provider, also when a goroutine is about to mark one.
THEOREM UnworkableStaysStopped == PoolSpec => UnworkableNotStarted
<1>1. ASSUME PoolIInv, [PoolNext]_vars
      PROVE  [\A w \in Workers :
                gor[w] = "none" /\ gor'[w] = "starting" => wtype'[w] \notin unworkable]_vars
  <2> SUFFICES ASSUME NEW w \in Workers, gor[w] = "none", gor'[w] = "starting"
               PROVE  wtype'[w] \notin unworkable
    OBVIOUS
  <2>1. PICK ty \in TaskTypes : StartWorker(ty, w)
    BY <1>1, OnlyStartWorkerStarts
  <2>2. wtype'[w] = ty /\ deficit[ty] > 0
    BY <1>1, <2>1 DEF StartWorker, PoolIInv, PoolInv, PhpInv, PhpTypeOK
  <2> QED BY <1>1, <2>2 DEF PoolIInv, ReconcileSound
<1> QED BY <1>1, PoolInductive, PTL DEF PoolSpec, UnworkableNotStarted
=============================================================================
