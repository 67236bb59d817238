-------------------------- MODULE SupervisorProofs --------------------------
(***************************************************************************)
(* Proofs about the control loop and the pool together, for any number of  *)
(* tasks, task types and workers, any configurations and every set of      *)
(* faults: the loop uses the pool as WorkerPool assumes, and scales it up  *)
(* within the maximum in force.                                            *)
(***************************************************************************)
EXTENDS Supervisor, WorkerPoolProofs, Sums

USE ConfigAssumption

SP == INSTANCE SchedulerProofs

-----------------------------------------------------------------------------
(* What the control loop takes from the scheduler.                          *)

\* The two instances of the scheduler count alike.
LEMMA SameCounts ==
    ASSUME NEW f, NEW S
    PROVE  /\ SP!SumFunction(f) = Sched!SumFunction(f)
           /\ SP!SumFunction(f) = SumFunction(f)
           /\ SP!Cardinality(S) = Sched!Cardinality(S)
           /\ SP!IsFiniteSet(S) <=> IsFiniteSet(S)
<1>1. SP!SumFunction(f) = Sched!SumFunction(f)
  BY DEF SP!SumFunction, Sched!SumFunction, SP!SumFunctionOnSet, Sched!SumFunctionOnSet,
         SP!FoldFunctionOnSet, Sched!FoldFunctionOnSet, SP!MapThenFoldSet, Sched!MapThenFoldSet
<1>2. SP!SumFunction(f) = SumFunction(f)
  BY DEF SP!SumFunction, SumFunction, SP!SumFunctionOnSet, SumFunctionOnSet,
         SP!FoldFunctionOnSet, FoldFunctionOnSet, SP!MapThenFoldSet, MapThenFoldSet
<1>3. SP!Cardinality(S) = Sched!Cardinality(S)
  BY DEF SP!Cardinality, Sched!Cardinality
<1>4. SP!IsFiniteSet(S) <=> IsFiniteSet(S)
  BY DEF SP!IsFiniteSet, IsFiniteSet
<1> QED BY <1>1, <1>2, <1>3, <1>4

\* The order, the shares and the remainders are alike in both.
LEMMA SameOrder ==
    ASSUME NEW work, NEW weight, NEW r, NEW s, NEW ty
    PROVE  /\ SP!Precedes(work, s, ty) <=> Sched!Precedes(work, s, ty)
           /\ SP!WholeShare(weight, r, ty) = Sched!WholeShare(weight, r, ty)
           /\ SP!Outranks(weight, r, s, ty) <=> Sched!Outranks(weight, r, s, ty)
<1>1. SP!Precedes(work, s, ty) <=> Sched!Precedes(work, s, ty)
  BY DEF SP!Precedes, Sched!Precedes
<1>2. SP!WholeShare(weight, r, ty) = Sched!WholeShare(weight, r, ty)
  BY SameCounts DEF SP!WholeShare, Sched!WholeShare
<1>3. \A t : SP!Remainder(weight, r, t) = Sched!Remainder(weight, r, t)
  BY SameCounts DEF SP!Remainder, Sched!Remainder
<1>4. SP!Outranks(weight, r, s, ty) <=> Sched!Outranks(weight, r, s, ty)
  BY <1>3 DEF SP!Outranks, Sched!Outranks
<1> QED BY <1>1, <1>2, <1>4

\* So are the work, the target and the baseline,
LEMMA SameBaseline ==
    ASSUME NEW d, NEW work, NEW max, NEW target
    PROVE  /\ SP!WorkOf(d) = Sched!WorkOf(d)
           /\ SP!Target(work, max) = Sched!Target(work, max)
           /\ SP!Baseline(work, target) = Sched!Baseline(work, target)
<1>1. SP!WorkOf(d) = Sched!WorkOf(d)
  BY DEF SP!WorkOf, Sched!WorkOf, SP!Work, Sched!Work, SP!Least, Sched!Least
<1>2. SP!Target(work, max) = Sched!Target(work, max)
  BY SameCounts DEF SP!Target, Sched!Target, SP!Least, Sched!Least
<1>3. SP!Baseline(work, target) = Sched!Baseline(work, target)
  <2>1. \A ty : SP!Cardinality({s \in TaskTypes : SP!Precedes(work, s, ty)})
               = Sched!Cardinality({s \in TaskTypes : Sched!Precedes(work, s, ty)})
    BY SameCounts DEF SP!Precedes, Sched!Precedes
  <2> QED BY <2>1 DEF SP!Baseline, Sched!Baseline
<1> QED BY <1>1, <1>2, <1>3

\* the shares,
LEMMA SameShares ==
    ASSUME NEW weight, NEW r
    PROVE  SP!Shared(weight, r) = Sched!Shared(weight, r)
<1> DEFINE whole == [ty \in TaskTypes |-> SP!WholeShare(weight, r, ty)]
<1>1. whole = [ty \in TaskTypes |-> Sched!WholeShare(weight, r, ty)]
  BY SameOrder
<1>2. \A n : SP!LeftoverSets(weight, r, n) = Sched!LeftoverSets(weight, r, n)
  <2> SUFFICES ASSUME NEW n
               PROVE  SP!LeftoverSets(weight, r, n) = Sched!LeftoverSets(weight, r, n)
    OBVIOUS
  <2>1. \A S : SP!Cardinality(S) = Sched!Cardinality(S)
    BY SameCounts
  <2>2. \A s, ty : SP!Outranks(weight, r, s, ty) <=> Sched!Outranks(weight, r, s, ty)
    BY SameOrder
  <2> QED BY <2>1, <2>2 DEF SP!LeftoverSets, Sched!LeftoverSets
<1>3. /\ SP!SumFunction(weight) = Sched!SumFunction(weight)
      /\ SP!SumFunction(whole) = Sched!SumFunction(whole)
  BY SameCounts
<1>4. SP!Shared(weight, r) =
        IF r <= 0 \/ SP!SumFunction(weight) = 0 THEN {[ty \in TaskTypes |-> 0]}
        ELSE {[ty \in TaskTypes |-> whole[ty] + (IF ty \in S THEN 1 ELSE 0)] :
                 S \in SP!LeftoverSets(weight, r, r - SP!SumFunction(whole))}
  BY DEF SP!Shared
<1> HIDE DEF whole
<1>5. Sched!Shared(weight, r) =
        IF r <= 0 \/ Sched!SumFunction(weight) = 0 THEN {[ty \in TaskTypes |-> 0]}
        ELSE {[ty \in TaskTypes |-> whole[ty] + (IF ty \in S THEN 1 ELSE 0)] :
                 S \in Sched!LeftoverSets(weight, r, r - Sched!SumFunction(whole))}
  BY <1>1 DEF Sched!Shared
<1> QED BY <1>2, <1>3, <1>4, <1>5

\* and with them the plans.
LEMMA SamePlans ==
    ASSUME NEW d, NEW max
    PROVE  SP!Plans(d, max) = Sched!Plans(d, max)
<1> DEFINE work == SP!WorkOf(d)
           target == SP!Target(work, max)
           base == SP!Baseline(work, target)
           unmet == [ty \in TaskTypes |-> work[ty] - base[ty]]
           r == target - SP!SumFunction(base)
<1>1. work = Sched!WorkOf(d)
  BY SameBaseline
<1>2. target = Sched!Target(work, max)
  BY SameBaseline
<1>3. base = Sched!Baseline(work, target)
  BY SameBaseline
<1>4. r = target - Sched!SumFunction(base)
  BY SameCounts
<1>5. SP!Shared(unmet, r) = Sched!Shared(unmet, r)
  BY SameShares
<1>6. SP!Plans(d, max) = {[ty \in TaskTypes |-> base[ty] + extra[ty]] :
                             extra \in SP!Shared(unmet, r)}
  BY DEF SP!Plans
<1> HIDE DEF work, target, base, unmet, r
<1>7. Sched!Plans(d, max) = {[ty \in TaskTypes |-> base[ty] + extra[ty]] :
                                extra \in Sched!Shared(unmet, r)}
  BY <1>1, <1>2, <1>3, <1>4 DEF Sched!Plans, unmet
<1> QED BY <1>5, <1>6, <1>7

\* A plan is a count for each type, and the counts add up to no more than the maximum.
LEMMA PlanWithinMax ==
    ASSUME NEW d \in [TaskTypes -> [scheduled : Nat, running : Nat, workers : Nat]],
           NEW max \in Int, NEW plan \in Sched!Plans(d, max)
    PROVE  /\ plan \in [TaskTypes -> Nat]
           /\ SumFunction(plan) <= InForce(max)
           /\ \A ty \in TaskTypes : plan[ty] <= InForce(max)
<1>1. plan \in SP!Plans(d, max)
  BY SamePlans
<1>2. TaskTypes \subseteq Nat /\ IsFiniteSet(TaskTypes)
  BY TableAssumption
<1>3. plan \in SP!Weights /\ SP!SumFunction(plan) <= SP!Limit(max)
  <2>1. TaskTypes \subseteq Nat /\ SP!IsFiniteSet(TaskTypes)
    BY <1>2, SameCounts
  <2> QED BY ONLY <1>1, <2>1, SP!PlansAreGood, max \in Int,
            d \in [TaskTypes -> [scheduled : Nat, running : Nat, workers : Nat]]
<1>4. plan \in [TaskTypes -> Nat] /\ SumFunction(plan) <= InForce(max)
  BY <1>3, SameCounts DEF SP!Weights, SP!Limit, InForce
<1>5. \A ty \in TaskTypes : plan[ty] \in Nat
  BY <1>4
<1>6. /\ \A ty \in TaskTypes : plan[ty] <= SumFunctionOnSet(plan, TaskTypes)
      /\ SumFunctionOnSet(plan, TaskTypes) \in Nat
  BY <1>2, <1>5, SumBoundsTerm, SumNonnegative
<1>7. SumFunctionOnSet(plan, TaskTypes) = SumFunction(plan) /\ InForce(max) \in Int
  BY <1>4 DEF SumFunction, InForce
<1>8. \A ty \in TaskTypes : plan[ty] <= InForce(max)
  BY <1>4, <1>5, <1>6, <1>7
<1> QED BY <1>4, <1>8

-----------------------------------------------------------------------------
(* The control loop is a client of the pool.                                *)

\* It asks for counts within the bound the pool's client has.
LEMMA DesiredCounts ==
    ASSUME ControlIInv
    PROVE  /\ desired \in [TaskTypes -> 0 .. MaxDesired]
           /\ Zero \in [TaskTypes -> 0 .. MaxDesired]
<1>1. \A ty \in TaskTypes : desired[ty] \in 0 .. MaxDesired
  BY PoolAssumption DEF ControlIInv, MainTypeOK
<1>2. Zero \in [TaskTypes -> 0 .. MaxDesired]
  BY PoolAssumption DEF Zero
<1> QED BY <1>1, <1>2 DEF ControlIInv, MainTypeOK

\* What goes on without the control loop is what the pool does by itself.
LEMMA BackgroundIsPoolStep ==
    ASSUME Background
    PROVE  PoolNext
BY DEF Background, PoolNext, PoolStep, Client

\* A step of the control loop calls the pool the way its clients may, or leaves it
\* alone.
LEMMA ControlIsClient ==
    ASSUME ControlIInv, ControlLoop
    PROVE  PoolNext \/ UNCHANGED vars
<1>1. CASE RefreshConfig
  BY <1>1 DEF RefreshConfig, PoolNext, Client
<1>2. CASE PollDisabled \/ PollReconcile
  BY <1>2, DesiredCounts DEF PollDisabled, PollReconcile, PoolNext, Client
<1>3. CASE RefreshFails \/ PollQueue \/ PollRunning \/ PollFilter \/ PollCompute
  BY <1>3 DEF RefreshFails, PollQueue, PollRunning, PollFilter, PollCompute
<1>4. CASE Quit
  BY <1>4 DEF Quit, PoolNext, PoolStep
<1>5. CASE DieOrRestart
  BY <1>5 DEF DieOrRestart, PoolNext, Client
<1> QED BY <1>1, <1>2, <1>3, <1>4, <1>5 DEF ControlLoop, PollStep

\* So every step of the supervisor is one of the pool, or none.
LEMMA StepImplementsPool ==
    ASSUME ControlIInv, [SupNext]_allVars
    PROVE  [PoolNext]_vars
<1>1. CASE Background
  BY <1>1, BackgroundIsPoolStep
<1>2. CASE ControlLoop
  BY <1>2, ControlIsClient
<1>3. CASE SaveConfig
  BY <1>3 DEF SaveConfig
<1>4. CASE UNCHANGED allVars
  BY <1>4 DEF allVars
<1> QED BY <1>1, <1>2, <1>3, <1>4 DEF SupNext

-----------------------------------------------------------------------------
(* Types of the control loop, and the counts of its plan.                   *)

\* The counts of the queue are numbers of tasks.
LEMMA QueueStatsType ==
    QueueStats \in [TaskTypes -> [scheduled : Nat, running : Nat]]
<1>1. \A ty \in TaskTypes, st \in Statuses : Cardinality(RowsOf(ty, st)) \in Nat
  BY FS_Subset, FS_CardinalityType DEF RowsOf
<1> QED BY <1>1 DEF QueueStats, Statuses

\* A plan of the scheduler is within the maximum in force.
LEMMA PlanType ==
    ASSUME MainTypeOK, PollCompute
    PROVE  /\ desired' \in [TaskTypes -> Nat]
           /\ \A ty \in TaskTypes : desired'[ty] <= MaxDesired
           /\ SumFunction(desired') <= MaxInForce
<1>1. Demand \in [TaskTypes -> [scheduled : Nat, running : Nat, workers : Nat]]
  BY DEF Demand, MainTypeOK
<1>2. cfg \in Configs \cup {DefaultConfig}
  BY DEF MainTypeOK
<1>3. cfg.max \in Int /\ InForce(cfg.max) <= MaxDesired /\ InForce(cfg.max) \in Int
  BY <1>2 DEF DefaultConfig, InForce
<1>4. desired' \in Sched!Plans(Demand, cfg.max)
  BY DEF PollCompute
<1>5. /\ desired' \in [TaskTypes -> Nat] /\ SumFunction(desired') <= InForce(cfg.max)
      /\ \A ty \in TaskTypes : desired'[ty] <= InForce(cfg.max)
  BY <1>1, <1>3, <1>4, PlanWithinMax
<1>6. \A ty \in TaskTypes : desired'[ty] \in Nat
  BY <1>5
<1> QED BY <1>3, <1>5, <1>6, PoolAssumption DEF MaxInForce

\* The variables of the control loop keep their types.
LEMMA ControlTypes ==
    ASSUME PoolInv, ControlIInv, [SupNext]_allVars
    PROVE  MainTypeOK' /\ \A ty \in TaskTypes : desired'[ty] <= MaxDesired
<1> USE DEF ControlIInv, MainTypeOK, mainVars, pollVars
<1>1. CASE Background \/ PollDisabled \/ Quit \/ UNCHANGED allVars
  BY <1>1 DEF Background, PollDisabled, Quit, allVars
<1>2. CASE RefreshConfig \/ RefreshFails \/ SaveConfig
  BY <1>2 DEF RefreshConfig, RefreshFails, SaveConfig
<1>3. CASE PollQueue
  BY <1>3, QueueStatsType DEF PollQueue
<1>4. CASE PollRunning
  <2>1. \A ty \in TaskTypes : Len(workers[ty]) \in Nat
    BY DEF PoolInv, PoolTypeOK
  <2> QED BY <1>4, <2>1 DEF PollRunning
<1>5. CASE PollFilter
  BY <1>5 DEF PollFilter
<1>6. CASE PollCompute
  BY <1>6, PlanType DEF PollCompute, NoStats, Zero
<1>7. CASE PollReconcile \/ DieOrRestart
  BY <1>7, PoolAssumption DEF PollReconcile, DieOrRestart, NoStats, Zero
<1> QED BY <1>1, <1>2, <1>3, <1>4, <1>5, <1>6, <1>7 DEF SupNext, ControlLoop, PollStep

\* The maximum does not change between the plan and the reconciliation.
LEMMA PlanStays ==
    ASSUME ControlIInv, [SupNext]_allVars
    PROVE  PlanSound'
<1> USE DEF ControlIInv, PlanSound, MaxInForce, mainVars, pollVars
<1>1. CASE Background \/ PollDisabled \/ Quit \/ SaveConfig \/ UNCHANGED allVars
  BY <1>1 DEF Background, PollDisabled, Quit, SaveConfig, allVars
<1>2. CASE PollCompute
  BY <1>2, PlanType DEF PollCompute
<1>3. CASE \/ RefreshConfig \/ RefreshFails \/ PollQueue \/ PollRunning
           \/ PollReconcile \/ DieOrRestart
  BY <1>3 DEF RefreshConfig, RefreshFails, PollQueue, PollRunning, PollReconcile,
              DieOrRestart
<1>4. CASE PollFilter
  BY <1>4 DEF PollFilter
<1> QED BY <1>1, <1>2, <1>3, <1>4 DEF SupNext, ControlLoop, PollStep

-----------------------------------------------------------------------------
(* The size of the registry.                                                *)

\* The workers registered, and those that will be when Reconcile returns.
Registering == [ty \in TaskTypes |-> Len(workers[ty]) + deficit[ty]]
RegistrySize == [ty \in TaskTypes |-> Len(workers[ty])]

\* The steps that touch the registry, and the maximum then in force.
RegistryStep ==
    \/ UNCHANGED <<workers, deficit>> /\ (cfg' = cfg \/ ~Scaling)
    \/ /\ cfg' = cfg
       /\ \E d \in [TaskTypes -> Nat] : SumFunction(d) <= MaxInForce /\ ReconcileBegin(d)
    \/ cfg' = cfg /\ AppendWorker
    \/ cfg' = cfg /\ \E w \in Workers : RemoveWorker(w)
    \/ Forget

\* Without the control loop no worker is registered but one that was to be started.
LEMMA PoolStepIsRegistryStep ==
    ASSUME Background
    PROVE  RegistryStep
<1>1. cfg' = cfg
  BY DEF Background, mainVars
<1>2. ASSUME NEW w \in Workers, Goroutine(w) \/ OrphanGone(w) \/ OrphanSignalled(w)
      PROVE  UNCHANGED <<workers, deficit>> \/ RemoveWorker(w)
  BY <1>2 DEF Goroutine, GoroutineRuns, GoroutineLocks, Spawn, SpawnFail, Terminate,
              Escalate, Reap, FailOrphanedTasks, Deadline, MarkUnworkable, OrphanGone,
              OrphanSignalled, FreeSlot, GoroutineTo, poolVars, reconcileVars
<1>3. ASSUME NEW ty \in TaskTypes, NEW w \in Workers, StartWorker(ty, w)
      PROVE  UNCHANGED <<workers, deficit>>
  BY <1>3 DEF StartWorker
<1>4. CASE ShutdownEnd \/ CancelParent \/ UNCHANGED poolVars
  BY <1>1, <1>4 DEF ShutdownEnd, CancelParent, poolVars, reconcileVars, RegistryStep
<1> QED BY <1>1, <1>2, <1>3, <1>4 DEF Background, Orphans, ScaleUp, RegistryStep

\* Every step changes the registered and the outstanding workers in one of the few
\* ways.
LEMMA StepIsRegistryStep ==
    ASSUME ControlIInv, [SupNext]_allVars
    PROVE  RegistryStep
<1> USE DEF RegistryStep, mainVars, pollVars, vars, poolVars, reconcileVars
<1>1. CASE Background
  BY <1>1, PoolStepIsRegistryStep
<1>2. CASE RefreshConfig
  BY <1>2 DEF RefreshConfig, ResetUnworkable, Idle
<1>3. CASE \/ RefreshFails \/ PollQueue \/ PollRunning \/ PollFilter \/ PollCompute
           \/ SaveConfig \/ UNCHANGED allVars
  BY <1>3 DEF RefreshFails, PollQueue, PollRunning, PollFilter, PollCompute, SaveConfig,
              allVars
<1>4. CASE PollDisabled
  <2>1. SumFunction(Zero) = 0
    BY SumZero, TableAssumption DEF Zero, SumFunction
  <2>2. 0 <= MaxInForce
    BY DEF MaxInForce, InForce, ControlIInv, MainTypeOK, DefaultConfig
  <2>3. Zero \in [TaskTypes -> Nat]
    BY DEF Zero
  <2> QED BY <1>4, <2>1, <2>2, <2>3 DEF PollDisabled
<1>5. CASE PollReconcile
  BY <1>5 DEF PollReconcile, ControlIInv, PlanSound, MainTypeOK
<1>6. CASE Quit
  BY <1>6 DEF Quit, ShutdownBegin
<1>7. CASE DieOrRestart
  BY <1>7 DEF DieOrRestart, SupervisorDies, Restart
<1> QED BY <1>1, <1>2, <1>3, <1>4, <1>5, <1>6, <1>7 DEF SupNext, ControlLoop, PollStep

\* Sums of counts of workers.
LEMMA SumOfCounts ==
    ASSUME NEW f \in [TaskTypes -> Nat], NEW g \in [TaskTypes -> Nat],
           \A ty \in TaskTypes : f[ty] <= g[ty]
    PROVE  SumFunction(f) \in Nat /\ SumFunction(g) \in Nat
           /\ SumFunction(f) <= SumFunction(g)
<1>1. IsFiniteSet(TaskTypes) /\ IntegerOn(f, TaskTypes) /\ IntegerOn(g, TaskTypes)
  BY DEF IntegerOn
<1>2. (\A ty \in TaskTypes : f[ty] \in Nat) /\ (\A ty \in TaskTypes : g[ty] \in Nat)
  OBVIOUS
<1>3. /\ SumFunctionOnSet(f, TaskTypes) <= SumFunctionOnSet(g, TaskTypes)
      /\ SumFunctionOnSet(f, TaskTypes) \in Nat /\ SumFunctionOnSet(g, TaskTypes) \in Nat
  BY <1>1, <1>2, SumMonotone, SumNonnegative
<1>4. DOMAIN f = TaskTypes /\ DOMAIN g = TaskTypes
  OBVIOUS
<1> QED BY <1>3, <1>4 DEF SumFunction

\* Every step keeps the registered and the coming workers within the maximum, and no
\* step brings the registered ones above it.
LEMMA GrowthStep ==
    ASSUME PoolIInv, PoolTypeOK', ControlIInv, RegistryStep
    PROVE  /\ ScaleUpSound'
           /\ TotalRegistered' > TotalRegistered => TotalRegistered' <= MaxInForce
<1>1. \A ty \in TaskTypes :
         /\ workers[ty] \in Seq(Workers) /\ workers'[ty] \in Seq(Workers)
         /\ Len(workers[ty]) \in Nat /\ deficit[ty] \in Nat
         /\ Len(workers'[ty]) \in Nat /\ deficit'[ty] \in Nat
  BY DEF PoolIInv, PoolInv, PoolTypeOK
<1>2. /\ RegistrySize \in [TaskTypes -> Nat] /\ Registering \in [TaskTypes -> Nat]
      /\ RegistrySize' \in [TaskTypes -> Nat] /\ Registering' \in [TaskTypes -> Nat]
  BY <1>1 DEF RegistrySize, Registering
<1>3. /\ \A ty \in TaskTypes : /\ RegistrySize[ty] = Len(workers[ty])
                                /\ RegistrySize'[ty] = Len(workers'[ty])
                                /\ Registering[ty] = Len(workers[ty]) + deficit[ty]
                                /\ Registering'[ty] = Len(workers'[ty]) + deficit'[ty]
      /\ TotalRegistered = SumFunction(RegistrySize)
      /\ TotalRegistered' = SumFunction(RegistrySize')
  BY DEF RegistrySize, Registering, TotalRegistered
<1>4. /\ SumFunction(RegistrySize) \in Nat /\ SumFunction(RegistrySize') \in Nat
      /\ SumFunction(Registering) \in Nat /\ SumFunction(Registering') \in Nat
  BY <1>2, SumOfCounts
<1>5. MaxInForce \in Int
  BY DEF MaxInForce, InForce, ControlIInv, MainTypeOK, DefaultConfig
<1>6. /\ ScaleUpSound <=> (Scaling => SumFunction(Registering) <= MaxInForce)
      /\ ScaleUpSound' <=> (Scaling' => SumFunction(Registering') <= MaxInForce')
  BY DEF ScaleUpSound, Registering
<1>7. ScaleUpSound /\ (cfg' = cfg => MaxInForce' = MaxInForce)
  BY DEF ControlIInv, MaxInForce
<1>8. ASSUME \A ty \in TaskTypes : Len(workers'[ty]) <= Len(workers[ty])
      PROVE  ~(TotalRegistered' > TotalRegistered)
  <2>1. SumFunction(RegistrySize') <= SumFunction(RegistrySize)
    BY <1>2, <1>3, <1>8, SumOfCounts
  <2> QED BY <1>3, <1>4, <2>1
<1>9. CASE UNCHANGED <<workers, deficit>> /\ (cfg' = cfg \/ ~Scaling)
  <2>1. Scaling' = Scaling /\ Registering' = Registering
    BY <1>9 DEF Scaling, Registering
  <2> QED BY <1>1, <1>6, <1>7, <1>8, <1>9, <2>1
<1>10. ASSUME cfg' = cfg, NEW d \in [TaskTypes -> Nat], SumFunction(d) <= MaxInForce,
              ReconcileBegin(d)
       PROVE  ScaleUpSound' /\ ~(TotalRegistered' > TotalRegistered)
  <2>1. ASSUME NEW ty \in TaskTypes
        PROVE  /\ Len(workers'[ty]) <= Len(workers[ty])
               /\ Len(workers'[ty]) + deficit'[ty] <= d[ty]
    <3>1. d[ty] \in Nat
      OBVIOUS
    <3>2. /\ workers'[ty] = IF Len(workers[ty]) > d[ty] THEN SubSeq(workers[ty], 1, d[ty])
                            ELSE workers[ty]
          /\ deficit'[ty] = IF ty \in unworkable \/ Len(workers[ty]) >= d[ty] THEN 0
                            ELSE d[ty] - Len(workers[ty])
      BY <1>10 DEF ReconcileBegin, Lacking
    <3>3. CASE Len(workers[ty]) > d[ty]
      <4>1. Len(SubSeq(workers[ty], 1, d[ty])) = d[ty]
        BY <1>1, <3>1, <3>3
      <4> QED BY <1>1, <3>1, <3>2, <3>3, <4>1
    <3>4. CASE ~(Len(workers[ty]) > d[ty])
      BY <1>1, <3>1, <3>2, <3>4
    <3> QED BY <3>3, <3>4
  <2>2. SumFunction(Registering') <= SumFunction(d) /\ SumFunction(d) \in Nat
    BY <1>2, <1>3, <2>1, SumOfCounts
  <2>3. ScaleUpSound'
    BY <1>4, <1>5, <1>6, <1>7, <1>10, <2>2
  <2> QED BY <1>8, <2>1, <2>3
<1>11. ASSUME cfg' = cfg, AppendWorker
       PROVE  ScaleUpSound' /\ TotalRegistered' <= MaxInForce
  <2>1. turn \in TaskTypes /\ deficit[turn] > 0 /\ Scaling
    BY <1>11 DEF AppendWorker, PoolIInv, PoolInv, PoolTypeOK, ReconcileSound, Scaling
  <2>2. ASSUME NEW ty \in TaskTypes
        PROVE  Registering'[ty] = Registering[ty] /\ RegistrySize'[ty] <= Registering'[ty]
    <3>1. CASE ty = turn
      <4>1. /\ workers'[ty] = Append(workers[ty], launched)
            /\ deficit'[ty] = deficit[ty] - 1
        BY <1>11, <2>1, <3>1 DEF AppendWorker, PoolIInv, PoolInv, PoolTypeOK
      <4>2. Len(workers'[ty]) = Len(workers[ty]) + 1
        BY <1>1, <4>1
      <4>3. /\ RegistrySize'[ty] = Len(workers'[ty])
            /\ Registering[ty] = Len(workers[ty]) + deficit[ty]
            /\ Registering'[ty] = Len(workers'[ty]) + deficit'[ty]
            /\ Len(workers[ty]) \in Nat /\ deficit[ty] \in Nat /\ deficit[ty] > 0
        BY <1>1, <1>3, <2>1, <3>1
      <4> QED BY ONLY <4>1, <4>2, <4>3
    <3>2. CASE ty # turn
      <4>1. workers'[ty] = workers[ty] /\ deficit'[ty] = deficit[ty]
        BY <1>11, <3>2 DEF AppendWorker, PoolIInv, PoolInv, PoolTypeOK
      <4> QED BY <1>1, <1>3, <4>1
    <3> QED BY <3>1, <3>2
  <2>3. Registering' = Registering
    BY <1>2, <2>2
  <2>4. SumFunction(RegistrySize') <= SumFunction(Registering')
    BY <1>2, <2>2, SumOfCounts
  <2>5. SumFunction(Registering) <= MaxInForce
    BY <1>6, <1>7, <2>1
  <2> QED BY <1>3, <1>4, <1>5, <1>6, <1>7, <1>11, <2>3, <2>4, <2>5
<1>12. ASSUME cfg' = cfg, NEW w \in Workers, RemoveWorker(w)
       PROVE  ScaleUpSound' /\ ~(TotalRegistered' > TotalRegistered)
  <2>1. ~Scaling'
    BY <1>12 DEF RemoveWorker, LockFree, FreeSlot, reconcileVars, Scaling
  <2>2. ASSUME NEW ty \in TaskTypes PROVE Len(workers'[ty]) <= Len(workers[ty])
    <3>1. CASE ty = wtype[w]
      <4>1. workers'[ty] = Without(workers[ty], w)
        BY <1>12, <3>1 DEF RemoveWorker, PoolIInv, PoolInv, PoolTypeOK
      <4> QED BY <1>1, <4>1, WithoutWorker
    <3>2. CASE ty # wtype[w]
      <4>1. workers'[ty] = workers[ty]
        BY <1>12, <3>2 DEF RemoveWorker, PoolIInv, PoolInv, PoolTypeOK
      <4> QED BY <1>1, <4>1
    <3> QED BY <3>1, <3>2
  <2> QED BY <1>6, <1>8, <2>1, <2>2
<1>13. CASE Forget
  <2>1. ~Scaling' /\ \A ty \in TaskTypes : Len(workers'[ty]) = 0
    BY <1>13 DEF Forget, Scaling
  <2> QED BY <1>1, <1>6, <1>8, <2>1
<1> QED BY <1>9, <1>10, <1>11, <1>12, <1>13 DEF RegistryStep

-----------------------------------------------------------------------------
(* The inductive invariant, and the theorems.                               *)

\* At first no worker is registered and nothing is planned.
LEMMA SupInitInv == SupInit => SupIInv
<1> SUFFICES ASSUME SupInit PROVE SupIInv
  OBVIOUS
<1>1. PoolIInv
  BY PoolInitInv DEF SupInit
<1>2. MainTypeOK
  BY DEF SupInit, MainInit, MainTypeOK, NoStats, Zero
<1>3. \A ty \in TaskTypes : desired[ty] <= MaxDesired
  BY PoolAssumption DEF SupInit, MainInit, Zero
<1>4. PlanSound /\ ScaleUpSound
  BY DEF SupInit, MainInit, PlanSound, ScaleUpSound, Scaling, PoolInit, InitPool
<1> QED BY <1>1, <1>2, <1>3, <1>4 DEF SupIInv, ControlIInv

\* One step per kind of step.
LEMMA SupStepInv == SupIInv /\ [SupNext]_allVars => SupIInv'
<1> SUFFICES ASSUME SupIInv, [SupNext]_allVars PROVE SupIInv'
  OBVIOUS
<1> USE DEF SupIInv
<1>1. PoolIInv'
  BY StepImplementsPool, PoolStepInv
<1>2. PoolInv /\ PoolTypeOK'
  BY <1>1 DEF PoolIInv, PoolInv
<1>3. ScaleUpSound'
  BY <1>2, StepIsRegistryStep, GrowthStep
<1> QED BY <1>1, <1>2, <1>3, ControlTypes, PlanStays DEF ControlIInv

\* Every invariant of the pool holds under the control loop, and the loop's own:
\* main.go:226-282, the plan and the workers to come are within the maximum.
THEOREM SupervisorInductive == SupSpec => []SupIInv
BY SupInitInv, SupStepInv, PTL DEF SupSpec

\* Every variable of the whole system keeps its type.
THEOREM SupervisorTyped == SupSpec => []SupInv
<1>1. SupIInv => SupInv
  BY DEF SupIInv, PoolIInv, ControlIInv, SupInv
<1> QED BY <1>1, SupervisorInductive, PTL

\* main.go:226-282: the control loop uses the pool as a client may, so that what is
\* proved of PoolSpec, for any plans at any time, holds of the whole supervisor.
THEOREM SupervisorImplementsPool == SupSpec => ImplementsPool
<1>1. SupInit => PoolInit
  BY DEF SupInit
<1>2. SupIInv /\ [SupNext]_allVars => [PoolNext]_vars
  BY StepImplementsPool DEF SupIInv
<1> QED BY <1>1, <1>2, SupervisorInductive, PTL DEF SupSpec, ImplementsPool, PoolSpec

\* Run.php:36-37: in the whole system, no two live workers process the same task.
THEOREM SupervisorExcludes == SupSpec => []NoDoubleProcessing
BY SupervisorImplementsPool, MutualExclusion, PTL DEF ImplementsPool

\* README.md:178: however stale the counts of a plan are by then, the registered
\* workers never grow beyond the maximum in force.
THEOREM SupervisorGrowth == SupSpec => GrowthWithinMax
<1>1. SupIInv /\ SupIInv' /\ [SupNext]_allVars
        => [TotalRegistered' > TotalRegistered => TotalRegistered' <= MaxInForce]_allVars
  BY StepIsRegistryStep, GrowthStep DEF SupIInv, PoolIInv, PoolInv
<1> QED BY <1>1, SupervisorInductive, PTL DEF SupSpec, GrowthWithinMax
=============================================================================
