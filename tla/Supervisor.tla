----------------------------- MODULE Supervisor -----------------------------
(***************************************************************************)
(* The supervisor (cmd/supervisor/main.go): the control loop that reads    *)
(* the configuration and the queue, asks the scheduler for a plan and has  *)
(* the pool reconcile to it.  Every step of a poll takes the pool's lock,  *)
(* or asks the database, on its own: workers come and go between them.     *)
(*                                                                         *)
(* The timers are free here: either may fire whenever the loop selects     *)
(* (module Timers has them).  A supervisor that died is started again.     *)
(***************************************************************************)
EXTENDS WorkerPool

CONSTANT Configs  \* the configurations an administrator may store

DefaultConfig == [max |-> 4, enabled |-> TRUE]

\* What a maximum is taken for: below 1 it counts as 1.
InForce(max) == IF max < 1 THEN 1 ELSE max

\* A queue has finitely many rows and types, and the pool's bound covers every plan.
ASSUME ConfigAssumption ==
    /\ IsFiniteSet(Tasks) /\ IsFiniteSet(TaskTypes)
    /\ Configs \subseteq [max : Int, enabled : BOOLEAN]
    /\ \A c \in Configs \cup {DefaultConfig} : InForce(c.max) <= MaxDesired

Sched == INSTANCE Scheduler

VARIABLES
    mainpc,   \* where the main goroutine is
    cfg,      \* s.cfg
    dbcfg,    \* the configuration in oc_appconfig
    stats,    \* poll: queueStats
    running,  \* poll: the worker counts
    unseen,   \* poll: the types of queueStats not yet looked at
    skipped,  \* poll: the types left out as unworkable
    desired   \* poll: the plan

pollVars == <<stats, running, unseen, skipped, desired>>
mainVars == <<mainpc, cfg, dbcfg, pollVars>>
allVars == <<vars, mainVars>>

NoStats == [ty \in TaskTypes |-> [scheduled |-> 0, running |-> 0]]
Zero == [ty \in TaskTypes |-> 0]

MainTypeOK ==
    /\ mainpc \in {"init", "select", "counting", "filtering", "planned"}
    /\ cfg \in Configs \cup {DefaultConfig}
    /\ dbcfg \in Configs
    /\ stats \in [TaskTypes -> [scheduled : Nat, running : Nat]]
    /\ running \in [TaskTypes -> Nat]
    /\ unseen \subseteq TaskTypes
    /\ skipped \subseteq TaskTypes
    /\ desired \in [TaskTypes -> Nat]

MainInit ==
    /\ mainpc = "init"
    /\ cfg = DefaultConfig
    /\ dbcfg \in Configs
    /\ stats = NoStats
    /\ running = Zero
    /\ unseen = {}
    /\ skipped = {}
    /\ desired = Zero

-----------------------------------------------------------------------------
\* A query with the supervisor's context succeeds, or fails.
QueryOK == ~ctxDone
QueryFails == ctxDone \/ "db" \in Faults

AtSelect == mainpc = "select" /\ Idle

\* The first thing run does.
AtInit == mainpc = "init" /\ Up

\* Seeded fault: the reset only when this configuration changed.
RefreshConfigMutant ==
    /\ AtInit \/ AtSelect
    /\ QueryOK
    /\ IF cfg = dbcfg THEN UNCHANGED vars ELSE ResetUnworkable
    /\ cfg' = dbcfg
    /\ mainpc' = "select"
    /\ UNCHANGED <<dbcfg, pollVars>>

\* refreshConfig, at the start and at each tick of the config timer.
RefreshConfig ==
    /\ AtInit \/ AtSelect
    /\ QueryOK
    /\ ResetUnworkable
    /\ cfg' = dbcfg
    /\ mainpc' = "select"
    /\ UNCHANGED <<dbcfg, pollVars>>

RefreshFails ==
    /\ AtInit
    /\ QueryFails
    /\ mainpc' = "select"
    /\ UNCHANGED <<cfg, dbcfg, pollVars, vars>>

\* Seeded fault: the poll of a disabled supervisor returns before it drains anything.
PollDisabledMutant ==
    /\ AtSelect
    /\ ~cfg.enabled
    /\ UNCHANGED allVars

\* poll: disabled means that every worker is to go.
PollDisabled ==
    /\ AtSelect
    /\ ~cfg.enabled
    /\ ReconcileBegin(Zero)
    /\ UNCHANGED mainVars

\* A failed query ends the poll with nothing changed, so only success is a step.
PollQueue ==
    /\ AtSelect
    /\ cfg.enabled
    /\ QueryOK
    /\ stats' = QueueStats
    /\ mainpc' = "counting"
    /\ UNCHANGED <<cfg, dbcfg, running, unseen, skipped, desired, vars>>

PollRunning ==
    /\ Up
    /\ mainpc = "counting"
    /\ running' = [ty \in TaskTypes |-> Len(workers[ty])]
    /\ unseen' = {ty \in TaskTypes : stats[ty].scheduled + stats[ty].running > 0}
    /\ mainpc' = "filtering"
    /\ UNCHANGED <<cfg, dbcfg, stats, skipped, desired, vars>>

\* IsUnworkable for one type of queueStats after the other.
PollFilter ==
    /\ Up
    /\ mainpc = "filtering"
    /\ \E ty \in unseen :
          /\ unseen' = unseen \ {ty}
          /\ skipped' = IF ty \in unworkable THEN skipped \cup {ty} ELSE skipped
    /\ UNCHANGED <<mainpc, cfg, dbcfg, stats, running, desired, vars>>

Demand ==
    [ty \in TaskTypes |->
        [scheduled |-> IF ty \in skipped THEN 0 ELSE stats[ty].scheduled,
         running   |-> IF ty \in skipped THEN 0 ELSE stats[ty].running,
         workers   |-> running[ty]]]

PollCompute ==
    /\ Up
    /\ mainpc = "filtering"
    /\ unseen = {}
    /\ desired' \in Sched!Plans(Demand, cfg.max)
    /\ mainpc' = "planned"
    /\ stats' = NoStats
    /\ running' = Zero
    /\ skipped' = {}
    /\ UNCHANGED <<cfg, dbcfg, unseen, vars>>

\* Reconcile returns when it is no longer Scaling: only then is the loop Idle.
PollReconcile ==
    /\ mainpc = "planned"
    /\ ReconcileBegin(desired)
    /\ mainpc' = "select"
    /\ desired' = Zero
    /\ UNCHANGED <<cfg, dbcfg, stats, running, unseen, skipped>>

\* Seeded fault: main returns without calling Shutdown.
QuitMutant ==
    /\ AtSelect
    /\ ctxDone
    /\ shutdown' = "done"
    /\ UNCHANGED <<workers, unworkable, reconcileVars, gor, ctxErr, preexisting, ctxDone,
                   awaited, phpVars, tableVars, mainVars>>

\* ctx.Done was selected: run returns and the deferred Shutdown begins.
Quit ==
    /\ AtSelect
    /\ ShutdownBegin
    /\ UNCHANGED mainVars

\* With the process go its configuration and the poll it was at.
DieOrRestart ==
    /\ SupervisorDies \/ Restart
    /\ mainpc' = "init"
    /\ cfg' = DefaultConfig
    /\ stats' = NoStats
    /\ running' = Zero
    /\ unseen' = {}
    /\ skipped' = {}
    /\ desired' = Zero
    /\ UNCHANGED dbcfg

\* An administrator saves a new configuration.
SaveConfig ==
    /\ \E c \in Configs \ {dbcfg} : dbcfg' = c
    /\ UNCHANGED <<mainpc, cfg, pollVars, vars>>

-----------------------------------------------------------------------------
PollStep == PollRunning \/ PollFilter \/ PollCompute \/ PollReconcile

\* Everything but the control loop.
Background ==
    /\ \/ \E w \in Workers : Goroutine(w) \/ (PhpStep(w) /\ UNCHANGED poolVars)
       \/ Orphans
       \/ ScaleUp \/ ShutdownEnd \/ CancelParent
       \/ TableStep /\ UNCHANGED <<phpVars, poolVars>>
    /\ UNCHANGED mainVars

ControlLoop ==
    \/ RefreshConfig \/ RefreshFails
    \/ PollDisabled \/ PollQueue \/ PollStep
    \/ Quit
    \/ DieOrRestart

SupInit == PoolInit /\ MainInit

SupNext == Background \/ ControlLoop \/ SaveConfig

SupSpec == SupInit /\ [][SupNext]_allVars

\* An asynchronous provider finishes what it took.
AsyncProvider ==
    /\ \E t \in Tasks : AsyncFinish(t)
    /\ UNCHANGED <<phpVars, poolVars, mainVars>>

\* Fairness.  Both timers are always re-armed, so each fires again and again, and
\* select, which chooses at random among what is ready, serves each channel.
\* Goroutines and workers run, and providers return.  The clock runs: a worker that
\* outlived its supervisor finds its --timeout passed at the top of its loop sooner or
\* later, but not every one finds that on its first round.  Of the workers a supervisor
\* looks after nothing of the kind is assumed, so that no property holds only because
\* they are recycled.
\* Nothing is assumed of what restarts the supervisor.
Fairness ==
    /\ WF_allVars((ScaleUp \/ ShutdownEnd) /\ UNCHANGED mainVars)
    /\ WF_allVars(PollStep)
    /\ SF_allVars(PollQueue \/ PollDisabled)
    /\ SF_allVars(RefreshConfig \/ RefreshFails)
    /\ SF_allVars(Quit)
    /\ WF_allVars(AsyncProvider)
    /\ \A w \in Workers :
          /\ WF_allVars(GoroutineRuns(w) /\ UNCHANGED mainVars)
          /\ SF_allVars(GoroutineLocks(w) /\ UNCHANGED mainVars)
          /\ WF_allVars(PhpStep(w) /\ UNCHANGED <<poolVars, mainVars>>)
          /\ SF_allVars(/\ ~HasGoroutine(w) /\ TimeoutReached(w)
                        /\ UNCHANGED <<tableVars, poolVars, mainVars>>)
          /\ SF_allVars(BeginClaim(w) /\ UNCHANGED <<tableVars, poolVars, mainVars>>)
          /\ WF_allVars(OrphanGone(w) /\ UNCHANGED mainVars)

FairSupSpec == SupSpec /\ Fairness

-----------------------------------------------------------------------------
(* Properties.                                                              *)

\* Type invariant of the supervisor.
SupInv == PoolInv /\ MainTypeOK

TotalRegistered == SumFunction([ty \in TaskTypes |-> Len(workers[ty])])

MaxInForce == InForce(cfg.max)

\* README.md:178: the number of registered workers never grows beyond the maximum
\* in force, though the plan is made from counts that are stale by the time the
\* pool is reconciled to it.
GrowthWithinMax ==
    [][TotalRegistered' > TotalRegistered => TotalRegistered' <= MaxInForce]_allVars

\* The supervisor is a client of the pool as WorkerPool assumes one: what is
\* proved of PoolSpec holds of the whole system.
ImplementsPool == PoolSpec

\* main.go:233-236: "drain all workers": a supervisor that keeps running and stays
\* disabled ends up with no worker process.  It has to stop those it started itself;
\* those that outlived a predecessor of it are ended by their own --timeout.
DisabledDrains ==
    <>[](Up /\ ~cfg.enabled /\ ~ctxDone) => <>[](\A w \in Workers : ~Alive(w))

\* README.md:12, 183: once every type has a synchronous provider for good, and as
\* long as the supervisor runs and is enabled, every scheduled task is taken, also
\* one of a type found unworkable before, and one scheduled before a restart.
ScheduledTaskTaken ==
    <>[](Up /\ cfg.enabled /\ syncTypes = TaskTypes /\ ~ctxDone) =>
        \A t \in Tasks : status[t] = "scheduled" ~> status[t] # "scheduled"

\* main.go:71, pool.go:229-231: after a signal the supervisor ends, whatever the
\* loop, the pool and the workers are doing.
SupervisorStops == ctxDone ~> ~Up

-----------------------------------------------------------------------------
(* The inductive invariant of the control loop, given the pool's.           *)

\* The plan the pool is about to be reconciled to is within the maximum, which
\* does not change before that.
PlanSound == mainpc = "planned" => SumFunction(desired) <= MaxInForce

\* While workers are being started, no worker leaves and the maximum stays: those
\* registered and those to come are within it.
ScaleUpSound ==
    Scaling => SumFunction([ty \in TaskTypes |-> Len(workers[ty]) + deficit[ty]]) <= MaxInForce

ControlIInv ==
    /\ MainTypeOK
    /\ \A ty \in TaskTypes : desired[ty] <= MaxDesired
    /\ PlanSound /\ ScaleUpSound

SupIInv == PoolIInv /\ ControlIInv

-----------------------------------------------------------------------------
(* What the documentation says and the code does not do.                    *)

\* README.md:10: "The number of workers stays under a maximum value."  Here: no
\* more than that many workers process a task at the same time.
BusyWithinMax ==
    Cardinality({w \in Workers : proc[w] = "busy"}) <= MaxInForce
=============================================================================
