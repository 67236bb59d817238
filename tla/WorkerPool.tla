----------------------------- MODULE WorkerPool -----------------------------
(***************************************************************************)
(* The worker pool of the supervisor (internal/pool/pool.go): one          *)
(* goroutine per PHP worker, the map of registered workers under p.mu, the *)
(* contexts that end a worker, and what is done once its process is gone.  *)
(*                                                                         *)
(* The supervisor's main goroutine makes every call of the pool, one after *)
(* the other.  Reconcile holds p.mu from its first step to its last, while *)
(* its snapshots wait for the database; the worker goroutines go on, except*)
(* where they need p.mu.                                                   *)
(***************************************************************************)
EXTENDS PhpWorker, SequencesExt

CONSTANTS
    NoWorker,   \* no worker is between its launch and its registration
    NoType,     \* Reconcile is not in the middle of a task type
    MaxDesired  \* bound: the largest count per type a Reconcile is asked for

ASSUME PoolAssumption ==
    /\ NoWorker \notin Workers
    /\ NoType \notin TaskTypes
    /\ TaskTypes # {}
    /\ MaxDesired \in Nat

VARIABLES
    workers,     \* p.workers: the registered workers of each type, oldest first
    unworkable,  \* p.unworkable
    deficit,     \* Reconcile: the workers of each type still to be started
    turn,        \* Reconcile: the type its scale-up loop is at
    launched,    \* Reconcile: the worker launched and not yet appended
    gor,         \* where the goroutine of each slot is; "lost" without one
    ctxErr,      \* wctx.Err()
    preexisting, \* the snapshot of the rows RUNNING before the worker started
    ctxDone,     \* the supervisor's context was cancelled
    shutdown,    \* Shutdown: not called, waiting, returned; or the supervisor died
    awaited      \* Shutdown: the workers it waits for

reconcileVars == <<deficit, turn, launched>>
shutdownVars == <<ctxDone, shutdown, awaited>>
poolVars == <<workers, unworkable, reconcileVars, gor, ctxErr, preexisting, shutdownVars>>

GorStates == {"none", "starting", "running", "orphans", "marking", "removing", "lost"}

PoolTypeOK ==
    /\ workers \in [TaskTypes -> Seq(Workers)]
    /\ unworkable \subseteq TaskTypes
    /\ deficit \in [TaskTypes -> Nat]
    /\ turn \in TaskTypes \cup {NoType}
    /\ launched \in Workers \cup {NoWorker}
    /\ gor \in [Workers -> GorStates]
    /\ ctxErr \in [Workers -> {"none", "canceled", "deadline"}]
    /\ preexisting \in [Workers -> SUBSET Tasks]
    /\ ctxDone \in BOOLEAN
    /\ shutdown \in {"no", "waiting", "done", "died"}
    /\ awaited \subseteq Workers

AnyType == CHOOSE ty \in TaskTypes : TRUE

InitPool ==
    /\ InitPhp([w \in Workers |-> AnyType])
    /\ workers = [ty \in TaskTypes |-> <<>>]
    /\ unworkable = {}
    /\ deficit = [ty \in TaskTypes |-> 0]
    /\ turn = NoType
    /\ launched = NoWorker
    /\ gor = [w \in Workers |-> "none"]
    /\ ctxErr = [w \in Workers |-> "none"]
    /\ preexisting = [w \in Workers |-> {}]
    /\ ctxDone = FALSE
    /\ shutdown = "no"
    /\ awaited = {}

-----------------------------------------------------------------------------
\* p.mu is held: every caller but Reconcile holds it for one step only.
Scaling == \E ty \in TaskTypes : deficit[ty] > 0

\* Seeded fault: Shutdown keeps p.mu while it waits.
HeldLockMutant == ~Scaling /\ shutdown # "waiting"

\* A worker goroutine gets p.mu.
LockFree == ~Scaling

\* The main goroutine is between two calls.
Idle == ~Scaling /\ shutdown = "no"

\* After main has returned, or died, there are no goroutines any more.
Up == shutdown \notin {"done", "died"}

Registered(ty) == ToSet(workers[ty])

RegisteredWorkers == UNION {Registered(ty) : ty \in TaskTypes}

FreeSlots == {w \in Workers : gor[w] = "none"}

HasGoroutine(w) == gor[w] \notin {"none", "lost"}

\* Calling the cancel functions of a set of workers.  An earlier error stays.
CancelContexts(S) ==
    ctxErr' = [w \in Workers |->
                 IF w \in S /\ gor[w] \in {"starting", "running"} /\ ctxErr[w] = "none"
                 THEN "canceled" ELSE ctxErr[w]]

-----------------------------------------------------------------------------
(* Reconcile.                                                               *)

Surplus(ty, want) == {workers[ty][i] : i \in want + 1 .. Len(workers[ty])}

\* Seeded fault: the unworkable types are not left out.
UnfilteredLackingMutant(desired) ==
    [ty \in TaskTypes |-> IF Len(workers[ty]) >= desired[ty] THEN 0
                          ELSE desired[ty] - Len(workers[ty])]

Lacking(desired) ==
    [ty \in TaskTypes |->
        IF ty \in unworkable \/ Len(workers[ty]) >= desired[ty] THEN 0
        ELSE desired[ty] - Len(workers[ty])]

\* Seeded fault: a worker that is scaled down is signalled and keeps its place in the
\* map, while the plan already gives that place to another type.
ReconcileBeginMutant(desired) ==
    /\ Idle
    /\ deficit' = Lacking(desired)
    /\ SumFunction(Lacking(desired)) <= Cardinality(FreeSlots)
    /\ workers' = workers
    /\ CancelContexts(UNION {Surplus(ty, desired[ty]) : ty \in TaskTypes})
    /\ UNCHANGED <<unworkable, turn, launched, gor, preexisting, shutdownVars,
                   phpVars, tableVars>>

\* Scale-down happens in one step: nothing in it waits.  The most recently
\* started workers are cancelled and leave the map at once.
ReconcileBegin(desired) ==
    /\ Idle
    /\ deficit' = Lacking(desired)
    /\ SumFunction(Lacking(desired)) <= Cardinality(FreeSlots)  \* bound: Workers
    /\ workers' = [ty \in TaskTypes |->
                     IF Len(workers[ty]) > desired[ty]
                     THEN SubSeq(workers[ty], 1, desired[ty]) ELSE workers[ty]]
    /\ CancelContexts(UNION {Surplus(ty, desired[ty]) : ty \in TaskTypes})
    /\ UNCHANGED <<unworkable, turn, launched, gor, preexisting, shutdownVars,
                   phpVars, tableVars>>

\* Scale-up: the types in the random order of a map iteration, each to its
\* end.  startWorker takes the snapshot, which fails with the database or with
\* the context, and launches the goroutine.
StartWorker(ty, w) ==
    /\ Up
    /\ deficit[ty] > 0
    /\ launched = NoWorker
    /\ turn \in {NoType, ty}
    /\ turn' = ty
    /\ gor[w] = "none"
    /\ gor' = [gor EXCEPT ![w] = "starting"]
    /\ wtype' = [wtype EXCEPT ![w] = ty]
    /\ ctxErr' = [ctxErr EXCEPT ![w] = IF ctxDone THEN "canceled" ELSE "none"]
    /\ \/ ~ctxDone /\ preexisting' = [preexisting EXCEPT ![w] = RunningTaskIDs(ty)]
       \/ (ctxDone \/ "db" \in Faults) /\ preexisting' = [preexisting EXCEPT ![w] = {}]
    /\ launched' = w
    /\ UNCHANGED <<workers, unworkable, deficit, shutdownVars, proc, task, stopReq,
                   ignored, processed, exit, tableVars>>

\* The worker is appended; after the last one Reconcile returns.
AppendWorker ==
    /\ Up
    /\ launched # NoWorker
    /\ workers' = [workers EXCEPT ![turn] = Append(@, launched)]
    /\ deficit' = [deficit EXCEPT ![turn] = @ - 1]
    /\ turn' = IF deficit[turn] = 1 THEN NoType ELSE turn
    /\ launched' = NoWorker
    /\ UNCHANGED <<unworkable, gor, ctxErr, preexisting, shutdownVars, phpVars, tableVars>>

ResetUnworkable ==
    /\ Idle
    /\ unworkable' = {}
    /\ UNCHANGED <<workers, reconcileVars, gor, ctxErr, preexisting, shutdownVars,
                   phpVars, tableVars>>

-----------------------------------------------------------------------------
(* The goroutine of a worker.                                               *)

GoroutineTo(w, place) ==
    /\ gor' = [gor EXCEPT ![w] = place]
    /\ UNCHANGED <<workers, unworkable, reconcileVars, ctxErr, preexisting, shutdownVars>>

\* The switch after cmd.Run: the context's error comes before the exit code.
AfterRun(w) ==
    CASE ctxErr[w] = "deadline" -> "orphans"
      [] ctxErr[w] = "canceled" -> "removing"
      [] ctxErr[w] = "none"     -> IF exit[w] = "nosync" THEN "marking" ELSE "removing"

Spawn(w) ==
    /\ Up
    /\ gor[w] = "starting"
    /\ ctxErr[w] = "none"
    /\ Fork(w)
    /\ GoroutineTo(w, "running")
    /\ UNCHANGED tableVars

\* cmd.Start refuses a context that is done, or cannot start the process.
SpawnFail(w) ==
    /\ Up
    /\ gor[w] = "starting"
    /\ ctxErr[w] # "none" \/ "exec" \in Faults
    /\ GoroutineTo(w, AfterRun(w))
    /\ UNCHANGED <<phpVars, tableVars>>

\* The hard limit, --timeout plus the grace period, passes.  A worker at the
\* top of its loop has looked at the clock, so it is in its provider, or it hangs
\* in the bootstrap or the database, or is dead with its stderr still open.
Deadline(w) ==
    /\ Up
    /\ WorkerTimeout > 0
    /\ gor[w] = "running"
    /\ ctxErr[w] = "none"
    /\ \/ proc[w] = "busy"
       \/ proc[w] # "loop" /\ "hang" \in Faults
    /\ ctxErr' = [ctxErr EXCEPT ![w] = "deadline"]
    /\ UNCHANGED <<workers, unworkable, reconcileVars, gor, preexisting, shutdownVars,
                   phpVars, tableVars>>

\* cmd.Cancel, and SIGKILL once WaitDelay has passed after the context was done.
Terminate(w) ==
    /\ Up
    /\ gor[w] = "running"
    /\ ctxErr[w] # "none"
    /\ SigTerm(w)
    /\ UNCHANGED <<poolVars, tableVars>>

\* Seeded fault: no WaitDelay.
EscalateMutant(w) == FALSE

Escalate(w) ==
    /\ Up
    /\ gor[w] = "running"
    /\ ctxErr[w] # "none"
    /\ stopReq[w]
    /\ SigKill(w)
    /\ UNCHANGED <<poolVars, tableVars>>

\* Seeded fault: the goroutine does not wait for the process.
ReapMutant(w) ==
    /\ Up
    /\ gor[w] = "running"
    /\ GoroutineTo(w, AfterRun(w))
    /\ UNCHANGED <<phpVars, tableVars>>

Reap(w) ==
    /\ Up
    /\ gor[w] = "running"
    /\ proc[w] = "dead"
    /\ GoroutineTo(w, AfterRun(w))
    /\ UNCHANGED <<phpVars, tableVars>>

\* failOrphanedTasks; an error of the database is only logged.
FailOrphanedTasks(w) ==
    /\ Up
    /\ gor[w] = "orphans"
    /\ \/ status' = FailRunningTasks(wtype[w], preexisting[w])
       \/ "db" \in Faults /\ UNCHANGED status
    /\ GoroutineTo(w, "removing")
    /\ UNCHANGED <<phpVars, syncTypes, asyncHeld>>

MarkUnworkable(w) ==
    /\ Up
    /\ gor[w] = "marking"
    /\ LockFree
    /\ unworkable' = unworkable \cup {wtype[w]}
    /\ gor' = [gor EXCEPT ![w] = "removing"]
    /\ UNCHANGED <<workers, reconcileVars, ctxErr, preexisting, shutdownVars,
                   phpVars, tableVars>>

Without(s, w) ==
    IF \E i \in DOMAIN s : s[i] = w
    THEN RemoveAt(s, CHOOSE i \in DOMAIN s : s[i] = w) ELSE s

\* Nothing is left of the worker: the slot may be used again.
FreeSlot(w) ==
    /\ gor' = [gor EXCEPT ![w] = "none"]
    /\ ctxErr' = [ctxErr EXCEPT ![w] = "none"]
    /\ preexisting' = [preexisting EXCEPT ![w] = {}]
    /\ wtype' = [wtype EXCEPT ![w] = AnyType]
    /\ proc' = [proc EXCEPT ![w] = "none"]
    /\ task' = [task EXCEPT ![w] = NoTask]
    /\ stopReq' = [stopReq EXCEPT ![w] = FALSE]
    /\ ignored' = [ignored EXCEPT ![w] = {}]
    /\ processed' = [processed EXCEPT ![w] = 0]
    /\ exit' = [exit EXCEPT ![w] = "none"]
    /\ UNCHANGED <<unworkable, reconcileVars, shutdownVars, tableVars>>

\* Seeded fault: remove does not take the lock, so it may come before Reconcile has
\* appended the worker.
RemoveUnlockedMutant(w) ==
    /\ Up
    /\ gor[w] = "removing"
    /\ workers' = [workers EXCEPT ![wtype[w]] = Without(@, w)]
    /\ FreeSlot(w)

\* remove, after which the goroutine ends, closing done.
RemoveWorker(w) ==
    /\ Up
    /\ gor[w] = "removing"
    /\ LockFree
    /\ workers' = [workers EXCEPT ![wtype[w]] = Without(@, w)]
    /\ FreeSlot(w)

-----------------------------------------------------------------------------
(* The end of the supervisor.                                               *)

\* SIGTERM or SIGINT: every worker context derives from the one cancelled.
CancelParent ==
    /\ Up
    /\ "stop" \in Faults
    /\ ~ctxDone
    /\ ctxDone' = TRUE
    /\ CancelContexts(Workers)
    /\ UNCHANGED <<workers, unworkable, reconcileVars, gor, preexisting, shutdown,
                   awaited, phpVars, tableVars>>

\* Shutdown: the registered workers, and no others, are cancelled and awaited.
ShutdownBegin ==
    /\ Idle
    /\ ctxDone
    /\ shutdown' = "waiting"
    /\ awaited' = RegisteredWorkers
    /\ CancelContexts(RegisteredWorkers)
    /\ UNCHANGED <<workers, unworkable, reconcileVars, gor, preexisting, ctxDone,
                   phpVars, tableVars>>

\* Seeded fault: done is closed before the worker has removed itself.
AllDoneMutant == \A w \in awaited : ~Alive(w)

\* done is closed as the last thing a goroutine does.
AllDone == \A w \in awaited : gor[w] = "none"

ShutdownEnd ==
    /\ shutdown = "waiting"
    /\ AllDone
    /\ shutdown' = "done"
    /\ awaited' = {}
    /\ UNCHANGED <<workers, unworkable, reconcileVars, gor, ctxErr, preexisting, ctxDone,
                   phpVars, tableVars>>

-----------------------------------------------------------------------------
(* The supervisor dies and is started again.  Each worker is a process      *)
(* group of its own, so it may outlive the supervisor that started it; the  *)
(* next one knows nothing of it.                                            *)

\* The memory of the process is gone; the processes and the rows are not.
Forget ==
    /\ workers' = [ty \in TaskTypes |-> <<>>]
    /\ unworkable' = {}
    /\ deficit' = [ty \in TaskTypes |-> 0]
    /\ turn' = NoType
    /\ launched' = NoWorker
    /\ gor' = [w \in Workers |-> IF proc[w] = "none" THEN "none" ELSE "lost"]
    /\ ctxErr' = [w \in Workers |-> "none"]
    /\ preexisting' = [w \in Workers |-> {}]
    /\ ctxDone' = FALSE
    /\ awaited' = {}
    /\ UNCHANGED <<phpVars, tableVars>>

\* A panic, the OOM killer, SIGKILL.
SupervisorDies ==
    /\ Up
    /\ "restart" \in Faults
    /\ Forget
    /\ shutdown' = "died"

\* main runs again, its start-up check passes: an empty pool, a fresh context.
Restart ==
    /\ ~Up
    /\ "restart" \in Faults
    /\ Forget
    /\ shutdown' = "no"

\* init reaps a worker that outlived its supervisor.
OrphanGone(w) ==
    /\ gor[w] = "lost"
    /\ proc[w] = "dead"
    /\ FreeSlot(w)
    /\ UNCHANGED workers

\* systemd's control group, or an operator, ends a worker that was left behind.
OrphanSignalled(w) ==
    /\ gor[w] = "lost"
    /\ SigTerm(w) \/ (stopReq[w] /\ SigKill(w))
    /\ UNCHANGED <<poolVars, tableVars>>

-----------------------------------------------------------------------------
(* The pool with an arbitrary client: any plan, at any time.                *)

\* What the goroutine of a worker does without waiting for p.mu, and with it.
GoroutineRuns(w) ==
    \/ Spawn(w) \/ SpawnFail(w) \/ Terminate(w) \/ Escalate(w)
    \/ Reap(w) \/ FailOrphanedTasks(w)

GoroutineLocks(w) == MarkUnworkable(w) \/ RemoveWorker(w)

Goroutine(w) == GoroutineRuns(w) \/ Deadline(w) \/ GoroutineLocks(w)

ScaleUp ==
    \/ \E ty \in TaskTypes, w \in Workers : StartWorker(ty, w)
    \/ AppendWorker

Orphans ==
    \E w \in Workers : OrphanGone(w) \/ OrphanSignalled(w)

PoolStep ==
    \/ \E w \in Workers : Goroutine(w) \/ (PhpStep(w) /\ UNCHANGED poolVars)
    \/ Orphans
    \/ ScaleUp \/ ShutdownBegin \/ ShutdownEnd
    \/ TableStep /\ UNCHANGED <<phpVars, poolVars>>

Client ==
    \/ \E desired \in [TaskTypes -> 0 .. MaxDesired] : ReconcileBegin(desired)
    \/ ResetUnworkable
    \/ CancelParent
    \/ SupervisorDies \/ Restart

PoolInit == InitTable(TaskTypes) /\ InitPool

PoolNext == PoolStep \/ Client

vars == <<tableVars, phpVars, poolVars>>

\* Goroutines run and the kernel delivers.  p.mu is a sync.Mutex, which does
\* not starve a waiter, and the main loop's select does not starve ctx.Done.
\* Nothing is assumed of PHP: a provider may hang for ever.
PoolFairness ==
    /\ WF_vars(ScaleUp \/ ShutdownEnd)
    /\ SF_vars(ShutdownBegin)
    /\ \A w \in Workers : WF_vars(GoroutineRuns(w)) /\ SF_vars(GoroutineLocks(w))

PoolSpec == PoolInit /\ [][PoolNext]_vars

FairPoolSpec == PoolSpec /\ PoolFairness

-----------------------------------------------------------------------------
(* Properties.                                                              *)

\* Type invariant of the whole pool.
PoolInv == PhpInv /\ PoolTypeOK

\* pool.go:158-165, 321-334: p.workers never holds a worker whose goroutine has
\* ended, nor one twice, also after a restart.  Such an entry would count as a
\* running worker for ever.  It is the lock that keeps remove from coming before
\* the append.
RegistryIsLive ==
    \A ty \in TaskTypes :
        /\ IsInjective(workers[ty])
        /\ \A w \in Registered(ty) : HasGoroutine(w) /\ wtype[w] = ty

\* pool.go:200-203: a worker's snapshot never holds the task the worker itself
\* takes later, so the cleanup after its death cannot leave that task out.
OwnTaskNotExcluded ==
    \A w \in Workers : task[w] # NoTask => task[w] \notin preexisting[w]

\* pool.go:235-241: after the cleanup that follows a hard timeout, the task the
\* worker was killed with is not RUNNING any more.
CleanupComplete ==
    \A w \in Workers :
        /\ "db" \notin Faults
        /\ gor[w] = "removing"
        /\ ctxErr[w] = "deadline"
        /\ task[w] # NoTask
        => status[task[w]] # "running"

\* pool.go:159-162, 272-276: a type being marked at the same time, no worker is
\* started for a type known to be unworkable.
UnworkableNotStarted ==
    [][\A w \in Workers :
          gor[w] = "none" /\ gor'[w] = "starting" => wtype'[w] \notin unworkable]_vars

\* pool.go:337-351: when Shutdown returns, no registered worker is left: each has
\* been awaited until it had removed itself.
ShutdownAwaitsRegistered ==
    shutdown = "done" => RegisteredWorkers = {}

\* pool.go:229-231: a wedged worker can never block Shutdown for ever.
ShutdownCompletes == ctxDone ~> ~Up

\* pool.go:222-231: a worker whose context is done, because it was scaled down,
\* timed out or shut down, ends even if its provider never returns.
CancelledWorkerEnds ==
    \A w \in Workers : ctxErr[w] # "none" ~> gor[w] = "none" \/ ~Up

-----------------------------------------------------------------------------
(* The inductive invariant the properties above follow from.                *)

\* What was once RUNNING is never scheduled again.
SnapshotsSound ==
    \A w \in Workers : \A t \in preexisting[w] : status[t] \notin {"absent", "scheduled"}

\* Where a goroutine is limits where its process can be.
GoroutinesSound ==
    \A w \in Workers :
        /\ gor[w] \in {"none", "starting"} => proc[w] = "none"
        /\ gor[w] \in {"orphans", "marking", "removing"} => proc[w] \in {"none", "dead"}
        /\ gor[w] = "marking" => ctxErr[w] = "none"
        /\ gor[w] = "lost" => ctxErr[w] = "none"

\* Reconcile between the launch of a worker and its registration.
ReconcileSound ==
    /\ turn # NoType => deficit[turn] > 0
    /\ launched # NoWorker =>
          /\ turn # NoType
          /\ HasGoroutine(launched)
          /\ wtype[launched] = turn
          /\ launched \notin Registered(turn)
    /\ \A ty \in TaskTypes : deficit[ty] > 0 => ty \notin unworkable

\* Shutdown waits for every worker that is still registered.
ShutdownSound ==
    /\ shutdown \in {"waiting", "done"} => ~Scaling
    /\ shutdown = "waiting" => \A ty \in TaskTypes : Registered(ty) \subseteq awaited

PoolIInv ==
    /\ PoolInv
    /\ ClaimsSound /\ OneOwner
    /\ SnapshotsSound /\ OwnTaskNotExcluded
    /\ GoroutinesSound /\ CleanupComplete
    /\ RegistryIsLive /\ ReconcileSound
    /\ ShutdownSound /\ ShutdownAwaitsRegistered

-----------------------------------------------------------------------------
(* What the documentation says and the code does not do.                    *)

\* README.md:234: the supervisor "changes the state of only the task of the worker
\* that it stopped"; db.go:170-172: the tasks of "other, still-live workers of the
\* same type" MUST NOT be touched.
LiveTasksSpared ==
    [][\A w, v \in Workers, t \in Tasks :
          gor[w] = "orphans" /\ gor'[w] # "orphans" /\ task[w] # NoTask /\ Holding(v, t)
          => status'[t] = status[t]]_vars

\* README.md:46-48: given the time, the supervisor sets "the state of the
\* interrupted tasks": a worker that had to be killed leaves no RUNNING row.
KilledTaskFailed ==
    \A w \in Workers :
        gor[w] = "removing" /\ exit[w] = "killed" /\ task[w] # NoTask
        => status[task[w]] # "running"
=============================================================================
