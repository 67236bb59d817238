------------------------------ MODULE PhpWorker ------------------------------
(***************************************************************************)
(* The worker command taskprocessing-util:run (lib/Command/Run.php): a PHP *)
(* process pinned to one task type that claims and processes tasks until a *)
(* bound or a signal stops it.  A process lives in a slot w \in Workers;   *)
(* the pool reuses a slot once the process and its goroutine are gone.     *)
(***************************************************************************)
EXTENDS TaskTable

CONSTANTS
    Workers,          \* the slots: how many processes the model can hold
    NoTask,           \* the null of processOne
    AtomicClaim,      \* the Nextcloud code of the process is NC 35+ and has
                      \* claimNextScheduledTask; may differ during an upgrade
    MaxClaimAttempts, \* MAX_CLAIM_ATTEMPTS of the fetch + lock path
    HasPcntl,         \* the pcntl extension is loaded
    WorkerTimeout,    \* --timeout in seconds, 0 = none; only its sign matters
    MaxTasks,         \* --max-tasks of each process, 0 = no limit
    ExitWhenIdle,     \* --exit-when-idle of each process
    Faults            \* what users, machines and the database may do

FaultKinds ==
    {"boot", "crash", "hang", "db", "cancel", "switch", "lookup", "exec", "stop", "restart"}

ASSUME WorkerAssumption ==
    /\ NoTask \notin Tasks
    /\ AtomicClaim \in [Workers -> BOOLEAN]
    /\ MaxClaimAttempts \in Nat \ {0}
    /\ HasPcntl \in BOOLEAN
    /\ WorkerTimeout \in Nat
    /\ Faults \subseteq FaultKinds

ASSUME OptionsAssumption ==
    /\ MaxTasks \in [Workers -> Nat]
    /\ ExitWhenIdle \in [Workers -> BOOLEAN]

VARIABLES
    wtype,      \* --taskType
    proc,       \* where the process is
    task,       \* the task fetched or claimed; kept when the process dies
    stopReq,    \* a SIGTERM was delivered: stopRequested
    ignored,    \* ignoreIds of the claim in progress
    processed,  \* processedCount, counted only when --max-tasks is given
    exit        \* how the process ended

phpVars == <<wtype, proc, task, stopReq, ignored, processed, exit>>

ProcStates == {"none", "boot", "loop", "claim", "lock", "busy", "dead"}
Exits == {"none", "ok", "error", "nosync", "killed"}

Alive(w) == proc[w] \in {"boot", "loop", "claim", "lock", "busy"}

\* A task whose outcome only this process can still report.
Holding(w, t) == task[w] = t /\ proc[w] = "busy"

PhpTypeOK ==
    /\ wtype \in [Workers -> TaskTypes]
    /\ proc \in [Workers -> ProcStates]
    /\ task \in [Workers -> Tasks \cup {NoTask}]
    /\ stopReq \in [Workers -> BOOLEAN]
    /\ ignored \in [Workers -> SUBSET Tasks]
    /\ processed \in [Workers -> Nat]
    /\ exit \in [Workers -> Exits]

InitPhp(types) ==
    /\ wtype = types
    /\ proc = [w \in Workers |-> "none"]
    /\ task = [w \in Workers |-> NoTask]
    /\ stopReq = [w \in Workers |-> FALSE]
    /\ ignored = [w \in Workers |-> {}]
    /\ processed = [w \in Workers |-> 0]
    /\ exit = [w \in Workers |-> "none"]

-----------------------------------------------------------------------------
(* The process ends.  A row it had claimed stays as it is, and task keeps   *)
(* it; a row it had only fetched was never its own.                         *)

Die(w, how) ==
    /\ proc' = [proc EXCEPT ![w] = "dead"]
    /\ exit' = [exit EXCEPT ![w] = how]
    /\ task' = [task EXCEPT ![w] = IF proc[w] = "busy" THEN @ ELSE NoTask]
    /\ ignored' = [ignored EXCEPT ![w] = {}]
    /\ UNCHANGED <<wtype, processed>>

Exit(w, how) ==
    /\ Die(w, how)
    /\ UNCHANGED stopReq

GoTo(w, place) ==
    /\ proc' = [proc EXCEPT ![w] = place]
    /\ UNCHANGED <<wtype, stopReq, processed, exit>>

\* fork + exec of a worker in a free slot.
Fork(w) ==
    /\ proc[w] = "none"
    /\ proc' = [proc EXCEPT ![w] = "boot"]
    /\ UNCHANGED <<wtype, task, stopReq, ignored, processed, exit>>

\* Nextcloud bootstraps, the provider is looked up, the handlers installed.
Boot(w) ==
    /\ proc[w] = "boot"
    /\ wtype[w] \in syncTypes
    /\ GoTo(w, "loop")
    /\ UNCHANGED <<task, ignored>>

\* getPreferredSynchronousProvider returned null: there is no synchronous
\* provider, or the lookup threw.
BootNoProvider(w) ==
    /\ proc[w] = "boot"
    /\ wtype[w] \notin syncTypes \/ "lookup" \in Faults
    /\ Exit(w, "nosync")

BootFail(w) ==
    /\ proc[w] = "boot"
    /\ "boot" \in Faults
    /\ Exit(w, "error")

-----------------------------------------------------------------------------
(* The top of the loop.  The clock is free: a worker with a --timeout may   *)
(* find it passed on any round.                                             *)

\* Seeded fault: the flag is set by the handler and never looked at.
StopRequestedMutant(w) == FALSE

StopRequested(w) == stopReq[w]

MaxTasksReached(w) == MaxTasks[w] > 0 /\ processed[w] >= MaxTasks[w]

StopOnSignal(w) ==
    /\ proc[w] = "loop"
    /\ StopRequested(w)
    /\ Exit(w, "ok")

TimeoutReached(w) ==
    /\ proc[w] = "loop"
    /\ ~StopRequested(w)
    /\ WorkerTimeout > 0
    /\ Exit(w, "ok")

StopOnMaxTasks(w) ==
    /\ proc[w] = "loop"
    /\ ~StopRequested(w)
    /\ MaxTasksReached(w)
    /\ Exit(w, "ok")

BeginClaim(w) ==
    /\ proc[w] = "loop"
    /\ ~StopRequested(w)
    /\ ~MaxTasksReached(w)
    /\ GoTo(w, "claim")
    /\ UNCHANGED <<task, ignored>>

-----------------------------------------------------------------------------
(* claimTask.                                                               *)

\* RESULT_NO_TASK: exit when idle, otherwise sleep and go round.
NoTaskAvailable(w) ==
    \/ /\ ExitWhenIdle[w]
       /\ Exit(w, "ok")
    \/ /\ ~ExitWhenIdle[w]
       /\ GoTo(w, "loop")
       /\ task' = [task EXCEPT ![w] = NoTask]
       /\ ignored' = [ignored EXCEPT ![w] = {}]

\* Seeded fault: the claim without the update.
ClaimNextMutant(w) ==
    /\ proc[w] = "claim"
    /\ \E t \in Tasks :
          /\ IsNextScheduled(t, wtype[w], {})
          /\ task' = [task EXCEPT ![w] = t]
    /\ GoTo(w, "busy")
    /\ UNCHANGED <<ignored, tableVars>>

\* NC 35+: SELECT ... FOR UPDATE SKIP LOCKED and the update in one transaction.
ClaimNext(w) ==
    /\ proc[w] = "claim"
    /\ AtomicClaim[w]
    /\ \E t \in Tasks :
          /\ IsNextScheduled(t, wtype[w], {})
          /\ status' = [status EXCEPT ![t] = "running"]
          /\ task' = [task EXCEPT ![w] = t]
    /\ GoTo(w, "busy")
    /\ UNCHANGED <<ignored, syncTypes, asyncHeld>>

\* NC 33/34: getNextScheduledTask, then lockTask in a later step.
Fetch(w) ==
    /\ proc[w] = "claim"
    /\ ~AtomicClaim[w]
    /\ \E t \in Tasks :
          /\ IsNextScheduled(t, wtype[w], ignored[w])
          /\ task' = [task EXCEPT ![w] = t]
    /\ GoTo(w, "lock")
    /\ UNCHANGED <<ignored, tableVars>>

NothingToClaim(w) ==
    /\ proc[w] = "claim"
    /\ NothingScheduled(wtype[w], ignored[w])
    /\ NoTaskAvailable(w)
    /\ UNCHANGED tableVars

\* Seeded fault: the result of lockTask is not looked at.
LockSucceedsMutant(w) == TRUE

\* lockTask is an UPDATE ... WHERE status = SCHEDULED: one caller wins.
LockSucceeds(w) == status[task[w]] = "scheduled"

LockWon(w) ==
    /\ proc[w] = "lock"
    /\ LockSucceeds(w)
    /\ status' = [status EXCEPT ![task[w]] = "running"]
    /\ ignored' = [ignored EXCEPT ![w] = {}]
    /\ GoTo(w, "busy")
    /\ UNCHANGED <<task, syncTypes, asyncHeld>>

LastAttempt(w) == Cardinality(ignored[w]) + 1 >= MaxClaimAttempts

LockLost(w) ==
    /\ proc[w] = "lock"
    /\ ~LockSucceeds(w)
    /\ ~LastAttempt(w)
    /\ ignored' = [ignored EXCEPT ![w] = @ \cup {task[w]}]
    /\ task' = [task EXCEPT ![w] = NoTask]
    /\ GoTo(w, "claim")
    /\ UNCHANGED tableVars

\* The last attempt was lost: claimTask returns null, as for an empty queue.
GiveUpClaim(w) ==
    /\ proc[w] = "lock"
    /\ ~LockSucceeds(w)
    /\ LastAttempt(w)
    /\ NoTaskAvailable(w)
    /\ UNCHANGED tableVars

\* The claim query threw: RESULT_ERROR, exit code 1.
ClaimError(w) ==
    /\ proc[w] \in {"claim", "lock"}
    /\ "db" \in Faults
    /\ Exit(w, "error")
    /\ UNCHANGED tableVars

-----------------------------------------------------------------------------
(* processTask runs the provider and writes the outcome to the row.  A row  *)
(* that is no longer RUNNING may keep its status or be overwritten: that is *)
(* the Manager's choice.                                                    *)

\* Seeded fault: counting down from nothing.
CountedMutant(w) == processed[w] - 1

\* processedCount++, of interest only when it is bounded.
Counted(w) == IF MaxTasks[w] > 0 THEN processed[w] + 1 ELSE 0

Finish(w) ==
    /\ proc[w] = "busy"
    /\ \E outcome \in {"successful", "failed"} :
          \/ status' = [status EXCEPT ![task[w]] = outcome]
          \/ status[task[w]] # "running" /\ UNCHANGED status
    /\ task' = [task EXCEPT ![w] = NoTask]
    /\ proc' = [proc EXCEPT ![w] = "loop"]
    /\ processed' = [processed EXCEPT ![w] = Counted(w)]
    /\ UNCHANGED <<wtype, stopReq, ignored, exit, syncTypes, asyncHeld>>

\* A fatal error, the OOM killer, or processTask throwing, as it may when the outcome
\* cannot be written: nobody catches it, the process is gone, its task stays RUNNING.
Crash(w) ==
    /\ proc[w] = "busy"
    /\ "crash" \in Faults
    /\ Exit(w, "error")

-----------------------------------------------------------------------------
(* Signals.                                                                 *)

\* Seeded fault: no handler, the default disposition.
DiesOfSigTermMutant(w) == TRUE

\* SIGTERM: a flag once the handlers are installed, death before that and in
\* a PHP without pcntl.
DiesOfSigTerm(w) == proc[w] = "boot" \/ ~HasPcntl

SigTerm(w) ==
    /\ Alive(w)
    /\ ~stopReq[w]
    /\ stopReq' = [stopReq EXCEPT ![w] = TRUE]
    /\ IF DiesOfSigTerm(w) THEN Die(w, "killed")
       ELSE UNCHANGED <<wtype, proc, task, ignored, processed, exit>>

SigKill(w) ==
    /\ Alive(w)
    /\ Exit(w, "killed")

-----------------------------------------------------------------------------
PhpStep(w) ==
    \/ /\ \/ Boot(w) \/ BootNoProvider(w) \/ BootFail(w)
          \/ StopOnSignal(w) \/ TimeoutReached(w) \/ StopOnMaxTasks(w)
          \/ BeginClaim(w) \/ Crash(w)
       /\ UNCHANGED tableVars
    \/ ClaimNext(w) \/ Fetch(w) \/ NothingToClaim(w)
    \/ LockWon(w) \/ LockLost(w) \/ GiveUpClaim(w) \/ ClaimError(w)
    \/ Finish(w)

TableStep ==
    \/ \E t \in Tasks : Schedule(t) \/ AsyncClaim(t) \/ AsyncFinish(t)
    \/ "cancel" \in Faults /\ \E t \in Tasks : CancelTask(t)
    \/ "switch" \in Faults /\ \E ty \in TaskTypes : SwitchProvider(ty)

-----------------------------------------------------------------------------
(* Workers on their own: anyone may start one, and signal it at any time.   *)

Operator(w) ==
    /\ Fork(w) \/ SigTerm(w) \/ ("crash" \in Faults /\ SigKill(w))
    /\ UNCHANGED tableVars

PhpInit ==
    /\ InitTable(TaskTypes)
    /\ \E types \in [Workers -> TaskTypes] : InitPhp(types)

PhpNext ==
    \/ \E w \in Workers : PhpStep(w) \/ Operator(w)
    \/ TableStep /\ UNCHANGED phpVars

\* A process keeps running, and a provider returns sooner or later.
PhpFairness == \A w \in Workers : WF_<<tableVars, phpVars>>(PhpStep(w))

PhpSpec == PhpInit /\ [][PhpNext]_<<tableVars, phpVars>> /\ PhpFairness

-----------------------------------------------------------------------------
(* Properties.                                                              *)

\* Type invariant of the table and of the worker processes.
PhpInv == TableTypeOK /\ PhpTypeOK

\* Run.php:36-37, 196-199: however the workers' claims interleave, and whatever
\* else happens to the rows, no two live workers process the same task.
NoDoubleProcessing ==
    \A v, w \in Workers, t \in Tasks : Holding(v, t) /\ Holding(w, t) => v = w

\* Run.php:121-125: as long as nothing but SIGTERM stops a worker that has
\* started up, every RUNNING row has a live process that will report on it.
NoTaskStranded ==
    "crash" \notin Faults /\ HasPcntl =>
        \A t \in Tasks : status[t] = "running" =>
            t \in asyncHeld \/ \E w \in Workers : Holding(w, t)

\* Run.php:141-144: a worker that was asked to stop does, after at most the task
\* in flight, also while the queue keeps filling up.
SignalStops == \A w \in Workers : stopReq[w] ~> ~Alive(w)

\* Run.php:154-173, 229-233: while some worker of its type keeps polling, a
\* scheduled task does not stay behind: each wakeup looks at the queue afresh.
PolledTaskLeavesQueue ==
    \A t \in Tasks, w \in Workers :
        status[t] = "scheduled" /\ Alive(w) /\ wtype[w] = TypeOf[t]
            ~> status[t] # "scheduled" \/ ~Alive(w)

-----------------------------------------------------------------------------
(* The inductive invariant the safety properties above follow from.         *)

\* A worker's task is of its type; one it has claimed is never scheduled again.
ClaimsSound ==
    \A w \in Workers :
        /\ proc[w] \in {"lock", "busy"} => task[w] # NoTask
        /\ task[w] # NoTask =>
              /\ proc[w] \in {"lock", "busy", "dead"}
              /\ TypeOf[task[w]] = wtype[w]
              /\ status[task[w]] # "absent"
              /\ proc[w] # "lock" => status[task[w]] # "scheduled"

\* No two workers, alive or dead, have ever claimed the same task.
OneOwner ==
    \A v, w \in Workers :
        /\ task[v] # NoTask /\ task[v] = task[w]
        /\ proc[v] # "lock" /\ proc[w] # "lock"
        => v = w

PhpIInv == PhpInv /\ ClaimsSound /\ OneOwner /\ NoTaskStranded
=============================================================================
