-------------------------- MODULE PhpWorkerProofs ---------------------------
(***************************************************************************)
(* Proofs about the worker command, for any number of tasks, task types    *)
(* and processes, either claim path, and every set of faults: what each of *)
(* its steps does, and that the claims of the processes never meet.  The   *)
(* proofs about the pool rest on the same lemmas.                          *)
(***************************************************************************)
EXTENDS PhpWorker, TLAPS

USE TableAssumption, WorkerAssumption

-----------------------------------------------------------------------------
(* Type correctness.                                                        *)

\* How a process ends, whatever it was doing.
LEMMA ExitTypes ==
    ASSUME PhpTypeOK, NEW w \in Workers, NEW how \in Exits, Exit(w, how)
    PROVE  PhpTypeOK'
BY DEF PhpTypeOK, Exit, Die, ProcStates

\* A worker's own steps keep the types of the table and of the processes.
LEMMA PhpStepTypes ==
    ASSUME PhpInv, ClaimsSound, NEW w \in Workers, PhpStep(w)
    PROVE  PhpInv'
<1> USE DEF PhpInv, Exits
<1>1. ASSUME UNCHANGED tableVars PROVE TableTypeOK'
  BY <1>1 DEF TableTypeOK, tableVars
<1>2. ASSUME NEW how \in Exits, Exit(w, how), UNCHANGED tableVars
      PROVE  PhpInv'
  BY <1>1, <1>2, ExitTypes
<1>3. CASE Boot(w) /\ UNCHANGED tableVars
  BY <1>1, <1>3 DEF Boot, GoTo, PhpTypeOK, ProcStates
<1>4. CASE /\ \/ BootNoProvider(w) \/ BootFail(w) \/ StopOnSignal(w)
              \/ TimeoutReached(w) \/ StopOnMaxTasks(w) \/ Crash(w)
           /\ UNCHANGED tableVars
  <2>1. \E how \in Exits : Exit(w, how)
    BY <1>4 DEF BootNoProvider, BootFail, StopOnSignal, TimeoutReached,
                StopOnMaxTasks, Crash
  <2> QED BY <1>2, <1>4, <2>1
<1>5. CASE BeginClaim(w) /\ UNCHANGED tableVars
  BY <1>1, <1>5 DEF BeginClaim, GoTo, PhpTypeOK, ProcStates
<1>6. CASE ClaimNext(w)
  BY <1>6 DEF ClaimNext, GoTo, PhpTypeOK, ProcStates, TableTypeOK, Statuses
<1>7. CASE Fetch(w)
  BY <1>1, <1>7 DEF Fetch, GoTo, PhpTypeOK, ProcStates
<1>8. ASSUME NoTaskAvailable(w), UNCHANGED tableVars PROVE PhpInv'
  <2>1. CASE Exit(w, "ok")
    BY <1>2, <1>8, <2>1
  <2>2. CASE ~ExitWhenIdle[w]
    BY <1>1, <1>8, <2>2 DEF NoTaskAvailable, GoTo, PhpTypeOK, ProcStates
  <2> QED BY <1>8, <2>1, <2>2 DEF NoTaskAvailable
<1>9. CASE NothingToClaim(w) \/ GiveUpClaim(w)
  BY <1>8, <1>9 DEF NothingToClaim, GiveUpClaim
<1>10. CASE LockWon(w)
  BY <1>10 DEF LockWon, GoTo, PhpTypeOK, ProcStates, TableTypeOK, Statuses
<1>11. CASE LockLost(w)
  BY <1>1, <1>11 DEF ClaimsSound, LockLost, GoTo, PhpTypeOK, ProcStates
<1>12. CASE ClaimError(w)
  BY <1>2, <1>12 DEF ClaimError
<1>13. CASE Finish(w)
  BY <1>13 DEF Finish, Counted, PhpTypeOK, ProcStates, TableTypeOK, Statuses
<1> QED BY <1>3, <1>4, <1>5, <1>6, <1>7, <1>9, <1>10, <1>11, <1>12, <1>13 DEF PhpStep

\* So do the steps of users and of asynchronous providers.
LEMMA TableStepTypes ==
    ASSUME TableTypeOK, TableStep
    PROVE  TableTypeOK'
BY DEF TableStep, TableTypeOK, Statuses, Schedule, CancelTask, AsyncClaim, AsyncFinish,
       SwitchProvider

\* And a start or a signal.
LEMMA SignalTypes ==
    ASSUME PhpInv, NEW w \in Workers, Fork(w) \/ SigTerm(w) \/ SigKill(w),
           UNCHANGED tableVars
    PROVE  PhpInv'
<1> USE DEF PhpInv, TableTypeOK, PhpTypeOK, tableVars, ProcStates, Exits
<1>1. CASE Fork(w)
  BY <1>1 DEF Fork
<1>2. CASE SigTerm(w)
  BY <1>2 DEF SigTerm, Die
<1>3. CASE SigKill(w)
  BY <1>3 DEF SigKill, Exit, Die
<1> QED BY <1>1, <1>2, <1>3

-----------------------------------------------------------------------------
(* What a step does to the rows and to the slot of one worker.              *)

\* A row only moves forward: it is never scheduled again, nor does one with an
\* outcome become RUNNING again.
Forward ==
    \A t \in Tasks :
        /\ status[t] # "absent" => status'[t] # "absent"
        /\ status[t] \notin {"absent", "scheduled"} =>
              /\ status'[t] \notin {"absent", "scheduled"}
              /\ status[t] # "running" => status'[t] # "running"

\* A process step changes nothing but its own slot.  It lets go of its task,
\* fetches a scheduled one, claims a scheduled one, dies with the task it was
\* processing, or leaves place and task alone.
Effect(w) ==
    /\ Forward
    /\ wtype' = wtype
    /\ \A v \in Workers \ {w} : proc'[v] = proc[v] /\ task'[v] = task[v]
    /\ \/ task'[w] = NoTask /\ proc'[w] \notin {"lock", "busy"}
       \/ /\ task'[w] \in Tasks
          /\ TypeOf[task'[w]] = wtype[w]
          /\ status[task'[w]] = "scheduled"
          /\ \/ proc'[w] = "lock" /\ status' = status
             \/ proc'[w] = "busy" /\ status'[task'[w]] = "running"
       \/ task'[w] = task[w] /\ proc[w] = "busy" /\ proc'[w] = "dead"
       \/ task'[w] = task[w] /\ proc'[w] = proc[w]

\* A step that leaves the rows alone, and the steps of everyone else.
LEMMA SameRowsForward ==
    ASSUME UNCHANGED status PROVE Forward
BY DEF Forward

\* What the table does by itself takes no task back to a state it has left, and
\* claims none.
LEMMA TableStepForward ==
    ASSUME TableTypeOK, TableStep PROVE Forward
BY DEF TableStep, TableTypeOK, Forward, Schedule, CancelTask, AsyncClaim, AsyncFinish,
       SwitchProvider

\* The end of a process, however it comes about.
LEMMA ExitEffect ==
    ASSUME PhpInv, ClaimsSound, NEW w \in Workers, NEW how \in Exits, Die(w, how),
           UNCHANGED status
    PROVE  Effect(w)
BY SameRowsForward DEF PhpInv, PhpTypeOK, ClaimsSound, Effect, Die

\* The start of a process, and a signal.
LEMMA SignalEffect ==
    ASSUME PhpInv, ClaimsSound, NEW w \in Workers, Fork(w) \/ SigTerm(w) \/ SigKill(w),
           UNCHANGED status
    PROVE  Effect(w)
<1>1. CASE Fork(w)
  BY <1>1, SameRowsForward DEF Fork, Effect, PhpInv, PhpTypeOK, ClaimsSound
<1>2. CASE SigTerm(w)
  <2>1. CASE Die(w, "killed")
    BY <2>1, ExitEffect DEF Exits
  <2>2. CASE UNCHANGED <<wtype, proc, task>>
    BY <2>2, SameRowsForward DEF Effect
  <2> QED BY <1>2, <2>1, <2>2 DEF SigTerm
<1>3. CASE SigKill(w)
  BY <1>3, ExitEffect DEF SigKill, Exit, Exits
<1> QED BY <1>1, <1>2, <1>3

\* Each of its own steps.
LEMMA PhpStepEffect ==
    ASSUME PhpInv, ClaimsSound, NEW w \in Workers, PhpStep(w)
    PROVE  Effect(w)
<1> USE DEF PhpInv, TableTypeOK, PhpTypeOK
<1>1. CASE (Boot(w) \/ BeginClaim(w)) /\ UNCHANGED tableVars
  BY <1>1, SameRowsForward DEF Boot, BeginClaim, GoTo, Effect, ClaimsSound, tableVars
<1>2. ASSUME NEW how \in Exits, Exit(w, how), UNCHANGED tableVars
      PROVE  Effect(w)
  BY <1>2, ExitEffect DEF Exit, tableVars
<1>3. CASE /\ \/ BootNoProvider(w) \/ BootFail(w) \/ StopOnSignal(w)
              \/ TimeoutReached(w) \/ StopOnMaxTasks(w) \/ Crash(w)
           /\ UNCHANGED tableVars
  BY <1>2, <1>3 DEF Exits, BootNoProvider, BootFail, StopOnSignal, TimeoutReached,
                    StopOnMaxTasks, Crash
<1>4. CASE ClaimNext(w)
  <2>1. PICK t \in Tasks :
          /\ IsNextScheduled(t, wtype[w], {})
          /\ status' = [status EXCEPT ![t] = "running"]
          /\ task' = [task EXCEPT ![w] = t]
    BY <1>4 DEF ClaimNext
  <2>2. TypeOf[t] = wtype[w] /\ status[t] = "scheduled"
    BY <2>1 DEF IsNextScheduled, RowsOf
  <2> QED BY <1>4, <2>1, <2>2 DEF ClaimNext, GoTo, Effect, Forward
<1>5. CASE Fetch(w)
  <2>1. PICK t \in Tasks :
          /\ IsNextScheduled(t, wtype[w], ignored[w])
          /\ task' = [task EXCEPT ![w] = t]
    BY <1>5 DEF Fetch
  <2>2. TypeOf[t] = wtype[w] /\ status[t] = "scheduled"
    BY <2>1 DEF IsNextScheduled, RowsOf
  <2>3. Forward
    BY <1>5, SameRowsForward DEF Fetch, tableVars
  <2> QED BY <1>5, <2>1, <2>2, <2>3 DEF Fetch, GoTo, Effect, tableVars
<1>6. ASSUME NoTaskAvailable(w), UNCHANGED tableVars PROVE Effect(w)
  <2>1. CASE Exit(w, "ok")
    BY <1>2, <1>6, <2>1 DEF Exits
  <2>2. CASE ~ExitWhenIdle[w]
    BY <1>6, <2>2, SameRowsForward DEF NoTaskAvailable, GoTo, Effect, tableVars
  <2> QED BY <1>6, <2>1, <2>2 DEF NoTaskAvailable
<1>7. CASE NothingToClaim(w) \/ GiveUpClaim(w)
  BY <1>6, <1>7 DEF NothingToClaim, GiveUpClaim
<1>8. CASE LockWon(w)
  <2>1. task[w] \in Tasks /\ TypeOf[task[w]] = wtype[w]
    BY <1>8 DEF LockWon, ClaimsSound
  <2> QED BY <1>8, <2>1 DEF LockWon, LockSucceeds, GoTo, Effect, Forward
<1>9. CASE LockLost(w)
  BY <1>9, SameRowsForward DEF LockLost, GoTo, Effect, tableVars
<1>10. CASE ClaimError(w)
  BY <1>2, <1>10 DEF ClaimError, Exits
<1>11. CASE Finish(w)
  <2>1. task[w] \in Tasks /\ status[task[w]] \notin {"absent", "scheduled"}
    BY <1>11 DEF Finish, ClaimsSound
  <2> QED BY <1>11, <2>1 DEF Finish, Effect, Forward
<1> QED BY <1>1, <1>3, <1>4, <1>5, <1>7, <1>8, <1>9, <1>10, <1>11 DEF PhpStep
-----------------------------------------------------------------------------
(* Who owns which task.                                                     *)

Owners == ClaimsSound /\ OneOwner

\* A process's own step, its start and its signals leave every claim to its owner.
LEMMA EffectKeepsOwners ==
    ASSUME PhpInv, Owners, NEW w \in Workers, Effect(w)
    PROVE  Owners'
<1> USE DEF PhpInv, PhpTypeOK, Effect, Forward
<1>1. ClaimsSound'
  <2> SUFFICES ASSUME NEW v \in Workers
               PROVE  /\ proc'[v] \in {"lock", "busy"} => task'[v] # NoTask
                      /\ task'[v] # NoTask =>
                            /\ proc'[v] \in {"lock", "busy", "dead"}
                            /\ TypeOf[task'[v]] = wtype'[v]
                            /\ status'[task'[v]] # "absent"
                            /\ proc'[v] # "lock" => status'[task'[v]] # "scheduled"
    BY DEF ClaimsSound
  <2>1. task[v] # NoTask => task[v] \in Tasks
    OBVIOUS
  <2>2. CASE v # w \/ (task'[w] = task[w] /\ proc'[w] = proc[w])
    <3>1. proc'[v] = proc[v] /\ task'[v] = task[v] /\ wtype'[v] = wtype[v]
      BY <2>2
    <3> QED BY <2>1, <3>1 DEF Owners, ClaimsSound
  <2>3. CASE v = w
    <3>1. CASE task'[w] = task[w] /\ proc[w] = "busy" /\ proc'[w] = "dead"
      BY <2>1, <2>3, <3>1 DEF Owners, ClaimsSound
    <3>2. CASE task'[w] \in Tasks /\ status[task'[w]] = "scheduled"
      BY <2>2, <2>3, <3>2, <3>1 DEF Owners, ClaimsSound
    <3> QED BY <2>2, <2>3, <3>1, <3>2
  <2> QED BY <2>2, <2>3
<1>2. OneOwner'
  BY DEF Owners, ClaimsSound, OneOwner
<1> QED BY <1>1, <1>2 DEF Owners

\* Rows that move forward with no process involved do not disturb them either.
LEMMA ForwardKeepsOwners ==
    ASSUME PhpInv, Owners, Forward, UNCHANGED <<wtype, proc, task>>
    PROVE  Owners'
<1> USE DEF PhpInv, PhpTypeOK, Forward, Owners
<1>1. \A w \in Workers : task[w] # NoTask => task[w] \in Tasks
  OBVIOUS
<1>2. ClaimsSound'
  BY <1>1 DEF ClaimsSound
<1>3. OneOwner'
  BY DEF OneOwner
<1> QED BY <1>2, <1>3
-----------------------------------------------------------------------------
(* Rows that are RUNNING have someone who will report on them.              *)

\* A process that is not processing may come and go.
LEMMA IdleKeepsTasks ==
    ASSUME NoTaskStranded, NEW w \in Workers, proc[w] # "busy",
           UNCHANGED <<status, asyncHeld>>,
           \A v \in Workers \ {w} : proc'[v] = proc[v] /\ task'[v] = task[v]
    PROVE  NoTaskStranded'
<1>1. \A v \in Workers, t \in Tasks : Holding(v, t) => Holding(v, t)'
  BY DEF Holding
<1> QED BY <1>1 DEF NoTaskStranded

\* The start of a process and the signals to it leave no task behind: a process that
\* is killed is no orderly end.
LEMMA SignalKeepsTasks ==
    ASSUME PhpInv, NoTaskStranded, NEW w \in Workers,
           Fork(w) \/ SigTerm(w) \/ ("crash" \in Faults /\ SigKill(w)), UNCHANGED tableVars
    PROVE  NoTaskStranded'
<1> USE DEF PhpInv, PhpTypeOK, tableVars
<1>1. CASE Fork(w)
  BY <1>1, IdleKeepsTasks DEF Fork
<1>2. CASE SigTerm(w)
  <2>1. CASE ~HasPcntl
    BY <2>1 DEF NoTaskStranded
  <2>2. CASE proc[w] = "boot"
    BY <1>2, <2>2, IdleKeepsTasks DEF SigTerm, Die
  <2>3. CASE UNCHANGED <<proc, task>>
    BY <2>3 DEF NoTaskStranded, Holding
  <2> QED BY <1>2, <2>1, <2>2, <2>3 DEF SigTerm, DiesOfSigTerm
<1>3. CASE "crash" \in Faults
  BY <1>3 DEF NoTaskStranded
<1> QED BY <1>1, <1>2, <1>3

\* A worker ends orderly only after it has dealt with its task.
LEMMA PhpStepKeepsTasks ==
    ASSUME PhpInv, ClaimsSound, NoTaskStranded, NEW w \in Workers, PhpStep(w)
    PROVE  NoTaskStranded'
<1> USE DEF PhpInv, TableTypeOK, PhpTypeOK, GoTo, tableVars
<1>1. CASE "crash" \in Faults
  BY <1>1 DEF NoTaskStranded
<1>2. CASE /\ \/ Boot(w) \/ BootNoProvider(w) \/ BootFail(w) \/ StopOnSignal(w)
              \/ TimeoutReached(w) \/ StopOnMaxTasks(w) \/ BeginClaim(w)
           /\ UNCHANGED tableVars
  BY <1>2, IdleKeepsTasks
     DEF Boot, BootNoProvider, BootFail, StopOnSignal, TimeoutReached, StopOnMaxTasks,
         BeginClaim, Exit, Die
<1>3. CASE Fetch(w) \/ NothingToClaim(w) \/ LockLost(w) \/ GiveUpClaim(w) \/ ClaimError(w)
  BY <1>3, IdleKeepsTasks
     DEF Fetch, NothingToClaim, LockLost, GiveUpClaim, ClaimError, NoTaskAvailable, Exit, Die
<1>4. CASE ClaimNext(w)
  <2>1. PICK t \in Tasks : /\ status' = [status EXCEPT ![t] = "running"]
                           /\ task' = [task EXCEPT ![w] = t]
    BY <1>4 DEF ClaimNext
  <2>2. /\ task'[w] = t /\ proc'[w] = "busy" /\ proc[w] # "busy" /\ UNCHANGED asyncHeld
        /\ \A u \in Tasks \ {t} : status'[u] = status[u]
        /\ \A v \in Workers \ {w} : proc'[v] = proc[v] /\ task'[v] = task[v]
    BY <1>4, <2>1 DEF ClaimNext
  <2> QED BY <2>1, <2>2 DEF NoTaskStranded, Holding
<1>5. CASE LockWon(w)
  <2>1. task[w] \in Tasks
    BY <1>5 DEF LockWon, ClaimsSound
  <2> QED BY <1>5, <2>1 DEF LockWon, NoTaskStranded, Holding
<1>6. CASE Finish(w)
  <2>1. task[w] \in Tasks /\ proc[w] = "busy"
    BY <1>6 DEF Finish, ClaimsSound
  <2>2. /\ status'[task[w]] # "running" /\ UNCHANGED asyncHeld
        /\ \A t \in Tasks \ {task[w]} : status'[t] = status[t]
        /\ \A v \in Workers \ {w} : proc'[v] = proc[v] /\ task'[v] = task[v]
    BY <1>6, <2>1 DEF Finish
  <2> QED BY <2>1, <2>2 DEF NoTaskStranded, Holding
<1> QED BY <1>1, <1>2, <1>3, <1>4, <1>5, <1>6 DEF PhpStep, Crash

\* Nor does a cancellation, or the end of a lock, leave a task to a worker that has
\* ended.
LEMMA TableStepKeepsTasks ==
    ASSUME PhpInv, NoTaskStranded, TableStep, UNCHANGED phpVars
    PROVE  NoTaskStranded'
<1> USE DEF PhpInv, TableTypeOK, PhpTypeOK, phpVars
<1>1. \A t \in Tasks : status'[t] = "running" =>
          (status[t] = "running" /\ (t \in asyncHeld => t \in asyncHeld')) \/ t \in asyncHeld'
  BY DEF TableStep, Schedule, CancelTask, AsyncClaim, AsyncFinish, SwitchProvider
<1> QED BY <1>1 DEF NoTaskStranded, Holding

-----------------------------------------------------------------------------
(* The inductive invariant, and what follows from it.                       *)

\* At first there is no process.
LEMMA PhpInitInv ==
    ASSUME PhpInit PROVE PhpIInv
<1> USE DEF PhpInit, InitTable, InitPhp
<1>1. PhpInv
  BY DEF PhpInv, TableTypeOK, PhpTypeOK, Statuses, ProcStates, Exits
<1>2. ClaimsSound /\ OneOwner /\ NoTaskStranded
  BY DEF ClaimsSound, OneOwner, NoTaskStranded
<1> QED BY <1>1, <1>2 DEF PhpIInv

\* One step per kind of step.
LEMMA PhpNextInv ==
    ASSUME PhpIInv, [PhpNext]_<<tableVars, phpVars>>
    PROVE  PhpIInv'
<1> USE DEF PhpIInv, Owners
<1>1. ASSUME NEW w \in Workers, PhpStep(w) PROVE PhpIInv'
  BY <1>1, PhpStepTypes, PhpStepEffect, EffectKeepsOwners, PhpStepKeepsTasks
<1>2. ASSUME NEW w \in Workers, Operator(w) PROVE PhpIInv'
  <2>1. /\ Fork(w) \/ SigTerm(w) \/ SigKill(w)
        /\ UNCHANGED tableVars /\ UNCHANGED status
    BY <1>2 DEF Operator, tableVars
  <2>2. NoTaskStranded'
    BY <1>2, SignalKeepsTasks DEF Operator
  <2> QED BY <2>1, <2>2, SignalTypes, SignalEffect, EffectKeepsOwners
<1>3. CASE TableStep /\ UNCHANGED phpVars
  <2>1. TableTypeOK' /\ Forward
    BY <1>3, TableStepTypes, TableStepForward DEF PhpInv
  <2>2. PhpInv' /\ UNCHANGED <<wtype, proc, task>>
    BY <1>3, <2>1 DEF PhpInv, PhpTypeOK, phpVars
  <2> QED BY <1>3, <2>1, <2>2, ForwardKeepsOwners, TableStepKeepsTasks
<1>4. CASE UNCHANGED <<tableVars, phpVars>>
  BY <1>4 DEF PhpInv, TableTypeOK, PhpTypeOK, ClaimsSound, OneOwner, NoTaskStranded,
              Holding, tableVars, phpVars
<1> QED BY <1>1, <1>2, <1>3, <1>4 DEF PhpNext

\* The strengthening of the safety properties is an invariant of workers that anyone
\* may start and signal.
THEOREM WorkersInductive == PhpSpec => []PhpIInv
<1>1. PhpInit => PhpIInv
  BY PhpInitInv
<1>2. PhpIInv /\ [PhpNext]_<<tableVars, phpVars>> => PhpIInv'
  BY PhpNextInv
<1> QED BY <1>1, <1>2, PTL DEF PhpSpec

\* Every variable of the table and of the processes keeps its type.
THEOREM WorkersTyped == PhpSpec => []PhpInv
<1>1. PhpIInv => PhpInv
  BY DEF PhpIInv
<1> QED BY <1>1, WorkersInductive, PTL

\* Who processes a task owns it, and a task has one owner.
LEMMA OwnersExclude ==
    ASSUME OneOwner PROVE NoDoubleProcessing
<1> SUFFICES ASSUME NEW v \in Workers, NEW w \in Workers, NEW t \in Tasks,
                    Holding(v, t), Holding(w, t)
             PROVE  v = w
  BY DEF NoDoubleProcessing
<1> QED BY DEF OneOwner, Holding

\* Run.php:36-37, 196-199: however many workers claim at once, by either path, and
\* with no supervisor to keep them apart, no two live ones process the same task.
THEOREM WorkersExclude == PhpSpec => []NoDoubleProcessing
<1>1. PhpIInv => NoDoubleProcessing
  BY OwnersExclude DEF PhpIInv
<1> QED BY <1>1, WorkersInductive, PTL

\* Run.php:121-125: with pcntl loaded and no crash, every RUNNING row is held by an
\* asynchronous provider or has a live process that will report on it.
THEOREM NothingStranded == PhpSpec => []NoTaskStranded
<1>1. PhpIInv => NoTaskStranded
  BY DEF PhpIInv
<1> QED BY <1>1, WorkersInductive, PTL
=============================================================================
