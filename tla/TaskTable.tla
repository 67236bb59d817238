------------------------------ MODULE TaskTable ------------------------------
(***************************************************************************)
(* The queue table oc_taskprocessing_tasks, the one thing the supervisor,  *)
(* its PHP workers and the rest of Nextcloud share.  The rows are written  *)
(* by Nextcloud's task processing Manager, which is not part of this       *)
(* repository: the steps of users and of asynchronous providers are        *)
(* modelled from how the supervisor's comments and queries rely on them.   *)
(* The queries are the ones of internal/db/db.go.                          *)
(***************************************************************************)
EXTENDS Naturals, FiniteSets

CONSTANTS
    Tasks,      \* the task ids; their order is the order of scheduling
    TaskTypes,  \* the task type ids; their order is the order of the strings
    TypeOf      \* the type of each task

ASSUME TableAssumption ==
    /\ Tasks \subseteq Nat
    /\ TaskTypes \subseteq Nat
    /\ TypeOf \in [Tasks -> TaskTypes]

VARIABLES
    status,     \* the status column of each row, "absent" before it exists
    syncTypes,  \* the types whose preferred provider is synchronous
    asyncHeld   \* the tasks an asynchronous provider is working on

tableVars == <<status, syncTypes, asyncHeld>>

Statuses == {"absent", "scheduled", "running", "successful", "failed", "cancelled"}

TableTypeOK ==
    /\ status \in [Tasks -> Statuses]
    /\ syncTypes \subseteq TaskTypes
    /\ asyncHeld \subseteq Tasks

InitTable(sync) ==
    /\ status = [t \in Tasks |-> "absent"]
    /\ syncTypes = sync
    /\ asyncHeld = {}

-----------------------------------------------------------------------------
(* The queries of internal/db/db.go.                                        *)

RowsOf(ty, st) == {t \in Tasks : TypeOf[t] = ty /\ status[t] = st}

\* GetQueueStats: one GROUP BY query, so both counts are of the same instant.
QueueStats ==
    [ty \in TaskTypes |-> [scheduled |-> Cardinality(RowsOf(ty, "scheduled")),
                           running   |-> Cardinality(RowsOf(ty, "running"))]]

\* Seeded fault: the query without its status condition.
RunningTaskIDsMutant(ty) == RowsOf(ty, "running") \cup RowsOf(ty, "scheduled")

\* The ids of one SELECT.
RunningTaskIDs(ty) == RowsOf(ty, "running")

\* Seeded fault: IN for NOT IN.
FailRunningTasksMutant(ty, exclude) ==
    [t \in Tasks |-> IF t \in RowsOf(ty, "running") \cap exclude
                     THEN "failed" ELSE status[t]]

\* FailRunningTasks, as the status column after the UPDATE.
FailRunningTasks(ty, exclude) ==
    [t \in Tasks |-> IF t \in RowsOf(ty, "running") \ exclude
                     THEN "failed" ELSE status[t]]

\* The oldest scheduled row of a type, those in ignored left out: what
\* getNextScheduledTask and claimNextScheduledTask select.
IsNextScheduled(t, ty, ignored) ==
    LET candidates == RowsOf(ty, "scheduled") \ ignored
    IN  t \in candidates /\ \A u \in candidates : t <= u

\* Seeded fault: a claim may report an empty queue that is not.
NothingScheduledMutant(ty, ignored) == TRUE

NothingScheduled(ty, ignored) == RowsOf(ty, "scheduled") \subseteq ignored

-----------------------------------------------------------------------------
(* Users, administrators and asynchronous providers.                        *)

Schedule(t) ==
    /\ status[t] = "absent"
    /\ status' = [status EXCEPT ![t] = "scheduled"]
    /\ UNCHANGED <<syncTypes, asyncHeld>>

CancelTask(t) ==
    /\ status[t] \in {"scheduled", "running"}
    /\ status' = [status EXCEPT ![t] = "cancelled"]
    /\ UNCHANGED <<syncTypes, asyncHeld>>

\* A task of a type with an asynchronous provider is RUNNING with no worker of
\* the supervisor behind it.
AsyncClaim(t) ==
    /\ status[t] = "scheduled"
    /\ TypeOf[t] \notin syncTypes
    /\ status' = [status EXCEPT ![t] = "running"]
    /\ asyncHeld' = asyncHeld \cup {t}
    /\ UNCHANGED syncTypes

AsyncFinish(t) ==
    /\ t \in asyncHeld
    /\ asyncHeld' = asyncHeld \ {t}
    /\ \E outcome \in {"successful", "failed"} :
          status' = IF status[t] = "running"
                    THEN [status EXCEPT ![t] = outcome] ELSE status
    /\ UNCHANGED syncTypes

\* An administrator changes the preferred provider of a type.
SwitchProvider(ty) ==
    /\ syncTypes' = IF ty \in syncTypes THEN syncTypes \ {ty} ELSE syncTypes \cup {ty}
    /\ UNCHANGED <<status, asyncHeld>>
=============================================================================
