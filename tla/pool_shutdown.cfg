CONSTANTS
    Tasks = {1}
    TaskTypes = {1}
    TypeOf <- MCOneType
    Workers = {w1, w2}
    NoTask = NoTask
    AtomicClaim <- MCNextcloud35
    MaxClaimAttempts = 1
    HasPcntl = TRUE
    WorkerTimeout = 300
    MaxTasks <- MCNoLimit
    ExitWhenIdle <- MCNever
    Faults = {"stop", "crash", "db", "exec"}
    NoWorker = NoWorker
    NoType = NoType
    MaxDesired = 1
SPECIFICATION FairPoolSpec
INVARIANTS ShutdownAwaitsRegistered
PROPERTIES ShutdownCompletes CancelledWorkerEnds
CHECK_DEADLOCK FALSE
