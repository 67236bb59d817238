CONSTANTS
    Tasks = {1}
    TaskTypes = {1, 2}
    TypeOf <- MCTypeOf
    Workers = {w1, w2}
    NoTask = NoTask
    AtomicClaim <- MCNextcloud34
    MaxClaimAttempts = 1
    HasPcntl = TRUE
    WorkerTimeout = 300
    MaxTasks <- MCNoLimit
    ExitWhenIdle <- MCNever
    Faults = {"hang", "crash", "cancel", "lookup", "restart"}
    NoWorker = NoWorker
    NoType = NoType
    MaxDesired = 1
SPECIFICATION PoolSpec
INVARIANTS PoolIInv RegistryIsLive NoDoubleProcessing OwnTaskNotExcluded CleanupComplete
PROPERTIES UnworkableNotStarted
SYMMETRY SlotSymmetry
CHECK_DEADLOCK FALSE
