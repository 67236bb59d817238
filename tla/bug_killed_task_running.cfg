CONSTANTS
    Tasks = {1, 2}
    TaskTypes = {1}
    TypeOf <- MCOneType
    Workers = {w1, w2}
    NoTask = NoTask
    AtomicClaim <- MCNextcloud35
    MaxClaimAttempts = 1
    HasPcntl = TRUE
    WorkerTimeout = 300
    MaxTasks <- MCNoLimit
    ExitWhenIdle <- MCNever
    Faults = {"stop"}
    NoWorker = NoWorker
    NoType = NoType
    MaxDesired = 2
SPECIFICATION PoolSpec
INVARIANT KilledTaskFailed
SYMMETRY SlotSymmetry
CHECK_DEADLOCK FALSE
