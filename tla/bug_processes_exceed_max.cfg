CONSTANTS
    Tasks = {1, 2}
    TaskTypes = {1, 2}
    TypeOf <- MCTypeOf
    Workers = {w1, w2}
    NoTask = NoTask
    AtomicClaim <- MCNextcloud35
    MaxClaimAttempts = 1
    HasPcntl = TRUE
    WorkerTimeout = 0
    MaxTasks <- MCNoLimit
    ExitWhenIdle <- MCNever
    Faults = {}
    NoWorker = NoWorker
    NoType = NoType
    MaxDesired = 4
    Configs <- MCOne
SPECIFICATION SupSpec
INVARIANT BusyWithinMax
SYMMETRY SlotSymmetry
CHECK_DEADLOCK FALSE
