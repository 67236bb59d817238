CONSTANTS
    Tasks = {1, 2}
    TaskTypes = {1, 2}
    TypeOf <- MCTypeOf
    Workers = {w1, w2}
    NoTask = NoTask
    AtomicClaim <- MCNextcloud35
    MaxClaimAttempts = 1
    HasPcntl = TRUE
    WorkerTimeout = 0
    MaxTasks <- MCNoLimit
    ExitWhenIdle <- MCNever
    Faults = {"stop"}
    NoWorker = NoWorker
    NoType = NoType
    MaxDesired = 4
    Configs <- MCMaxChanges
SPECIFICATION SupSpec
INVARIANTS SupIInv
PROPERTIES GrowthWithinMax ImplementsPool
SYMMETRY SlotSymmetry
CHECK_DEADLOCK FALSE
