CONSTANTS
    Tasks = {1}
    TaskTypes = {1}
    TypeOf <- MCOneType
    Workers = {w1}
    NoTask = NoTask
    AtomicClaim <- MCNextcloud35
    MaxClaimAttempts = 1
    HasPcntl = TRUE
    WorkerTimeout = 300
    MaxTasks <- MCNoLimit
    ExitWhenIdle <- MCNever
    Faults = {"stop", "switch", "restart"}
    NoWorker = NoWorker
    NoType = NoType
    MaxDesired = 4
    Configs <- MCSwitchable
SPECIFICATION FairSupSpec
PROPERTIES ScheduledTaskTaken DisabledDrains SupervisorStops
CHECK_DEADLOCK FALSE
