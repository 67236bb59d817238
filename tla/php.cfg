CONSTANTS
    Tasks = {1, 2}
    TaskTypes = {1}
    TypeOf <- MCOneType
    Workers = {w1, w2}
    Stayer = w1
    NoTask = NoTask
    AtomicClaim <- MCUpgrade
    MaxClaimAttempts = 2
    HasPcntl = TRUE
    WorkerTimeout = 0
    MaxTasks <- MCMaxTasks
    ExitWhenIdle <- MCExitWhenIdle
    Faults = {"boot", "db", "cancel", "switch", "lookup"}
SPECIFICATION PhpSpec
INVARIANTS PhpIInv NoDoubleProcessing NoTaskStranded
PROPERTIES SignalStops PolledTaskLeavesQueue
CHECK_DEADLOCK FALSE
