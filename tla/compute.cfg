CONSTANTS
    TaskTypes = {1, 2, 3}
    MaxScheduled = 3
    MaxRunning = 1
    MaxWorkersPerType = 1
    MaxValues <- MCMaxValues
SPECIFICATION ComputeSpec
INVARIANTS ComputeIInv ResultIsAPlan BudgetUsedInFull NoWorkerWithoutTask NoTypeStarved MoreWorkNotFewerWorkers OneRoundSuffices
PROPERTIES ComputeTerminates
CHECK_DEADLOCK FALSE
