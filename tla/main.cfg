CONSTANTS
    Default <- MCDefault
    Rows <- MCRows
    ArgumentSets <- MCArgumentSets
    MaxBusy = 2
    MaxSaves = 2
SPECIFICATION MainSpec
INVARIANTS MainIInv PrecedenceKept RefusedIffIncomplete HostUnderstood ChangeInTime NextPollInForce
PROPERTIES PollsSpaced KeepsCadences
CHECK_DEADLOCK FALSE
