CONSTANTS
    Values = {1, 2}
    Default <- MCDefault
    Refused = Refused
    Absent = Absent
    MaxEdits = 2
    MaxSaves = 1
SPECIFICATION SettingsSpec
INVARIANT NoEditLost
CHECK_DEADLOCK FALSE
