CONSTANTS
    Values = {1, 2}
    Default <- MCDefault
    Refused = Refused
    Absent = Absent
    MaxEdits = 3
    MaxSaves = 2
SPECIFICATION SettingsSpec
INVARIANTS SettingsIInv EditsStored
PROPERTIES SwitchedOnComplete EditTakesEffect
CHECK_DEADLOCK FALSE
