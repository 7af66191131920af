CONSTANTS
    Run = {1, 2}
    Key = {1, 2}
    MaxEdits = 1
    MaxFaults = 1
    MaxAge = 1
SPECIFICATION Spec
PROPERTIES PushesKeep KeepsWork
CHECK_DEADLOCK FALSE
