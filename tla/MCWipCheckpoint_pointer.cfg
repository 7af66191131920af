CONSTANTS
    Run = {1}
    Key = {1}
    MaxEdits = 1
    MaxFaults = 0
    MaxAge = 0
SPECIFICATION Spec
PROPERTIES PointerYieldsToOthers
CHECK_DEADLOCK FALSE
