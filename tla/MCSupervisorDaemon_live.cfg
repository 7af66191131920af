CONSTANTS
    a = a  b = b  a1 = a1  a2 = a2  b1 = b1
    NoObj = NoObj  NoChild = NoChild
    Obj = {a1}
    Id = {a}
    IdOf <- Single
    InitFleet = {a1}
    Child = {c1, c2}
    DrainRemove = TRUE
    MaxRequests = 2
SPECIFICATION LiveSpec
PROPERTIES ReloadEnds ShutdownEnds ForcedStopEnds OrphansReaped
CHECK_DEADLOCK FALSE
