CONSTANTS
    a = a  b = b  a1 = a1  a2 = a2  b1 = b1
    NoObj = NoObj  NoChild = NoChild
    Obj = {a1, a2, b1}
    Id = {a, b}
    IdOf <- Names
    InitFleet = {a1}
    Child = {c1, c2, c3}
    DrainRemove = TRUE
    MaxRequests = 2
SYMMETRY Symmetric
SPECIFICATION Spec
INVARIANTS ChildrenAccounted StoppingIsAttended
PROPERTY ExitLeavesNone
CHECK_DEADLOCK FALSE
