CONSTANTS
    w1 = w1  x = x  y = y  j1 = j1  j2 = j2
    NoToken = NoToken
    Retyped = w1
    TypeOf <- JobTypes
    Worker = {w1}
    Capacity <- TwoSlots
    InitTypes <- OneWorkerTypes
    Job = {j1, j2}
    JobType = {x, y}
    Fenced = {j1, j2}
    Token = {t1, t2, t3}
    Fiber = {f1, f2}
    AutoMode = TRUE
    MaxBatch = 2
    MaxDefects = 1
    Demand <- Demands
SYMMETRY Symmetric
SPECIFICATION Spec
INVARIANTS TypeOK SlotsAccounted CarriedOnce HolderRecorded
PROPERTIES DrainInterruptsNothing AbortYieldsHolders
CHECK_DEADLOCK FALSE
