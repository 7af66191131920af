CONSTANTS
    w1 = w1  x = x  y = y  j1 = j1  j2 = j2
    NoToken = NoToken
    Retyped = w1
    TypeOf <- JobTypes
    Worker = {w1}
    Capacity <- OneWorkerCapacity
    InitTypes <- OneWorkerBoth
    Job = {j1, j2}
    JobType = {x, y}
    Fenced = {j1, j2}
    Token = {t1, t2}
    Fiber = {f1}
    AutoMode = FALSE
    MaxBatch = 2
    MaxDefects = 0
    Demand <- NoDemand
SPECIFICATION LiveSpec
PROPERTIES DrainEnds AbortEnds ReadyJobIsLeased
CHECK_DEADLOCK FALSE
