CONSTANTS
    Instance = {w1, w2}
    Job = {j1, j2}
    NoJob = NoJob
    MaxUpdates = 3
    Plan = {p}
    MaxCreates = 2
    MaxInFlight = 1
    BufferMax = 1
    MaxPending = 1
    MaxChunks = 1
    TerminalMax = 2
    MaxRotations = 1
    MaxTrouble = 1
    Place = {p1, p2}
    NoPlace = NoPlace
    MaxChanges = 4
SPECIFICATION HostSpec
INVARIANTS HostTypes ClaimsAreRuns Conservation
PROPERTIES InstanceIsShown HandsBack NoResurrection RotationIsSeen ColdStartHeals
CHECK_DEADLOCK FALSE
