CONSTANTS
    Interval = 2
    Timeout = 2
    Window = 6
    InitialLock = 2
    MaxTime = 24
    MaxCommits = 1
    MaxFaults = 1
    Activation = {1, 2}
    Idle = 1
    Probe = 1
    Resolution = 2
    Grace = 1
    HardCap = 3
    MaxUpdates = 1
    Job = {1, 2}
    MaxSaid = 1
    MaxTyped = 1
    Worker = {w1, w2, w3}
    MaxRuns = 2
    ReapAge = 1
    Child = {1, 2}
    Cap = 2
    MaxLine = 3
    MaxWritten = 4
    MaxLogFaults = 2
SPECIFICATION JobSpec
SYMMETRY Workers
INVARIANTS JobTypes OverrunBounded NothingLost OffTheBase GhostIsNewest LeavesNothing
    IdleKillIsFair OkIsEarned NoFalseCompletion CloseIsTerminal LogIsATail
PROPERTIES BlipTolerated AbortYields NeverUnderUse
CHECK_DEADLOCK FALSE
