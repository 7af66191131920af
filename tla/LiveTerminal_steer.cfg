CONSTANTS
    Job = {1, 2}
    MaxSaid = 1
    MaxTyped = 0
SPECIFICATION TSpec
INVARIANTS SinkDiesWithSession
CHECK_DEADLOCK FALSE
