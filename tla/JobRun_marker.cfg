CONSTANTS
    Activation = {1, 2}
SPECIFICATION JSpec
INVARIANTS HarnessIsMarked
CHECK_DEADLOCK FALSE
