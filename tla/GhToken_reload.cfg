CONSTANTS
    MaxRotations = 2
    MaxTrouble = 2
SPECIFICATION KSpec
PROPERTIES ReloadTakes
CHECK_DEADLOCK FALSE
