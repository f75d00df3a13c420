SPECIFICATION Spec
CONSTANTS
    Setting1 = {0}
    Setting2 = {0, 128, 256}
    MaxEpoch = 2
    MaxMoves = 2
INVARIANT ResetResets
CHECK_DEADLOCK FALSE
