SPECIFICATION Spec
CONSTANTS
    Setting1 = {0}
    Setting2 = {0, 128, 256}
    MaxEpoch = 2
    MaxMoves = 3
PROPERTIES
    RestartRestores
    NeverErased
    PortsAsSet
CHECK_DEADLOCK FALSE
