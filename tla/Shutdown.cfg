SPECIFICATION Spec
CONSTANTS
    NR_RSTK = 1
    IntVector = 1
    Addr <- MCAddr
    Button <- MCButton
    On = 44
    Row <- MCRow
    RowOf <- MCRowOf
    Col <- MCCol
    Repeating <- MCRepeating
    T1Ctrl <- MCT1Ctrl
    T2Ctrl <- MCT2Ctrl
    MaxQueue = 2
INVARIANTS
    AsleepUntouched
PROPERTIES
    WakesOnce
    OnWakes
    StopEnds
