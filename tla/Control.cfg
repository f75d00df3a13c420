SPECIFICATION Spec
CONSTANTS
    NR_RSTK = 3
    IntVector = 2
    Addr <- MCAddr
    InstrLen <- MCInstrLen
INVARIANTS
    TypeOK
    PendingOnlyWhileDisabled
    FrameIntact
PROPERTIES
    RtiResumes
    PendingServiced
    ImplementsCallStack
