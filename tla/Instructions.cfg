SPECIFICATION Spec
CONSTANTS
    StartPC <- MCStartPC
    Operands <- MCOperands
    Samples <- MCSamples
    MaxPlaces = 7
INVARIANTS
    InStep
    SameInstruction
    CalculatesNumbers
    FieldOnly
    OrderIsBorrow
    ShiftsKeepTheNumber
    StoredIsRecalled
