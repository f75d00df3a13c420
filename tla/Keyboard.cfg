SPECIFICATION Spec
CONSTANTS
    Button <- MCButton
    On = 44
    Row <- MCRow
    RowOf <- MCRowOf
    Col <- MCCol
    Repeating <- MCRepeating
    Pointer = {1, 2}
    MaxMoves = 4
INVARIANTS
    MatrixFollows
PROPERTIES
    HeldForOnePoll
    UpReleasesItsKey
    KeysComeUp
