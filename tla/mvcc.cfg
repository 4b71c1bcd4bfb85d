\* Three transactions, each with an id of its own, and slot 0 unused, as in main.
CONSTANTS
    MAX_TX = 4
    Tx = {1, 2, 3}
    Keys = {x, y}
    Values = {v}
    NoValue = NoValue
    ReuseIds = FALSE
    MaxTs = 7
    MaxVersions = 2
SYMMETRY Symmetry
SPECIFICATION Spec
INVARIANTS
    LockExclusion
    NewestFirst
    StallIsReported
    DetectsCycles
CHECK_DEADLOCK FALSE
