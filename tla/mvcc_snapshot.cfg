\* Reads and the refinement: a reader beside two writers of one key, with two values
\* so that an older version differs from the newest, and two keys so that half a
\* commit shows.
CONSTANTS
    MAX_TX = 4
    Tx = {1, 2, 3}
    Keys = {x, y}
    Values = {v, w}
    NoValue = NoValue
    ReuseIds = FALSE
    MaxTs = 7
    MaxVersions = 2
SYMMETRY Symmetry
SPECIFICATION DataSpec
INVARIANT ReadsSnapshot
PROPERTY ImplementsSnapshotStore
CHECK_DEADLOCK FALSE
