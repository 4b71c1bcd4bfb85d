\* Runs one after the other, killed at any point, a disk that may fill up, and
\* power losses.
CONSTANTS
    Procs = {p1, p2, p3}
    NoProc = NoProc
    Faults = {"kill", "power", "short"}
    Concurrent = FALSE
SYMMETRY Symmetry
SPECIFICATION Spec
INVARIANTS
    TypeOK
    AckedReplayed
PROPERTY DbUpdated
CHECK_DEADLOCK FALSE
