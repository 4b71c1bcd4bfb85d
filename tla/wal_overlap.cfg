\* Two writers at once.
CONSTANTS
    Procs = {p1, p2}
    NoProc = NoProc
    Faults = {}
    Concurrent = TRUE
SYMMETRY Symmetry
SPECIFICATION Spec
INVARIANT ReportedIsApplied
CHECK_DEADLOCK FALSE
