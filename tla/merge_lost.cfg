\* Two files that exist, and a disk that does not fail.
CONSTANTS
    MAX_FILES = 2
    Failures = FALSE
SPECIFICATION Spec
INVARIANT EveryFileMerged
CHECK_DEADLOCK FALSE
