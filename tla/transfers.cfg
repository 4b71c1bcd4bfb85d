\* The merge of three files, as in the code; any call may fail.  Four blocks in each
\* benchmark, and a copy in up to nine pieces, the X before, at and behind the end.
CONSTANTS
    MAX_FILES = 3
    Failures = TRUE
    MaxBlocks = 4
    BUFFER_SIZE = 3
    MaxSize = 9
SPECIFICATION MCSpec
INVARIANTS
    OneOperationPerBuffer
    WritesWhatWasRead
    BlocksMoved
    CopyFaithful
PROPERTY MCReturns
CHECK_DEADLOCK FALSE
