\* The words by a table of the real size.  The hash value of three letters is below
\* 2^31, so that it is the one the program computes.
CONSTANTS
    Keys = {1, 2, 3, 4, 5}
    Values = {v, w}
    capacity = 3
    map_size = 2
    Nodes = {n1, n2, n3, n4}
    Null = Null
    MaxNodes = 8
    Numbers = {1, 2, 3}
    Distinct = {1, 2, 3, 4, 5, 6}
    MAX_LEVEL = 3
    Top = Top
    size = 6
    MaxSize = 5
    MaxInput = 6
    IntMax = 3
    TABLE_SIZE = 1007
    ULONG_MAX = 2147483646
    MAX_VAL = 5
    MOD = 3
    LONG_MAX = 1000
    Levels = 4
SPECIFICATION MCSpec
INVARIANT GroupedBySortedKey
CHECK_DEADLOCK FALSE
