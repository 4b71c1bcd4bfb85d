\* The cache: three nodes for five keys on two chains, so that the evicted node
\* is first, in the middle and last on a chain that others share.  The trees: an
\* insertion into eight nodes recolours at the bottom and rotates above.  The skip
\* list: four nodes on three levels, among them equal numbers of unequal heights.
\* The allocator: six cells, in which the blocks of two owners leave gaps that are
\* too small.  The window: up to five numbers, so that positions expire one by one.
CONSTANTS
    Keys = {1, 2, 3, 4, 5}
    Values = {v, w}
    capacity = 3
    map_size = 2
    Nodes = {n1, n2, n3, n4}
    Null = Null
    MaxNodes = 8
    Numbers = {1, 2, 3}
    Distinct = {1, 2, 3, 4, 5, 6}
    MAX_LEVEL = 3
    Top = Top
    size = 6
    MaxSize = 5
    MaxInput = 6
    IntMax = 3
    TABLE_SIZE = 3
    ULONG_MAX = 999999
    MAX_VAL = 5
    MOD = 3
    LONG_MAX = 1000
    Levels = 4
SYMMETRY Symmetry
VIEW View
SPECIFICATION MCSpec
INVARIANTS
    StructuresAgree
    RedBlack
    TreeSound
    ThirdMaxIsRight
    LevelsNested
    WindowsAreMaxima
    CountsAreRight
    AnswersAreRight
    TreesAreRight
PROPERTIES
    ImplementsLru
    ImplementsMedianStore
    ImplementsBag
    ImplementsBlocks
CHECK_DEADLOCK FALSE
