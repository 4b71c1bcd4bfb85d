\* Three keys, two of them in one bucket, and a pool of as many nodes as keys, so
\* that freed addresses are used again.
CONSTANTS
    Threads = {t1, t2, t3}
    k1 = k1
    k2 = k2
    k3 = k3
    Keys <- MCKeys
    Values = {v, w}
    Buckets = {0, 1}
    HashOf <- MCHashOf
    Nodes = {n1, n2, n3}
    Null = Null
    MaxCalls = 2
SYMMETRY Symmetry
SPECIFICATION Spec
INVARIANTS
    LocksBucket
    NoUseAfterFree
    ListsWellFormed
PROPERTIES
    ImplementsAtomicMap
