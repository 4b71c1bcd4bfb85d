\* A queue of two slots, which wraps around within the six items: every thread meets
\* the full and the empty queue, and wakeups may be spurious.
CONSTANTS
    Producers = {p1, p2}
    Consumers = {c1, c2}
    QUEUE_SIZE = 2
    ITEMS_PER_PRODUCER = 3
    SpuriousWakeups = TRUE
    NoThread = NoThread
    NoItem = NoItem
SPECIFICATION FairSpec
INVARIANTS
    RingConsistent
    NoLostWakeup
    LossBounded
PROPERTIES
    ImplementsFifo
    MainReturns
