\* A producer that also consumes, and a consumer that may exit; every retirement
\* tries to reclaim, and the second failure in a row is a stall.
SPECIFICATION QueueSpec
CONSTANTS
    t1 = t1
    t2 = t2
    Threads = {t1, t2}
    Producers = {t1}
    Consumers = {t1, t2}
    Observers = {}
    Live = {}
    d = d
    n1 = n1
    n2 = n2
    n3 = n3
    Nodes = {d, n1, n2, n3}
    Dummy = d
    NULL = NULL
    v1 = v1
    Values = {v1}
    NoValue = NoValue
    SpuriousFailures = FALSE
    PoolSize = 2
    Batch = 1
    MaxEpoch = 1
    SlotCount = 2
    ScanAt = 1
    Reserved = Reserved
    b1 = b1
    Blanks = {b1}
    StallLimit = 2
    Exiters = {t2}
SYMMETRY Symmetry
INVARIANT HybridTypeOK
INVARIANT NothingReclaimed
INVARIANT SwitchReachesAll
INVARIANT RetiredOnce
CHECK_DEADLOCK FALSE
