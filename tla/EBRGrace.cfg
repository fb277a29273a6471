\* Three registered threads, none exits.
SPECIFICATION Spec
CONSTANTS
    t1 = t1
    t2 = t2
    t3 = t3
    Threads = {t1, t2, t3}
    PoolSize = 3
    Batch = 1
    MaxEpoch = 2
    o1 = o1
    Objects = {o1}
    NULL = NULL
    Outside = {}
    Forcers = {t1, t2, t3}
    Exiters = {}
SYMMETRY Symmetry
CHECK_DEADLOCK FALSE
INVARIANT NoLivePointerFreed
