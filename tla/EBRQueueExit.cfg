\* The same client, but one of the two threads may exit.
SPECIFICATION QueueSpec
CONSTANTS
    t1 = t1
    t2 = t2
    Threads = {t1, t2}
    Producers = {t1}
    Consumers = {t1, t2}
    Observers = {t2}
    Live = {}
    d = d
    n1 = n1
    n2 = n2
    n3 = n3
    Nodes = {d, n1, n2, n3}
    Dummy = d
    NULL = NULL
    v1 = v1
    Values = {v1}
    NoValue = NoValue
    SpuriousFailures = FALSE
    PoolSize = 2
    Batch = 1
    MaxEpoch = 3
    Forcers = {}
    Exiters = {t2}
SYMMETRY Symmetry
INVARIANT NoUseAfterFree
CHECK_DEADLOCK FALSE
