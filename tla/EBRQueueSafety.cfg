\* A producer that also consumes and asks empty(), and a consumer; t1 may also
\* force flips and t2 may exit.  The epoch stops at MaxEpoch, so that the model
\* (not the code) can come to a stop.
SPECIFICATION QueueSpec
CONSTANTS
    t1 = t1
    t2 = t2
    Threads = {t1, t2}
    Producers = {t1}
    Consumers = {t1, t2}
    Observers = {t2}
    Live = {}
    d = d
    n1 = n1
    n2 = n2
    Nodes = {d, n1, n2}
    Dummy = d
    NULL = NULL
    v1 = v1
    Values = {v1}
    NoValue = NoValue
    SpuriousFailures = FALSE
    PoolSize = 2
    Batch = 1
    MaxEpoch = 3
    Forcers = {t1}
    Exiters = {t2}
SYMMETRY Symmetry
INVARIANT EpochFrozen
INVARIANT RetiredOnce
CHECK_DEADLOCK FALSE
