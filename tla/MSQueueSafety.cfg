\* Three threads, each calling every operation; three enqueues, two values.
SPECIFICATION Spec
CONSTANTS
    t1 = t1
    t2 = t2
    t3 = t3
    Threads = {t1, t2, t3}
    Producers = {t1, t2, t3}
    Consumers = {t1, t2, t3}
    Observers = {t1, t2, t3}
    Live = {}
    d = d
    n1 = n1
    n2 = n2
    n3 = n3
    Nodes = {d, n1, n2, n3}
    Dummy = d
    NULL = NULL
    v1 = v1
    v2 = v2
    Values = {v1, v2}
    NoValue = NoValue
    SpuriousFailures = TRUE
SYMMETRY Symmetry
INVARIANT TypeOK
INVARIANT OneList
INVARIANT TailBetween
INVARIANT LocalsStayValid
PROPERTY LinkedOnce
PROPERTY Linearizable
