\* Two live threads and one that may stop anywhere; two enqueues, one value.
SPECIFICATION LiveSpec
CONSTANTS
    t1 = t1
    t2 = t2
    t3 = t3
    Threads = {t1, t2, t3}
    Producers = {t1, t3}
    Consumers = {t2, t3}
    Observers = {}
    Live = {t1, t2}
    d = d
    n1 = n1
    n2 = n2
    Nodes = {d, n1, n2}
    Dummy = d
    NULL = NULL
    v1 = v1
    Values = {v1}
    NoValue = NoValue
    SpuriousFailures = FALSE
PROPERTY OperationsReturn
