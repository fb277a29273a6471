\* Two consumers, one of which also enqueues; nobody exits.
SPECIFICATION QueueSpec
CONSTANTS
    t1 = t1
    t2 = t2
    Threads = {t1, t2}
    Producers = {t2}
    Consumers = {t1, t2}
    Observers = {}
    Live = {}
    d = d
    n1 = n1
    n2 = n2
    n3 = n3
    n4 = n4
    Nodes = {d, n1, n2, n3, n4}
    Dummy = d
    NULL = NULL
    v1 = v1
    Values = {v1}
    NoValue = NoValue
    SpuriousFailures = FALSE
    SlotCount = 2
    ScanAt = 1
    Reserved = Reserved
    Exiters = {}
SYMMETRY Symmetry
INVARIANT OwnSlotProtects
