\* One consumer; a second thread enqueues, asks empty(); either may exit,
\* and once both have the system is at rest.
SPECIFICATION QueueSpec
CONSTANTS
    t1 = t1
    t2 = t2
    Threads = {t1, t2}
    Producers = {t2}
    Consumers = {t1}
    Observers = {t2}
    Live = {}
    d = d
    n1 = n1
    n2 = n2
    n3 = n3
    n4 = n4
    Nodes = {d, n1, n2, n3, n4}
    Dummy = d
    NULL = NULL
    v1 = v1
    Values = {v1}
    NoValue = NoValue
    SpuriousFailures = FALSE
    SlotCount = 2
    ScanAt = 1
    Reserved = Reserved
    Exiters = {t1, t2}
SYMMETRY Symmetry
INVARIANT OwnSlotProtects
INVARIANT FreedOnce
INVARIANT RetiredBounded
INVARIANT LostOnlyByExit
CHECK_DEADLOCK FALSE
