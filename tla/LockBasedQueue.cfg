\* Three threads, four calls: enqueues and dequeues that meet at the mutex, an
\* observer, and one thread whose copies may throw.
SPECIFICATION WrapperSpec
CONSTANTS
    t1 = t1
    t2 = t2
    t3 = t3
    Threads = {t1, t2, t3}
    Producers = {t1, t3}
    Consumers = {t2, t3}
    Observers = {t2}
    Throwers = {t3}
    v1 = v1
    v2 = v2
    Values = {v1, v2}
    NoValue = NoValue
    NULL = NULL
    MaxCalls = 4
INVARIANT TypeOK
INVARIANT MutexHeld
INVARIANT RateIsFraction
PROPERTY Linearizable
PROPERTY OperationsReturn
CHECK_DEADLOCK FALSE
