\* Three threads, two slots: slots run out and are reused; every thread retires,
\* forces and exits.
SPECIFICATION Spec
CONSTANTS
    t1 = t1
    t2 = t2
    t3 = t3
    Threads = {t1, t2, t3}
    PoolSize = 2
    Batch = 1
    MaxEpoch = 3
    o1 = o1
    Objects = {o1}
    NULL = NULL
    Outside = {}
    Forcers = {t1, t2, t3}
    Exiters = {t1, t2, t3}
SYMMETRY Symmetry
INVARIANT EbrTypeOK
INVARIANT RegistryConsistent
INVARIANT ScanSeesPins
INVARIANT OneFlipPerEpoch
CHECK_DEADLOCK FALSE
