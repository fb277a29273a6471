\* Three threads, one of which uses Guards, and two entries of the table: threads
\* register during the scans of others, and one of them finds no entry left.  Four
\* flips, so that a bucket comes up for reclamation twice.
SPECIFICATION Spec
CONSTANTS
    t1 = t1
    t2 = t2
    t3 = t3
    Threads = {t1, t2, t3}
    Readers = {t1}
    MaxThreads = 2
    Batch = 1
    MaxEpoch = 4
    o1 = o1
    o2 = o2
    o3 = o3
    o4 = o4
    Objects = {o1, o2, o3, o4}
    NULL = NULL
SYMMETRY Symmetry
INVARIANT TypeOK
INVARIANT RegisteredVisible
INVARIANT ScanSeesPins
INVARIANT OneFlipPerEpoch
PROPERTY ReclaimComplete
CHECK_DEADLOCK FALSE
