CONSTANTS
    Threads = {t1, t2, t3}
    LockBit = 4
SPECIFICATION FairSpec
INVARIANTS
    MutualExclusion
    ValueCountsThreads
    NoLostWakeup
PROPERTIES
    SomeoneAcquires
