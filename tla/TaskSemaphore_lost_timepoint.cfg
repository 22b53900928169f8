CONSTANTS
    Waiters = {w1, w2}
    QueueWaiters = {}
    Signalers = {s1}
    Null = Null
    EventCount = 2
    PoolCapacity = 2
    MaxValue = 2
    MaxWaits = 2
    MayFail = FALSE
    MayTimeOut = FALSE
    w1 = w1
    w2 = w2
    s1 = s1
SPECIFICATION Spec
INVARIANTS
    ReachedMeansSignaled
CHECK_DEADLOCK FALSE
