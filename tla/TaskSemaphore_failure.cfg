CONSTANTS
    Waiters = {w1}
    QueueWaiters = {}
    Signalers = {s1}
    Null = Null
    EventCount = 1
    PoolCapacity = 1
    MaxValue = 2
    MaxWaits = 1
    MayFail = TRUE
    MayTimeOut = FALSE
    w1 = w1
    s1 = s1
SPECIFICATION Spec
INVARIANTS
    OkMeansReached
CHECK_DEADLOCK FALSE
