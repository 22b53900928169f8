CONSTANTS
    Waiters = {w1, w2}
    QueueWaiters = {w2}
    Signalers = {s1, s2}
    Null = Null
    EventCount = 2
    PoolCapacity = 1
    MaxValue = 3
    MaxWaits = 2
    MayFail = TRUE
    MayTimeOut = TRUE
    w1 = w1
    w2 = w2
    s1 = s1
    s2 = s2
SPECIFICATION FairSpec
INVARIANTS
    EventsConserved
    OkMeansReachedOrFailed
    FoundWhenReached
PROPERTIES
    ReachedWaitersReturn
CHECK_DEADLOCK FALSE
