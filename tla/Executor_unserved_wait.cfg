CONSTANTS
    u1 = u1
    u2 = u2
    c1 = c1
    c2 = c2
    c3 = c3
    t1 = t1
    t2 = t2
    h1 = h1
    h2 = h2
    Workers = {0, 1}
    Users = {u1}
    NoThread = NoThread
    Calls = {c1}
    Waits = {t1}
    NoTask = NoTask
    Follow <- NoFollow
    Affinity <- AnyWorker
    Submits <- OnlyWaitSubmits
    After <- AfterNothing
    Handles = {h1}
    NoHandle = NoHandle
    Handle <- OneHandle
    Signals <- NoSignals
    Pooled = {}
    External = {h1}
    MayExit = FALSE
SPECIFICATION ExternalFairSpec
PROPERTIES
    AllTasksRetire
CHECK_DEADLOCK FALSE
