SPECIFICATION FairSpec
CONSTANTS
    a = a
    b = b
    c = c
    d = d
    e1 = e1
    f = f
    i = i
    r = r
    s1 = s1
    s2 = s2
    w = w
    NoTask = NoTask
    NoProc = NoProc
    Coordinator = Coordinator
    User = User
    Workers = {w1, w2}
    TileFails = {s2}
    Tasks <- DispatchTasks
    Type <- DispatchType
    Completion <- DispatchCompletion
    Dependents <- DispatchDependents
    Spawns <- DispatchSpawns
CHECK_DEADLOCK FALSE
PROPERTY ScopeBecomesIdle
