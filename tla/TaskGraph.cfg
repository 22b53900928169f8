SPECIFICATION FairSpec
CONSTANTS
    a = a
    b = b
    c = c
    d = d
    e1 = e1
    f = f
    i = i
    r = r
    s1 = s1
    s2 = s2
    w = w
    NoTask = NoTask
    NoProc = NoProc
    Coordinator = Coordinator
    User = User
    Workers = {w1, w2}
    TileFails = {}
    Tasks <- SubmissionTasks
    Type <- SubmissionType
    Completion <- SubmissionCompletion
    Dependents <- SubmissionDependents
    Spawns <- SubmissionSpawns
INVARIANT PendingExact
INVARIANT NoTaskForgotten
INVARIANT ScopeIdleMeansReleased
PROPERTY EnqueuedFromNoList
PROPERTY ImplementsTaskOrder
PROPERTY AllTasksRetire
