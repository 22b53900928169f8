SPECIFICATION FairSpec
CONSTANTS
    b1 = b1
    b2 = b2
    b3 = b3
    q1 = q1
    q2 = q2
    s1 = s1
    s2 = s2
    u1 = u1
    u2 = u2
    NoTask = NoTask
    Users = {u1, u2}
    Batches = {b1, b2, b3}
    Queues = {q1, q2}
    Semaphores = {s1, s2}
    Queue <- AQueue
    Waits <- AWaits
    Signals <- ASignals
    Commands <- ACommands
    Programs <- APrograms
    Continued = {b1}
    AllocFails = TRUE
INVARIANT BatchOrder
INVARIANT ArenaOutlivesTasks
INVARIANT IdleMeansFinished
PROPERTY QueuesDrain
CHECK_DEADLOCK FALSE
