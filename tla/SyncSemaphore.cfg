SPECIFICATION FairSpec
CONSTANTS
    t1 = t1
    t2 = t2
    t3 = t3
    s1 = s1
    s2 = s2
    s3 = s3
    Threads = {t1, t2, t3}
    Semaphores = {s1, s2, s3}
    FailureValue = 9
    Programs <- APrograms
INVARIANT StatusFaithful
PROPERTY SignaledWaitsReturn
CHECK_DEADLOCK FALSE
