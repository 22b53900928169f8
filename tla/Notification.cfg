CONSTANTS
    Waiters = {w1, w2}
    Posters = {p1, p2}
    Builds = {TRUE, FALSE}
    EpochMod = 8
    MaxPosts = 3
SPECIFICATION FairSpec
INVARIANTS
    NoSleeperLeftBehind
PROPERTIES
    FutexAwaitReturns
