CONSTANTS
    Waiters = {w1, w2}
    Posters = {p1}
    Builds = {FALSE}
    EpochMod = 8
    MaxPosts = 1
SPECIFICATION FairSpec
PROPERTIES
    AwaitReturns
