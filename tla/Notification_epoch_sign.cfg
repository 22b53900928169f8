CONSTANTS
    Waiters = {w1, w2}
    Posters = {p1}
    Builds = {TRUE}
    EpochMod = 4
    MaxPosts = 2
SPECIFICATION FairSpec
PROPERTIES
    CommitWaitsForPost
