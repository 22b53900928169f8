SPECIFICATION FairSpec
CONSTANT MaxTasks = 7
INVARIANT BarriersRespected
INVARIANT NoNeedlessWait
PROPERTY ReachesRetire
CHECK_DEADLOCK FALSE
