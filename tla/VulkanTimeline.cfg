SPECIFICATION Spec
CONSTANTS
  t1 = t1
  t2 = t2
  b1 = b1
  b2 = b2
  b3 = b3
  x = x
  y = y
  Threads = {t1, t2}
  Sems = {x, y}
  Batches = {b1, b2, b3}
  Fences = {f1, f2, f3}
  Points = {1, 2, 3}
  NumQueues = 2
  BatchQueue <- MCQueue
  BatchWaits <- MCWaits
  BatchSignals <- MCSignals
  HostSignals <- MCHostSignals
  HostWaits <- MCHostWaits
  IdleModes = {"infinite", "deadline"}
  HostFails = {x}
  DeviceFails = TRUE
  MaxCalls = 5
  Inf = 9
  NoFence = NoFence
  NoThread = NoThread
  NoCall = NoCall
SYMMETRY Symmetry
INVARIANTS StartsAfterWaits ValueWasReached PooledFencesAtRest InfiniteWaitIdleMeansDone
CHECK_DEADLOCK FALSE
