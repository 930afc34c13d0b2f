SPECIFICATION LiveSpec
CONSTANTS
  t1 = t1
  t2 = t2
  t3 = t3
  hA = hA
  hB = hB
  None = None
  Groups <- MCGroups
  Names = {hA}
  OptMaxRetry = 1
  PoolSize = 3
  Tasks = {t1, t2}
  Servers = {1}
  Waiters = {w}
  w = w
  Request <- MCRequest
  MaxWorkers = 1
INVARIANTS WaitCovers
PROPERTIES EventuallySettles WaitEnds
