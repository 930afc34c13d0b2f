SPECIFICATION Spec
CONSTANTS
  t1 = t1
  t2 = t2
  t3 = t3
  hA = hA
  hB = hB
  w = w
  None = None
  Groups <- MCGroups
  Names = {hA, hB}
  OptMaxRetry = 1
  PoolSize = 3
  Tasks = {t1, t2, t3}
  Servers = {1, 2}
  Waiters = {}
  Request <- MCRequest
  MaxWorkers = 2
INVARIANTS OnePlace NothingLost CallsBounded SlotsAccounted GroupLimit NeverEarly
PROPERTIES ImplementsLifecycle
