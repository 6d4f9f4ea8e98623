CONSTANTS
  t1 = t1
  t2 = t2
  t3 = t3
  g1 = g1
  g2 = g2
  g3 = g3
  Threads <- ThreeThreads
  Guards <- ThreeGuards
  NoThread = NoThread
  NoGuard = NoGuard
SPECIFICATION Spec
INVARIANT Exclusion
CHECK_DEADLOCK FALSE
