SPECIFICATION FairFibersSpec
CONSTANTS
  f1 = f1  f2 = f2
  e1 = e1  e2 = e2  e3 = e3  e4 = e4
  None = None
  Fiber <- MCFiber
  Entry <- MCEntry
  Boundary <- MCBoundary
  PoolSize = 1
INVARIANTS
  FibersInv
  LiveEntriesPlaced
PROPERTIES
  StopIsClean
  StopReturns
  ResumeServed
