SPECIFICATION FairLifeSpec
CONSTANTS
  f1 = f1  f2 = f2  f3 = f3
  h = h  c = c  s = s  w1 = w1
  None = None
  Fiber <- MCFiber2
  Entry <- MCEntry2
  Boundary <- MCBoundary2
  PoolSize = 1
  Callback = {c}
  Worker <- MCWorker
  Handlers <- MCHandlers
  Reloading = {TRUE, FALSE}
  FromScript = FALSE
CHECK_DEADLOCK FALSE
PROPERTIES
  ShutdownEnds
