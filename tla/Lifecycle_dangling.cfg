SPECIFICATION LifeSpec
CONSTANTS
  f1 = f1  f2 = f2  f3 = f3
  h = h  c = c  s = s  w1 = w1
  None = None
  Fiber <- MCFiber
  Entry <- MCEntry
  Boundary <- MCBoundary
  PoolSize = 1
  Callback = {}
  Worker <- MCWorker
  Handlers <- MCHandlers
  Reloading = {FALSE}
  FromScript = FALSE
SYMMETRY FiberSymmetry
CHECK_DEADLOCK FALSE
INVARIANTS
  NoDanglingFiber
