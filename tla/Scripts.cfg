SPECIFICATION ScriptsSpec
CONSTANTS
  Sources = {"signal", "script", "watch", "reload"}
  MaxBuilds = 4
  p1 = p1  p2 = p2  g = g  s1 = s1  s2 = s2
  r1 = r1  r2 = r2  r3 = r3  t1 = t1  t2 = t2
  Req = {r1, r2, r3}
  Raising = {r1}
  Timeout = 2
  Tick = {t1, t2}
  Prom = {p1, p2, g}
  Sub = {s1, s2}
  Throwing = {s1}
  Gather = g
  Inputs <- TwiceInList
CHECK_DEADLOCK FALSE
INVARIANTS
  AppInv
  ServiceInv
  PromiseInv
PROPERTIES
  ReloadEnds
  EveryRequestAnswered
  IsOneShot
  WaitersServed
  NoSilentFailure
