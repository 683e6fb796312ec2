SPECIFICATION TransportsSpec
CONSTANTS
  Client = {c1, c2}
  Transports = {"local", "ws"}
  MaxFails = 2
  MaxMsgs = 1
  Http = {h1}
  Sql = {s1, s2}
  Reqs = {r1, r2}
CHECK_DEADLOCK FALSE
INVARIANTS
  EventsMatchRouting
  RequestsInv
PROPERTIES
  ComesBack
  EveryRequestSettles
