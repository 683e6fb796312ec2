CONSTANTS
  Devices = {TRUE, FALSE}
  MaxMsgs = 2
  TxCap = 2
  MaxItems = 3
  Reqs = {"r1", "r2", "r3", "r4"}
  Odd = {"r2"}
  TableMod = 3
  TidMod = 2
  Ticks = 2
  InfoPorts = {TRUE, FALSE}
SPECIFICATION NodeSpec
INVARIANTS EachFrameOnce OwnAnswer
PROPERTIES EveryRequestEnds FlushFollows
CHECK_DEADLOCK FALSE
