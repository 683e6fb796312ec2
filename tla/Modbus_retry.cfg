SPECIFICATION FairModbusSpec
CONSTANTS
  m1 = m1  m2 = m2  ra = ra  rb = rb
  Master = {m1, m2}
  Reg = {ra, rb}
  MaxWrites = 2
  MaxReads = 1
  Overflow = "pop_first"
  Retries = 2
  MaxValues = 2
CHECK_DEADLOCK FALSE
INVARIANTS
  ModbusInv
PROPERTIES
  NoStaleWrite
  WritesDrain
