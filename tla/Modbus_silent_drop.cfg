SPECIFICATION ModbusSpec
CONSTANTS
  m1 = m1  m2 = m2  ra = ra  rb = rb
  Master = {m1}
  Reg = {ra, rb}
  MaxWrites = 3
  MaxReads = 1
  Overflow = "pop_first"
  Retries = 1
  MaxValues = 2
CHECK_DEADLOCK FALSE
INVARIANTS
  RemovedIsTold
