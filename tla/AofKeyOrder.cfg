SPECIFICATION Spec
CONSTANTS
  None = None
  Clients = {c1, c2}
  Shut = Shut
  NumKeys = 1
  QueueCap = 1
  BatchMax = 2
  AofEnabled = TRUE
  DiskFaults = FALSE
  MaxWrites = 2
  MaxSaves = 0
  MaxStops = 0
INVARIANTS KeyOrder
CHECK_DEADLOCK FALSE
