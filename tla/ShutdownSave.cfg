SPECIFICATION Spec
CONSTANTS
  None = None
  Clients = {c1, c2}
  Shut = Shut
  NumKeys = 1
  QueueCap = 1
  BatchMax = 2
  AofEnabled = FALSE
  DiskFaults = FALSE
  MaxWrites = 1
  MaxSaves = 1
  MaxStops = 1
INVARIANTS ShutdownSaves
CHECK_DEADLOCK FALSE
