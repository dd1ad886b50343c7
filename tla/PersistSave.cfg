SPECIFICATION Spec
CONSTANTS
  None = None
  Clients = {c1, c2}
  Shut = Shut
  NumKeys = 2
  QueueCap = 1
  BatchMax = 2
  AofEnabled = FALSE
  DiskFaults = TRUE
  MaxWrites = 2
  MaxSaves = 2
  MaxStops = 2
INVARIANTS SnapshotWhole OneWriter
PROPERTIES NoStepBack
CHECK_DEADLOCK FALSE
