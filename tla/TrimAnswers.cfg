SPECIFICATION Spec
CONSTANTS
  None = None
  Keys = {k1, k2}
  Width = 3
  Eager = FALSE
  Scopes <- OnlyLists
  k1 = k1
  k2 = k2
  MaxTime = 2
  Ttls = {0}
  Second = 2
  Deltas <- MCDeltas
  MaxTail = 2
  Elems = {1, 2}
  Indices <- MCIndices
  MaxLen = 3
  Fields = {f1, f2}
INVARIANTS TrimAnswers
CHECK_DEADLOCK FALSE
