SPECIFICATION Spec
CONSTANTS
  None = None
  a = a
  b = b
  c = c
  Threads = {t1, t2, t3}
  NumShards = 3
  Keys = {a, b, c}
  ShardOf <- MCShardOf
  WrongKeys = {c}
  Members = {m1}
  MaxCommands = 1
INVARIANTS TypeOK LocksMatch WaitsClimb MemberOnce ReadersSeeWholeMoves
PROPERTY EveryCommandEnds
CHECK_DEADLOCK FALSE
