SPECIFICATION Spec
\* The server rests once every client has gone.
CHECK_DEADLOCK FALSE
CONSTANTS
    Conns = {"a", "b"}
    Programs <- MCPrograms
    Keys = {"x", "y"}
    DbCount = 2
    Channels = {"n"}
    Capacity = 2
    Body <- MCBody
    MemTotal = 10
    MemBase = 1
    Threshold = 60
    Persist = TRUE
INVARIANT TypeOK
INVARIANT NoReplyHeldBack
INVARIANT OneReplyEach
INVARIANT PublishKept
INVARIANT SmallScriptsFit
PROPERTY NothingRunsInMulti
PROPERTY WritesSelectedDb
PROPERTY EveryFrameServed
