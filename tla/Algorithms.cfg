SPECIFICATION Spec
\* An input is run once.
CHECK_DEADLOCK FALSE
CONSTANTS
    MaxKey = 4
    MaxDeletes = 2
    Counts = {1, 2}
    MaxI = 127
    Patterns <- MCPatterns
    Texts <- MCTexts
    RespValues <- MCRespValues
    Pipelined <- MCPipelined
    Commands <- MCCommands
    JsonValues <- MCJsonValues
    Numerals <- MCNumerals
    Programs <- MCPrograms
    Walks <- MCWalks
    MaxInt = 7
    MaxRounds = 12
    MaxSteps = 300
INVARIANT GlobRight
INVARIANT RespRoundTrip
INVARIANT TruncatedNeverRuns
INVARIANT JsonRight
INVARIANT CompiledRight
INVARIANT WalkedRight
INVARIANT ScanMissesOnlyByDeletes
PROPERTY ScanEnds
