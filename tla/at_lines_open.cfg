SPECIFICATION AtSpec
CONSTANTS
    Scripts <- AllScripts
    RingSize = 3
    BufferSize = 2
    ChunkSize = 2
    LineMax = 2
    Extensions = 2
    WaitsForAnswer = FALSE
    MaxScripts = 2
CHECK_DEADLOCK FALSE
INVARIANTS TruncatedNotExecuted EveryLineAnswered
