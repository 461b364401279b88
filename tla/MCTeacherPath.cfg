SPECIFICATION MCSpec
CONSTANTS
    max_attempts = 3
    MaxUsage = 2
    MaxChunks = 3
    None = None
    Unknown = Unknown
    r1 = r1
    Texts = 2
    Vectors <- MCVectors
    EmbeddingData <- MCData
    DecoderBytes = 6
    DecoderChunk = 4
INVARIANTS
    CallIsAccounted
    ChunkingDoesNotMatter
    TurnIsTheWholeStream
    ServedAsAsked
PROPERTIES
    NoResendAfterAccounting
    ImplementsLedger
    EmbeddingIsPerText
CHECK_DEADLOCK FALSE
