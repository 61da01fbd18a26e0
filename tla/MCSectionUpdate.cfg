SPECIFICATION SectionSpec
CONSTANTS
    None = None
    Target = 1
    Other = 2
    Token <- Token1
    Images <- MCImages
    Deltas <- MCDeltas
    MaxOps = 2
    MaxTouches = 1
    MaxAttempts = 2
INVARIANT StaysReadable
PROPERTIES ReadIsExact UpdateIsExact
CHECK_DEADLOCK FALSE
