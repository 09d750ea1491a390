SPECIFICATION FairSpec
CONSTANTS
    AckCommand <- MCAck
    RawCommand <- MCRaw
    MaxCalls = 2
    MaxPending = 2
INVARIANTS
    TypeOK
    OwnAnswer
    NothingLeftBehind
PROPERTIES
    RepliesAwaitedReturn
