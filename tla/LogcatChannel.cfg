SPECIFICATION FairSpec
CONSTANTS
    Logs <- ShortLogs
    Recoverer = {p1, p2}
    MaxChunk = 2
    FlushLines = 2
    RawMayFail = TRUE
    DerivedMayFail = TRUE
INVARIANTS
    TypeOK
    RawIsTruth
    DerivedFollowsRaw
    ShutdownDrains
    RebuiltFromRaw
PROPERTY ShutdownSettles
CHECK_DEADLOCK FALSE
