SPECIFICATION Spec
CONSTANTS
    Logs <- CrashLog
    Recoverer = {p1}
    MaxChunk = 2
    FlushLines = 2
    RawMayFail = FALSE
    DerivedMayFail = FALSE
INVARIANT MarkNamesRawLine
CHECK_DEADLOCK FALSE
