CONSTANTS
    Run = {r1}
    Stopper = {s1}
    None = None
    Faults <- AllFaults
    DeviceMayDrop = TRUE
SPECIFICATION FairSpec
INVARIANTS
    TeardownExclusive
    NoStrandedTuple
    FailedStartLeavesNothing
    DiskMatchesSession
    StopTellsTheEnd
PROPERTIES
    EverySessionEnds
    StartSettles
CHECK_DEADLOCK FALSE
