CONSTANTS
    Run = {1, 2}
    Pid = {p1, p2}
    None = None
    MaxBoots = 3
    FilesMayFail = TRUE
SPECIFICATION FairRecoverySpec
INVARIANTS
    
    RecoverySparesLiveRuns
PROPERTIES
    BootServes
CHECK_DEADLOCK FALSE
