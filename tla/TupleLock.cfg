CONSTANTS
    Run = {r1, r2, r3}
    Pid = {p1, p2}
    None = None
    MaxBoots = 3
    FilesMayFail = TRUE
SPECIFICATION FairSpec
INVARIANTS
    ExclusiveUnlessMisfired
    LockHasOwner
PROPERTIES
    SlotSpec
    CallSettles
CHECK_DEADLOCK FALSE
