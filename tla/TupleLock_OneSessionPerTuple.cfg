CONSTANTS
    Run = {r1, r2, r3}
    Pid = {p1, p2}
    None = None
    MaxBoots = 2
    FilesMayFail = FALSE
SPECIFICATION Spec
INVARIANT OneSessionPerTuple
CHECK_DEADLOCK FALSE
