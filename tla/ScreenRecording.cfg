SPECIFICATION Spec
CONSTANTS
    Recording = {r1, r2}
    Stop = {k1, k2}
    None = None
INVARIANTS
    SavedIsWhole
    StopCanBeRetried
    NothingLeftBehind
CHECK_DEADLOCK FALSE
