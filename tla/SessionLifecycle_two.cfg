CONSTANTS
    Run = {r1, r2}
    Stopper = {s1}
    None = None
    Faults <- AllFaults
    DeviceMayDrop = FALSE
SPECIFICATION Spec
SYMMETRY Symmetry
INVARIANTS
    LiveSessionIsWhole
PROPERTY SlotSpec
CHECK_DEADLOCK FALSE
