CONSTANTS
    Run = {r1}
    Stopper = {s1, s2}
    None = None
    Faults <- NoFaults
    DeviceMayDrop = FALSE
SPECIFICATION Spec
INVARIANT StoppedRunIsClosed
CHECK_DEADLOCK FALSE
