SPECIFICATION Spec
CONSTANTS
    Call = {s1, s2, seal}
    Seal = {seal}
    File = {1, 2}
    Rolled = {1}
    MaxSize = 2
    Stamp = {t1, t2}
    Cache = Cache
    Blank = Blank
    Torn = Torn
    None = None
SYMMETRY Alike
INVARIANTS
    TypeOK
    SkippedIsComplete
    AnswersAreWhole
    TornByTwo
CHECK_DEADLOCK FALSE
