SPECIFICATION Spec
CONSTANTS
    MaxLines = 4
    MaxKey = 2
    MaxLimit = 2
    Budget = 2
    None = None
INVARIANTS PagesLoseNothing PagesFit AnswersAreExact
CHECK_DEADLOCK FALSE
