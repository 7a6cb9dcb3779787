CONSTANTS
    State <- MCState
    Char = {"a", "b"}
    NoState = 0
    InitState = 1
    Problems <- MCProblems
    Relations <- MCRelations
SPECIFICATION MCSpec
INVARIANT NoPassageHolds
CHECK_DEADLOCK FALSE
