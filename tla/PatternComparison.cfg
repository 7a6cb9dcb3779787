CONSTANTS
    State <- MCState
    Char = {"a", "b"}
    NoState = 0
    InitState = 1
    Problems <- MCProblems
    Relations <- MCRelations
SPECIFICATION MCSpec
INVARIANTS DiscoveryHasEvidence ExactForOneCompanion MatchRight
CHECK_DEADLOCK FALSE
