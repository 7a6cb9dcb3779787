CONSTANTS
    State <- MCState
    Char = {"a", "b"}
    Entry = {"p", "q"}
    InitState = 1
    Machines <- MCMachines
    Operations = 5
SPECIFICATION MCSpec
INVARIANTS AcceptsAsGiven MatchesWhatItSays
CHECK_DEADLOCK FALSE
