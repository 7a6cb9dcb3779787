CONSTANTS
    State <- MCState
    Char = {"a", "b"}
    Key = {"n", "a"}
    NoState = 0
    InitState = 1
    Machines <- MCMachines
    Colourings <- MCColourings
SPECIFICATION Spec
INVARIANTS FinishedMeansStable
           EquivalentStayTogether ResultEquivalent
CHECK_DEADLOCK FALSE
