CONSTANTS
    State <- MCState
    InitState = 1
    Pattern = {1, 2, 3, 4, 5}
    Failure = 9
    Condition = {"c"}
    Machines <- MCMachines
    MaxPosition = 5
SPECIFICATION MCSpec
INVARIANTS DropOutAsDirect EveryStepKnown SameEffect BehavesAlike BaseSequencesRight WinnersAsWritten
PROPERTIES WalkEnds PermittedEntered
CHECK_DEADLOCK FALSE
