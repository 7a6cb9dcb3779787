\* Calculations with sets of characters; the counts of lines and columns; encodings.
CONSTANTS
  State <- MCState
  Char = {1, 2, 3}
  NoState = 0
  InitState = 1
  Machines <- MCMachines
  Loops <- MCLoops
  Sections <- MCSections
  Sizes <- MCSizes
  MaxLength = 4
  MaxColumn = 5
SPECIFICATION MCSpec
INVARIANTS CountedRight OperationsExact EncodedAlike
CHECK_DEADLOCK FALSE
