\* A queue of two: bursts, repetitions, failures, errors set by the user.
CONSTANTS
  Capacity = 2
  MaxRepetition = 2
  Lexemes = 3
  MaxBurst = 2
  Failures = TRUE
  UserErrors = TRUE
SPECIFICATION FairSpec
INVARIANTS CompleteAtTermination
PROPERTIES InOrder OverflowOnlyByBurst RunEnds
