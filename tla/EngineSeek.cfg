\* The user seeks inside the stream of a file, between the lexemes.
CONSTANTS
  Size = 7
  MaxSize = 7
  FallbackN = 2
  ReasonableN = 2
  StreamLen = 10
  BadAt <- NoBad
  Seekable = TRUE
  ShortReads = FALSE
  Realloc = {"fails"}
  PreContexts = FALSE
  Registers = TRUE
  SeekTargets <- SeekInside
  UserUndo = TRUE
SPECIFICATION Spec
INVARIANTS ContentCoherent ContentHoldsFallback SeekVerdict
