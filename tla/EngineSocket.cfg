\* A socket: no seeks, reads of any length; everything the stream has is analysed.
CONSTANTS
  Size = 7
  MaxSize = 7
  FallbackN = 1
  ReasonableN = 2
  StreamLen = 9
  BadAt <- NoBad
  Seekable = FALSE
  ShortReads = TRUE
  Realloc = {"fails"}
  PreContexts = TRUE
  Registers = TRUE
  SeekTargets <- NoSeeks
  UserUndo = FALSE
SPECIFICATION FairSpec
INVARIANTS EndOfStreamTrue
PROPERTIES AnalysisEnds
