\* A file: seekable, reads of any length, pre-contexts and stored acceptance
\* positions.  Memory grows in place, by the amounts that are negotiated, or
\* not at all; a lexatom near the end of the stream cannot be converted.
CONSTANTS
  Size = 6
  MaxSize = 12
  FallbackN = 2
  ReasonableN = 2
  StreamLen = 20
  BadAt = 17
  Seekable = TRUE
  ShortReads = TRUE
  Realloc = {"fails", "in place"}
  PreContexts = TRUE
  Registers = TRUE
  SeekTargets <- NoSeeks
  UserUndo = TRUE
SPECIFICATION Spec
INVARIANTS BufferConsistent
PROPERTIES ReloadKeepsPlaces FallbackHeld PreContextReturns ImplementsStream
