\* All streams of words and blanks, one that cannot be analysed to its end,
\* and one that takes look-ahead; memory grows in place or not at all.
\* The user stops when he has the terminating token, or sees an error.
CONSTANTS
  Size = 6
  MaxSize = 9
  FallbackN = 1
  ReasonableN = 2
  StreamLen = 7
  BadAt <- Beyond
  Seekable = FALSE
  ShortReads = FALSE
  Realloc = {"fails", "in place"}
  Languages <- Streams
  Adaptors = {"Feeder", "Gavager"}
  QueueSize = 2
  MaxChunk = 3
SPECIFICATION FairSpec
INVARIANTS EveryLexatomOnce SameWhateverTheChunks
PROPERTIES FeedingEnds
CHECK_DEADLOCK FALSE
