SPECIFICATION Spec
CONSTANTS
  Outer = Outer
  Header = Header
  InMemory = InMemory
  Files <- AllFiles
  UserMemories <- AllMemory
  Length <- Lengths
  Size = 6
  MinSize = 3
  FallbackN = 1
  MaxSize = 9
  UserSize = 7
  MaxDepth = 3
  ResetInInclude = FALSE
INVARIANTS
  BuffersTile
  ContentKept
  NothingLeaks
PROPERTY
  ImplementsNestedReading
