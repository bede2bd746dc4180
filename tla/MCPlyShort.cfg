SPECIFICATION Spec
CONSTANTS
  Files <- MCFiles  LaterFiles <- MCLaterFiles  ListLengths = {0, 1, 2}  LongNames <- MCLongNames
  MinBuffer = 8  Alignment = 4  ElementSize = 5  PropertySize = 3  MemorySizes = {41, 37}
INVARIANT NoStaleRead
CHECK_DEADLOCK FALSE
