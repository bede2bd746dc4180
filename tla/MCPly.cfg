SPECIFICATION FairSpec
CONSTANTS
  Files <- MCFiles  LaterFiles <- MCLaterFiles  ListLengths = {0, 1, 2}  LongNames <- MCLongNames
  MinBuffer = 8  Alignment = 4  ElementSize = 5  PropertySize = 3  MemorySizes = {41, 37}
INVARIANTS BlocksApart HeaderDescribed ToldIsRead CrashesExplained FullReadsSuffice AllRead
PROPERTY Returns
CHECK_DEADLOCK FALSE
