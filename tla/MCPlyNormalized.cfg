SPECIFICATION Spec
CONSTANTS  ByteBits = 2  Formats = {"ascii", "le", "be"}  RawBytes <- AllBytes  Numbers <- MCNumbers
INVARIANT NormalizedInRange
CHECK_DEADLOCK FALSE
