SPECIFICATION Spec
CONSTANTS  ByteBits = 2  Formats = {"ascii", "le", "be"}  RawBytes <- AllBytes  Numbers <- MCNumbers
INVARIANTS ReadsFileValue CastsKeepNumber
CHECK_DEADLOCK FALSE
