SPECIFICATION Spec
CONSTANTS  SignedChar = TRUE  From <- BelowPorts  To = 70000  Strings <- MCStrings
INVARIANTS NumbersSurvive ComparesWholeSecret
CHECK_DEADLOCK FALSE
