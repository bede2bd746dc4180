CONSTANTS
  Pages = {p1}
  Threads = {t1}
  MaxElems = 3
  None = None
  Quiescent = TRUE
SPECIFICATION Spec
INVARIANTS
  PartialIsInUse
