CONSTANTS
  Pages = {p1, p2, p3, p4}
  Empty = Empty
  Partial = Partial
  Full = Full
  None = None
SPECIFICATION Spec
INVARIANTS
  WellLinked
PROPERTIES
  LoopsComplete
  MovesOnePage
