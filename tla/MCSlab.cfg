CONSTANTS
  Pages = {p1, p2}
  Threads = {t1, t2}
  MaxElems = 3
  None = None
  Quiescent = TRUE
SPECIFICATION FairSpec
INVARIANTS
  TypeOK
  PagesListedOnce
  Accounting
  NoAbort
  OneOwner
  OwnedIsConstructed
PROPERTIES
  TrimBoundsCache
  ImplementsPool
  SomeCallReturns
