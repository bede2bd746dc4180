CONSTANTS
  IntMax = 2147483647
  PageSize = 1024
  FooterSize = 40
  Quantum = 16
  WordBits = 32
  Bases = {8192}
  Requests <- AllSizes
  MaxHoles = 1
SPECIFICATION Spec
INVARIANTS
  BitmapMatches
  ElementsApart
