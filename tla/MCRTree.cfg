SPECIFICATION Spec
CONSTANTS  Dimension = 2  Coords = {0, 1}  MinChildren = 1  MaxChildren = 4  Fanout = 2  MaxHeight = 3
INVARIANTS BoxesMeasured WayIsTight SplitKeepsChildren
CHECK_DEADLOCK FALSE
