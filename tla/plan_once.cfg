SPECIFICATION Spec
CONSTANTS
  Pages = {p1, p2}
  Spare = 1
  Bought = 1
  Stray = 0
  MaxMoves = 2
  MaxCrashes = 0
INVARIANTS
  MovedOnce
CHECK_DEADLOCK FALSE
