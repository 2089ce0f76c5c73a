SPECIFICATION Spec
CONSTANTS
  Pages = {p1, p2}
  Spare = 0
  Bought = 1
  Stray = 0
  MaxMoves = 2
  MaxCrashes = 0
SYMMETRY Symmetry
INVARIANTS LegsInOrder DroppedBeganNothing PlanAgreesWithMove
CHECK_DEADLOCK FALSE
