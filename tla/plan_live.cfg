SPECIFICATION LiveSpec
CONSTANTS
  Pages = {p1}
  Spare = 1
  Bought = 1
  Stray = 0
  MaxMoves = 1
  MaxCrashes = 1
PROPERTIES
  PurchaseIsSeen
  CompletedMoveEndsPlan
CHECK_DEADLOCK FALSE
