SPECIFICATION ScreenSpec
CONSTANTS
  Pages = {p1}
  Execs = {x1, x2}
  SourceSteps <- EvmSteps
  MaxSends = 1
  MaxCrashes = 1
SYMMETRY Symmetry
PROPERTIES
  RememberedFeeNotSentAgain
CONSTRAINT OneBurn
INVARIANTS
  OpenOnlyTogether
CHECK_DEADLOCK FALSE
