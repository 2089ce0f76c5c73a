SPECIFICATION Spec
CONSTANTS
  Pages = {p1, p2}
  Execs = {x1}
  SourceSteps <- EvmSteps
  MaxSends = 2
  MaxCrashes = 1
SYMMETRY Symmetry
INVARIANTS NoSecondSend FollowsItsOwnBurn
PROPERTIES ImplementsSettlementMove
CHECK_DEADLOCK FALSE
CONSTRAINT FeeFirst
