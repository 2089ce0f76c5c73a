SPECIFICATION ExecutorSpec
CONSTANTS
  Pages = {p1}
  Tab = p1
  Execs = {x1}
  SourceSteps <- AllSteps
  MaxSends = 1
  MaxCrashes = 1
INVARIANTS
  NoStepSkipped
PROPERTIES
  SavedMoveIsFollowed
  ReceiptIsReported
CHECK_DEADLOCK FALSE
