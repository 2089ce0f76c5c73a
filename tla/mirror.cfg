SPECIFICATION MirrorSpec
CONSTANTS
  p1 = p1
  p2 = p2
  p3 = p3
  b1 = b1
  b2 = b2
  Tabs = {p1, p2, p3}
  Browsers = {b1, b2}
  Records = {r1}
  browser <- MCbrowser
  MAX_TOKENS = 1
  MaxVersion = 3
  MaxTurns = 1
  MaxRestores = 1
INVARIANTS MirrorTypeOK UnbrokenIsSaved
PROPERTIES CopyIsTheCreators NewerIsKept UploadsEnd
CHECK_DEADLOCK FALSE
