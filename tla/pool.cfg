SPECIFICATION Spec
CONSTANTS
  a1 = a1
  a2 = a2
  key = key
  Accounts = {a1, a2}
  Ids = {a1, key}
  BPS = 10
  PROTOCOL_SHARE_BPS = 5
  ALLOWED_FEE_BPS = {2}
  MAX_SNIPER_BPS = 4
  MAX_DECAY_SECS = 1
  MIN_TOKENS = 2
  MIN_LIQUIDITY = 2
  MIN_LIQUIDITY_DELTA = 2
  MAX_AMOUNT = 5
  U64_MAX = 20
  VX_RANGE = 1
  Openings <- MCOpenings
  ACC_ONE = 3
  ACC_MOD = 4
  Supply = 3
  SolSupply = 4
  MaxGifts = 1
  MaxTime = 1
CONSTRAINT OwnIsKept
INVARIANTS Backed PositionsCovered CanLeave
PROPERTIES FeesKept ValuePerShareKept
CHECK_DEADLOCK FALSE
