SPECIFICATION Spec
CONSTANTS
  logs = logs
  block = block
  n1 = n1
  n2 = n2
  Nodes = {n1, n2}
  Troubles <- MCTroubles
  Callers = {c1, c2}
  Questions = {logs, block}
  Methods = {"eth_getLogs", "eth_getBlockByNumber"}
  Method <- MCMethod
  logRange <- MCLogRange
  Ttl <- MCTtl
  NoLimit = 3
  RPS = 1
  TOKEN = 1
  MAX_IN_FLIGHT = 2
  ATTEMPTS = 3
  TIMEOUT = 1
  BUDGET = 1
  MARGIN = 0
  SECOND_LOOK = 1
  LIMITED_PAUSE = 1
  LIMITED_TOP = 1
  MAX_LIMITED_PAUSE = 3
  FAILED_PAUSE = 1
  FAILED_TOP = 1
  MAX_FAILED_PAUSE = 2
  RetryAfters = {2, 4}
  BLOCK = 1
  RANGE_MEMORY = 2
  MAX_ANSWERS = 1
  MaxAsks = 3
  MaxTime = 5
SYMMETRY Symmetry
INVARIANTS TypeOK PlacesCounted RateKept AskedOnce EndsInTime
PROPERTIES LeftAlone
CHECK_DEADLOCK FALSE
