SPECIFICATION Spec
CONSTANTS
  alice = alice
  bob = bob
  upgrader = upgrader
  treasury = treasury
  Owners = {alice, bob}
  Keys = {upgrader, treasury}
  UpgradeAuthority = upgrader
  SECONDS_PER_DAY = 2
  MAX_DURATION_DAYS = 3
  MAX_DURATION_MULTIPLIER = 1000
  Tables <- MCTables
  Balance = 2
  MaxTime = 6
INVARIANTS Solvent MaturedCanLeave
PROPERTIES LockNeverShortened AgeNotInvented
CHECK_DEADLOCK FALSE
