SPECIFICATION Spec
CONSTANTS
  BPS = 10
  FEE_BPS = 1
  V_SOL_NUM = 1
  V_SOL_DEN = 2
  MIN_TARGET_LAMPORTS = 4
  MAX_TARGET_LAMPORTS = 6
  ABORT_AFTER_SECS = 1
  MIGRATION_DUST_BPS = 2
  Supply = 7
  Rents <- MCRents
  MaxTarget = 6
  MaxOffer = 9
  MaxGifts = 1
  MaxTime = 2
INVARIANTS LastBuyAccepted 
PROPERTIES ProductKept
CHECK_DEADLOCK FALSE
