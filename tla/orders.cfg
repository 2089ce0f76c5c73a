SPECIFICATION MCSpec
CONSTANTS
  amm = amm
  token_program = token_program
  Orders = {o1}
  Programs = {amm, token_program}
  Forbidden = {token_program}
  MAX_VENUES = 1
  BPS = 10
  MAX_CANCEL_FEE_BPS = 1
  MAX_BUY_FEE_BPS = 3
  MAX_SELL_FEE_BPS = 3
  MAX_KEEPER_SHARE_BPS = 5
  SLICES = 3
  Fees <- MCFees
  Minimums = {2}
  FeeAccounts <- AnyAccounts
  Freezable = {"escrow", "owner"}
  MaxAmount = 5
  MaxVault = 6
  MaxStray = 1
INVARIANTS VaultsAccounted LimitKept FeesAsAgreed OwnerCanLeave
CONSTRAINT Bounded
CHECK_DEADLOCK FALSE
