CONSTANTS
  Run = {r1, r2}
  MaxId = 2
  MaxTrades = 0
  MaxTimers = 1
  MaxFeeChanges = 1
  MaxUpgrades = 1
  VoidQuantity = {5}
  TradeSide <- MCTradeSide
  LedgerFees = {1, 5}
  VoidPayoutsChunk = 1
  UpdateChunk = 1
  TradePayoutsChunk = 1
  FlushAt = 1
  FlushChunk = 1
  None = None
SYMMETRY RunSymmetry
SPECIFICATION Spec
INVARIANTS PayoutsMatchLedger PositionLogsFollow FlushLockExclusive
