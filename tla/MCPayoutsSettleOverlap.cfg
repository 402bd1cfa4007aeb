CONSTANTS
  Run = {r1, r2}
  MaxId = 1
  MaxTrades = 0
  MaxTimers = 2
  MaxFeeChanges = 1
  MaxUpgrades = 0
  VoidQuantity = {0, 5}
  TradeSide <- MCTradeSide
  LedgerFees = {1, 5}
  VoidPayoutsChunk = 1
  UpdateChunk = 1
  TradePayoutsChunk = 1
  FlushAt = 1
  FlushChunk = 1
  None = None
SPECIFICATION FairSpec
PROPERTIES VoidsSettle
