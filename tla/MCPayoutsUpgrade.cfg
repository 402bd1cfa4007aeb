CONSTANTS
  Run = {r1}
  MaxId = 2
  MaxTrades = 1
  MaxTimers = 1
  MaxFeeChanges = 0
  MaxUpgrades = 1
  VoidQuantity = {0}
  TradeSide <- MCTradeSide
  LedgerFees = {1}
  VoidPayoutsChunk = 1
  UpdateChunk = 1
  TradePayoutsChunk = 1
  FlushAt = 1
  FlushChunk = 1
  None = None
SPECIFICATION FairSpec
PROPERTIES TradesSettle
