CONSTANTS
  TenThousand = 10
  Tiers <- MCTiers
  User = {u1}
  Call = {c1, c2}
  Run = {r1}
  MaxId = 3
  MaxTimers = 1
  Quantity <- MCQuantity
  Rate = {3}
  LedgerFee <- MCFee
  LedgerFees = {1}
  MaxTrades = 3
  MaxFeeChanges = 0
  MaxUpgrades = 0
  MaxPositions = 100
  MaxVoidPositions = 100
  MaxTradeLogs = 2
  MaxLocks = 1
  Reserve = 1
  MatchLimits = {2}
  VoidPayoutsChunk = 1
  UpdateChunk = 1
  TradePayoutsChunk = 1
  FlushAt = 2
  FlushChunk = 1
  MaxBuffer = 1
  VoidQuantity <- MCVoidQuantity
  TradeSide <- MCTradeSide
  None = None
SPECIFICATION FairContract
INVARIANTS PaymentsCovered BuffersBounded
PROPERTIES PayoutsImplemented TradesSettle
