CONSTANTS
  TenThousand = 10
  Tiers <- MCTiers
  User = {u1}
  Call = {c1}
  MaxId = 3
  Quantity <- MCQuantities
  Rate = {2, 3, 5}
  LedgerFee <- MCLedgerFee
  MaxPositions = 100
  MaxVoidPositions = 100
  MaxTradeLogs = 2
  MaxLocks = 10
  Reserve = 1
  MatchLimits = {0, 10}
  MaxQuantities = 1
  MaxLogs = 1
  Anyone = Anyone
SPECIFICATION Spec
INVARIANTS PositionsConserved TradesWithinLimits Solvent BookUncrossed FeesFollowVolume
