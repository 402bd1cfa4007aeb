CONSTANTS
  TenThousand = 10
  Tiers <- MCTiers
  User = {u1, u2}
  Call = {c1, c2}
  MaxId = 3
  Quantity <- MCQuantity
  Rate = {2, 3}
  LedgerFee <- MCLedgerFee
  MaxPositions = 3
  MaxVoidPositions = 4
  MaxTradeLogs = 2
  MaxLocks = 2
  Reserve = 1
  MatchLimits = {5}
  MaxQuantities = 1
  MaxLogs = 1
  Anyone = Anyone
SYMMETRY Symmetry
SPECIFICATION Spec
INVARIANTS RoomInv OneCallPerBalance BookPaged PositionsPaged
