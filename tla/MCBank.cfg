CONSTANTS
  User = {u1, u2, u3}
  Call = {c1}
  Amount = {1, 2}
  CmcCycles = 3
  Fee = 1
  MaxMints = 2
  ChunkSize = 2
  MaxLogs = 3
  MaxBlocks = 2
  None = None
SYMMETRY Symmetry
SPECIFICATION Spec
INVARIANTS AccountsInv LogsReplayToBalances MintedOncePerBlock MintsInv PagesFindAllLogs
CHECK_DEADLOCK FALSE
