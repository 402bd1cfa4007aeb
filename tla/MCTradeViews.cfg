CONSTANTS
  Position = {0, 1, 2, 3}
  PositionKind <- MCPositionKind
  Rate = {2, 3}
  Tokens = {1}
  MaxTrades = 3
  MaxTime = 2
  Minute = 2
  Timeframe = {1, 2}
  ChunkSize = 2
  CandlesChunk = 1
  Capacity = 2
  Fees <- MCFees
  Payouts <- MCPayouts
  None = None
  Garbled = Garbled
  U64 = 4
SPECIFICATION ViewsSpec
INVARIANTS LatestTradesPaged PositionTradesFound LogsReadBack CandlesFollowTrades
CHECK_DEADLOCK FALSE
