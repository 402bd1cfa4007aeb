CONSTANTS
  Key = {k1, k2}
  Canister = {s1, s2}
  MaxLogs = 3
  MaxMarks = 1
  FlushAt = 1
  ChunkSize = 2
  UpdateChunk = 2
  Capacity = 2
  None = None
SPECIFICATION FairSpec
CHECK_DEADLOCK FALSE
INVARIANTS StorageInv UpdatesKept
PROPERTIES LogsKept LockReleased
