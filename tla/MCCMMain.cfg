CONSTANTS
  Ledger = {l1, l2}
  Canister = {c1, c2}
  Code = {m1, m2}
  Upgrade = {u1, u2}
  MaxUpgrade = 1
  MaxCalls = 4
  None = None
SYMMETRY Symmetry
SPECIFICATION Spec
INVARIANTS CreationInv HashesRecorded
PROPERTIES ReplacedWhileStopped
CHECK_DEADLOCK FALSE
