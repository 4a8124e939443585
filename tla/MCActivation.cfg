CONSTANTS
  r1 = r1
  r2 = r2
  Rank <- MCRank
  Total <- MCTotal
  Budgets <- MCBudgets
  WarmKeyOf <- Shared
  PoolOf <- Shared
  ProgramOf <- Shared
  Floor = 1
  Fixed = 1
  Unit = 2
  Padding = 1
  CaptureBytes = {1, 2}
  MaxAttempts = 2
SPECIFICATION Spec
INVARIANTS SameUnits NobodyAbandoned WarmedFirst OwnedExactly
PROPERTIES FloorKept
