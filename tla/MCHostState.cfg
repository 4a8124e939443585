CONSTANTS
  a = a
  b = b
  Key <- MCKey
  BytesOf <- MCBytesOf
  Block = {b1, b2}
  NoBlock = NoBlock
  MemoryBudget = 4
  MaxTransfer = 4
  MaxVersion = 2
SPECIFICATION Spec
INVARIANTS NothingLost CompletionSound BudgetAlone
CHECK_DEADLOCK FALSE
