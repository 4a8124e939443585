SPECIFICATION FairSpec
CONSTANTS
  Capacity = {small, large}
  MaxWaves = 4
INVARIANTS SourceKept SlabKept
PROPERTY OwnMetadata
CHECK_DEADLOCK FALSE
