SPECIFICATION FairSpec
CONSTANTS
  Drafts = 2
  Count = {1, 2}
  MaxWaves = 4
INVARIANT BoundCovers
PROPERTY OwnInputs
CHECK_DEADLOCK FALSE
