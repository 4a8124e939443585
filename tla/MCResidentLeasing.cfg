SPECIFICATION LeasingSpec
CONSTANTS
  a = a
  b = b
  none = none
  salted = salted
  p1 = p1
  p2 = p2
  p3 = p3
  ExecutionSeats = 2
  ResidentSeats = 2
  Page <- MCPages
  PageTokens = 2
  Token <- MCTokens
  Salt <- MCSalts
  NoSalt = none
  Requests <- MCRequests
  Runs <- MCRuns
  Lengths <- MCLengths
  MaxTokens = 3
  MaxCallers = 3
  MaxIncarnation = 2
SYMMETRY PageSymmetry
CHECK_DEADLOCK FALSE
INVARIANTS
  PageOwnership
  TokenCoverage
  LeaseIntegrity
PROPERTIES
  IdentityStable
  LiveSeatKept
