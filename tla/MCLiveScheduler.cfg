SPECIFICATION Spec
CONSTANTS
  ExecutionSeats = 2
  ResidentSeats = 2
  Page = {p1, p2, p3}
  PageTokens = 2
  a = a
  b = b
  Token = {a, b}
  NoSalt = "none"
  Salt = {"none", "tenant"}
  Question <- MCQuestion
  Greedy <- MCGreedy
  NoAnchor = NoAnchor
  PrefillWidths = {4}
  ContextTokens = 6
  MaxPending = 3
  MaxRequests = 3
INVARIANTS LeasesMatch CallsAccepted HotIsAnswered ReadyBound
PROPERTY IsService
CHECK_DEADLOCK FALSE
