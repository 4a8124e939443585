SPECIFICATION FairSpec
CONSTANTS
  ExecutionSeats = 3
  ResidentSeats = 3
  Page = {p1, p2, p3}
  PageTokens = 2
  a = a
  b = b
  Token = {a, b}
  NoSalt = "none"
  Salt = {"none", "tenant"}
  Question <- MCContending
  Greedy <- MCGreedy
  NoAnchor = NoAnchor
  PrefillWidths = {4}
  ContextTokens = 6
  MaxPending = 3
  MaxRequests = 3
INVARIANTS FirstComeFirstServed HistoryExact
PROPERTY EveryRequestEnds
CHECK_DEADLOCK FALSE
