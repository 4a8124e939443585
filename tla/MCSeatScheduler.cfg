SPECIFICATION FairSpec
CONSTANTS
  a = a
  b = b
  c = c
  x = x
  y = y
  Seats = {0, 1}
  Request = {a, b, c}
  Nobody = Nobody
  NoOffer = NoOffer
  Prompt <- MCPrompt
  MaxTokens <- MCMaxTokens
  SaltOf <- MCSaltOf
  Reads = {b, c}
  Token = {x, y}
  Stop = y
  Drafts = 1
  Arrivals <- MCArrivals
  Page = {1, 2, 3, 4, 5}
  BlockSize = 3
  MaxRunning = 2
  Budget = 3
  Depth = 2
  MaxDisturbances = 1
INVARIANTS OneWriter NothingRaises CheckpointExact PagesExact OneTurn
PROPERTY EveryRequestEnds
CHECK_DEADLOCK FALSE
