SPECIFICATION Spec
CONSTANTS
  Follower = {f1}
  ExecutionSeats = 1
  MaxPending = 2
  MaxRequests = 1
  Streamed = {1}
  AnswerLength = 2
  MaxBehind = 1
INVARIANT StreamsEndExact
CHECK_DEADLOCK FALSE
