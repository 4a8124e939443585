SPECIFICATION FairSpec
CONSTANTS
  Follower = {f1}
  ExecutionSeats = 1
  MaxPending = 2
  MaxRequests = 3
  Streamed = {2}
  AnswerLength = 2
  MaxBehind = 1
INVARIANTS LockStep ExactStreams
PROPERTIES EveryTaskEnds OrphansLeave
CHECK_DEADLOCK FALSE
