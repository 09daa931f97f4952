CONSTANTS
  Users = {u1, u2, u3}
  EggUser = u1
  RegCap = 2
  Cap = 1
  OutCap = 1
  Recent = 2
  Bucket = 1
  Messages = 3
SPECIFICATION Spec
INVARIANT AnswersInOrder
INVARIANT LagLosesOldest
INVARIANT LeastRecentForgotten
INVARIANT OneCallAfterTrip
PROPERTY EngineFollows
CHECK_DEADLOCK FALSE
