CONSTANTS
  Base = 1
  MaxDelay = 6
  ShiftCap = 3
  AttemptMax = 5
  Healthy = 2
  Lifetimes = {1, 4, 5}
  Margin = 2
  Timeout = 2
SPECIFICATION Spec
INVARIANT BackoffHonest
INVARIANT CacheHonest
PROPERTY StaleRunsOut
PROPERTY LoopGoesOnUntilCancelled
CHECK_DEADLOCK FALSE
