SPECIFICATION Spec
CONSTANTS
  None = None
  Hot = Hot
  Base = Base
  Slow = Slow
  Configs <- TwoUnique
  Second = 4
  Starts <- MCStarts
  MaxSeconds = 2
  Failures = FALSE
  Window = 4
  Grace = 1
  Deadline = 2
  Times <- MCTimes
  TimersFail = FALSE
INVARIANTS
  UniqueValues
CHECK_DEADLOCK FALSE
