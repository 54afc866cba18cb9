SPECIFICATION LiveSpec
CONSTANTS
  None = None
  Hot = Hot
  Base = Base
  Slow = Slow
  Configs <- MCConfigs
  Second = 4
  Starts <- MCStarts
  MaxSeconds = 2
  Failures = TRUE
  Window = 4
  Grace = 1
  Deadline = 2
  Times <- MCTimes
  TimersFail = FALSE
INVARIANTS
  UniqueValues ScheduleKept PointsAccounted ReportWhole ReportTells
PROPERTIES
  AllReported
CHECK_DEADLOCK FALSE
