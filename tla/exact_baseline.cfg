SPECIFICATION LiveSpec
CONSTANTS
  a = a
  b = b
  Merge = merge
  Sources = {a, b}
  Size = 2
  GroupBy <- MCGroupBy
  PerAttribute <- MCPerAttribute
  Batches <- MCBatches
  Times <- MCTimes
  IdleGrace = 1
  Grace = 1
  Quorum = 2
  TimersFail = FALSE
  MaxBatches <- MCMaxBatches
  MaxFaults = 1
INVARIANTS
  Accounted GroundTruth
PROPERTIES
  WindowsInOrder EntriesLeave
CHECK_DEADLOCK FALSE
