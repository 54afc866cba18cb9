SPECIFICATION FairSpec
CONSTANTS
  r1 = r1
  NoResource = NoResource
  Resources <- MCResources
  Labels <- MCLabels
  Initial <- Kll
  Plugins <- MCPlugins
  Offered <- MCOffered
  Batches <- MCBatches
  Times <- MCTimes
  Grace = 2
  MaxPeriod = 3
  Failures = TRUE
  TimersFail = TRUE
  MaxPoints = 3
  MaxUpdates = 2
INVARIANTS
  Accounted OwnWindow RunsAsConfigured
PROPERTIES
  IdleWindowsClose
CHECK_DEADLOCK FALSE
