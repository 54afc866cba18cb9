SPECIFICATION Spec
CONSTANTS
  r1 = r1
  NoResource = NoResource
  Resources <- MCResources
  Labels <- MCLabels
  Initial <- Kll
  Plugins <- SpanPlugins
  Offered <- MCOffered
  Batches <- SpanBatches
  Times <- MCTimes
  Grace = 2
  MaxPeriod = 3
  Failures = FALSE
  TimersFail = FALSE
  MaxPoints = 4
  MaxUpdates = 2
INVARIANT
  NoneInEarlierWindow
