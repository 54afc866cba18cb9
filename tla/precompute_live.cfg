SPECIFICATION FairSpec
CONSTANTS
  r1 = r1
  r2 = r2
  NoResource = NoResource
  NoConfig = NoConfig
  Labels <- LabelsInPlay
  Threads = {t1, t2}
  Configs <- TickConfigs
  InitialConfigs <- TickInitial
  ConfigSets <- TickSets
  Offered <- TickOffered
  Times <- TickTimes
  SnapshotsFail = TRUE
  MaxInputs = 2
INVARIANTS
  WindowsMoveOn
PROPERTIES
  EventuallyOut AbstractSpec
