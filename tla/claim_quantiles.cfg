SPECIFICATION Spec
CONSTANTS
  r1 = r1
  r2 = r2
  NoResource = NoResource
  NoConfig = NoConfig
  Labels <- LabelsInPlay
  Threads = {t1}
  Configs <- NoQuantilesConfigs
  InitialConfigs <- NoQuantilesConfigs
  ConfigSets <- NoSets
  Offered <- ClaimOffered
  Times <- ClaimTimes
  SnapshotsFail = FALSE
  MaxInputs = 3
INVARIANT
  NoQuantilesStillEmits
