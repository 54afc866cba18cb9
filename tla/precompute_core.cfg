SPECIFICATION Spec
CONSTANTS
  r1 = r1
  r2 = r2
  NoResource = NoResource
  NoConfig = NoConfig
  Labels <- LabelsInPlay
  Threads = {t1, t2}
  Configs <- CoreConfigs
  InitialConfigs <- CoreConfigs
  ConfigSets <- NoSets
  Offered <- CoreOffered
  Times <- CoreTimes
  SnapshotsFail = FALSE
  MaxInputs = 3
SYMMETRY ThreadSymmetry
INVARIANTS
  TypeOK NothingLost NothingTwice WindowsDisjoint SeriesPure OneEnvelopePerSeries CapHonoured LatenessHonoured

