SPECIFICATION Spec
CONSTANTS
  Configs <- MCConfigs
  Offered <- MCOffered
  Times <- MCTimes
  MaxInputs = 4
  MaxUpdates = 1
INVARIANTS
  Retained RangesFinal
PROPERTIES
  RangesWhole RangesMoveOn
