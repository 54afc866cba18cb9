SPECIFICATION Spec
CONSTANTS
  Contents <- MCContents
  Sketched <- MCSketched
  ValueSeries = {1}
  K = 2
  Phi = 25
  MinHistory = 1
  CardinalityWindows = 2
  MinPoints = 4
  IdentifierRatio = 50
  Growth = 20
  NoveltyWindows = 1
  DriftWindows = 2
  DriftPoints = 4
  KsThreshold = 40
  MaxOpen = 3
  MaxWindows = 4
  MaxFaults = 1
INVARIANTS
  TruthWhole Paired EventsTellState
CHECK_DEADLOCK FALSE
