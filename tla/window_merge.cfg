SPECIFICATION LiveSpec
CONSTANTS
  k1 = k1
  k2 = k2
  Sources = {a, b}
  Ends <- MCEnds
  Keys <- MCKeys
  Contents <- MCContents
  Times <- MCTimes
  Grace = 1
  Quorum = 2
  Repeats = TRUE
  Failures = TRUE
  TimersFail = FALSE
  MaxMessages = 2
INVARIANTS
  Accounted EverySourceIn LateHasACause
PROPERTIES
  WindowsInOrder WindowsClose
CHECK_DEADLOCK FALSE
