SPECIFICATION Spec
CONSTANTS
  None = None
  Batches <- MCBatches
  Foreign <- MCForeign
  MaxU64 = 63
  MaxI64 = 31
  NanosPerMs = 4
  MaxId = 200
  Failures = TRUE
  MaxMessages = 2
INVARIANTS
  RoundTrip EachPointAlone IdsTellSeriesApart
CHECK_DEADLOCK FALSE
