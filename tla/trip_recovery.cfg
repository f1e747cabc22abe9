SPECIFICATION Spec
CONSTANTS
  MaxTime = 4
  MaxCalls = 2
  MaxRows = 3
  MinDistance = 1
  Tolerance = 0
  Coalesce = 1
  OrphanSpan = 1
  Windows <- SomeWindows
  Spans <- SomeSpans
CHECK_DEADLOCK FALSE
INVARIANTS TypeOK RecoveredKilometresOnce LastTripIsNewest RecoveryCovers
