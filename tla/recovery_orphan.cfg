SPECIFICATION Spec
CONSTANTS
  MaxTime = 6
  MaxCalls = 1
  MaxRows = 3
  MinDistance = 1
  Tolerance = 0
  Coalesce = 1
  OrphanSpan = 1
  Windows <- GapWindows
  Spans <- NoSpans
CHECK_DEADLOCK FALSE
INVARIANTS RecoversOnlyUncovered
