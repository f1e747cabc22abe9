SPECIFICATION Spec
CONSTANTS
  Slots = {s1, s2}
  MaxTime = 1
  MaxSoc = 2
  MaxSessions = 2
  MaxCalls = 1
  MaxFaults = 1
  DedupWindow = 1
  Corrections <- SomeCorrections
  HasPlug = TRUE
  HasEvse = TRUE
  Services = {"log", "price", "price_by_id", "set", "delete", "backfill"}
SYMMETRY SlotSymmetry
CHECK_DEADLOCK FALSE
INVARIANTS TypeOK EnergyBookedOnce LastChargeIsNewest BackfillsOwnRow
PROPERTIES MergesOneSession DiscardsOnlyCovered
