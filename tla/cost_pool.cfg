SPECIFICATION Spec
CONSTANTS
  MaxTime = 2
  MaxCharges = 2
  MaxTrips = 2
  MaxChanges = 1
  MaxCalibrations = 2
  FullSoc = 2
  Declared = 2
  Capacities = {4}
  HomePrice = 1
  Tariffs = {5}
  Kwh = {3}
  Paid = {0, 6}
  Readings <- SomeReadings
  MaxRate = 2
CHECK_DEADLOCK FALSE
INVARIANTS TypeOK PricedWithinCharges LotsFollowPool ReplayIdempotent
PROPERTIES  HandFiguresKept
