SPECIFICATION Spec
CONSTANTS
  MaxTime = 4
  MaxTrips = 2
  MaxCharges = 1
  MaxEdits = 1
  FullSoc = 2
  Tolerance = 1
  Distances = {1, 2}
  Energies = {2}
  TripSocs <- SomeTripSocs
  Meters <- SomeMeters
  Charges <- SomeCharges
CHECK_DEADLOCK FALSE

PROPERTIES HealLeavesCorrections
