SPECIFICATION FairSpec
CONSTANTS
  Slots = {s1}
  MaxTrips = 2
  MaxCharges = 1
  MaxOdo = 1
  MaxFailures = 1
  MaxReloads = 0
  Retries = 0
  MaxDefers = 1
  MinDistance = 1
  OffMoved = 1
  GuardMoved = 1
  HasChargeSensor = TRUE
  Services = {"start_trip", "end_trip"}
  Dropouts = TRUE
PROPERTY TripEnds
