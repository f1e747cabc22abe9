SPECIFICATION Spec
CONSTANTS
  Slots = {s1, s2}
  MaxTrips = 2
  MaxCharges = 1
  MaxOdo = 2
  MaxFailures = 1
  MaxReloads = 1
  Retries = 1
  MaxDefers = 1
  MinDistance = 1
  OffMoved = 1
  GuardMoved = 2
  HasChargeSensor = TRUE
  Services = {"start_trip", "end_trip"}
  Dropouts = TRUE
CONSTRAINT FewFaults
SYMMETRY SlotSymmetry
INVARIANTS TypeOK RetryOnlyWhileWaiting NoCloseWhileOn WatchedTrip ChargeStoredOnce  TripStoredOnce TripsAccountedFor
PROPERTIES TripNeverOverwritten ChargeNeverOverwritten
