-------------------------- MODULE MCTripLifecycle --------------------------
EXTENDS TripLifecycle, TLC

SlotSymmetry == Permutations(Slots)

\* Bounds: either a database error or an unload, and sensors drop out only
\* before either, and before the second trip.
FewFaults ==
  /\ failures + reloads <= 1
  /\ "unknown" \in {vehicleOn, charging, odoSeen} =>
       opened <= 1 /\ failures + reloads = 0
=============================================================================
