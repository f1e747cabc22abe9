SPECIFICATION Spec
CONSTANTS
  Slots = {s1, s2}
  MaxOdo = 3
  MaxTime = 4
  MaxRestarts = 0
  MaxFailures = 0
  MinDistance = 1
  MaxGap = 2
  Window = 2
  SynthAge = 2
  DisconnectAge = 3
  OrphanAge = 2
SYMMETRY SlotSymmetry
CHECK_DEADLOCK FALSE
INVARIANTS KilometresOnce
