SPECIFICATION Spec
CONSTANTS
  Slots = {s1, s2}
  MaxOdo = 3
  MaxTime = 4
  MaxRestarts = 1
  MaxFailures = 1
  MinDistance = 1
  MaxGap = 2
  Window = 1
  SynthAge = 1
  DisconnectAge = 3
  OrphanAge = 2
SYMMETRY SlotSymmetry
CHECK_DEADLOCK FALSE
INVARIANTS TypeOK LiveKilometresOnce BaselineAhead
CONSTRAINT CrossedEarly
