SPECIFICATION Spec
CONSTANTS
  s1 = s1
  s2 = s2
  Slots = {s1, s2}
  MaxRows = 3
  MaxEdits = 1
  MaxCrashes = 1
  MaxFailures = 1
  Edits = {"set", "delete", "purge", "recover", "backfill"}
CONSTRAINT CrowdedEarly
SYMMETRY SlotSymmetry
CHECK_DEADLOCK FALSE
INVARIANTS TypeOK ResumeFindsJourney CompletedIsOver
PROPERTY FulfilsContract
