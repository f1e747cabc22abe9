----------------------------- MODULE MCJourney ------------------------------
EXTENDS Journey, TLC

SlotSymmetry == Permutations(Slots)

\* Bound: coroutines overlap only while the log is short.
CrowdedEarly == Crowded => Len(rows) <= 1
=============================================================================
