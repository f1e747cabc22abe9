-------------------------- MODULE MCOdometerLedger --------------------------
EXTENDS OdometerLedger, TLC

SlotSymmetry == Permutations(Slots)

\* Bound: a log in which two rows were in the making at once, of which the
\* properties say nothing, is followed to time 1 only.
CrossedEarly == crossed => clock <= 1
=============================================================================
