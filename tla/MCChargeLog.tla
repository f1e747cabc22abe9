---------------------------- MODULE MCChargeLog ----------------------------
EXTENDS ChargeLog, TLC

SlotSymmetry == Permutations(Slots)

Fields(start, end, socEnd) == [start |-> start, end |-> end, socEnd |-> socEnd]

\* A SoC, an end before that of another row, and a row put after now.
SomeCorrections == {Fields(Same, Same, 0), Fields(0, 0, Same), Fields(1, 2, 1)}
=============================================================================
