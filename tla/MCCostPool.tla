----------------------------- MODULE MCCostPool -----------------------------
EXTENDS CostPool

\* A charge nothing is known of, and one that filled the upper half.
SomeReadings == {<<Unknown, Unknown>>, <<1, 2>>}
=============================================================================
