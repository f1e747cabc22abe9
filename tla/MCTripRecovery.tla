--------------------------- MODULE MCTripRecovery ---------------------------
EXTENDS TripRecovery

\* From the middle of what may be one drive to now.
SomeWindows == {<<1, 4>>}

\* A trip before the others, and one that ends among them.
SomeSpans == {<<0, 1>>, <<1, 3>>}

\* What an orphan row with the next trip at instant 6 is written for.
GapWindows == {<<2, 4>>}
NoSpans == {}
=============================================================================
