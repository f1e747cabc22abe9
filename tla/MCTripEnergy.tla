---------------------------- MODULE MCTripEnergy ----------------------------
EXTENDS TripEnergy

\* A drive of one notch, one that gained a notch, one that began unread.
SomeTripSocs == {<<2, 1>>, <<1, 2>>, <<Null, 1>>}

\* No meter, the pack meter, the power integral.
SomeMeters == {<<0, 0>>, <<2, 0>>, <<0, 1>>}

Session(start, end, kwh, socStart, socEnd) ==
  [start |-> start, end |-> end, kwh |-> kwh,
   socStart |-> socStart, socEnd |-> socEnd]

\* A session that runs on into a trip, one inside it, and one of which only
\* the end is known.
SomeCharges ==
  {Session(0, 3, 2, 0, 2), Session(2, 3, 1, 1, 2), Session(Null, 1, 1, Null, Null)}
=============================================================================
