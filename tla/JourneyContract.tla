--------------------------- MODULE JourneyContract --------------------------
(***************************************************************************)
(* What the log promises about journeys (casa -> ... -> casa): at most one *)
(* is open, an arrival home ends it, and an ended one never goes on.       *)
(***************************************************************************)
CONSTANT Journeys   \* ids of journeys: positive numbers
None == 0

VARIABLES
  open,   \* the open journey, None for none
  ended   \* the journeys that are over

vars == <<open, ended>>

Init == open = None /\ ended = {}

Departs(j) ==
  /\ open = None /\ j \notin ended
  /\ open' = j
  /\ UNCHANGED ended

Arrives ==
  /\ open # None
  /\ ended' = ended \cup {open}
  /\ open' = None

\* There and back, or an arrival whose departure was missed, in one trip.
RoundTrip(j) ==
  /\ open = None /\ j \notin ended
  /\ ended' = ended \cup {j}
  /\ UNCHANGED open

Next ==
  \/ Arrives
  \/ \E j \in Journeys : Departs(j) \/ RoundTrip(j)

Spec == Init /\ [][Next]_vars
=============================================================================
