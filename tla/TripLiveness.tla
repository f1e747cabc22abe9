---------------------------- MODULE TripLiveness ----------------------------
(***************************************************************************)
(* Every live trip ends.  TripLifecycle, its scheduling, and one bit more: *)
(* whether vehicle_on has just been reported off.  Each such report        *)
(* cancels and restarts the 180 s of the deferred close                    *)
(* (_async_vehicle_on_changed), so the loop owes that timer nothing while  *)
(* they keep coming.                                                       *)
(***************************************************************************)
EXTENDS TripLifecycle

VARIABLE reports      \* flips with every off report, the repeated ones too

LiveInit == Init /\ reports = 0

LiveNext ==
  \/ VehicleReportsOff /\ reports' = 1 - reports
  \/ (OtherReports \/ Time \/ Timers \/ Tasks \/ Control) /\ UNCHANGED reports

LiveSpec == LiveInit /\ [][LiveNext]_<<vars, reports>>
-----------------------------------------------------------------------------
(***************************************************************************)
(* The event loop runs every timer that stays due and every coroutine      *)
(* whose database call returns, and time passes.  The debounce fires only  *)
(* if the reports that restart it come to an end.  Nothing is assumed of   *)
(* the car or of the user.                                                 *)
(***************************************************************************)
DebounceSettles == DebounceDefers \/ DebounceCloses
ReportsEnd == <>[][FALSE]_reports

Fairness ==
  /\ WF_vars(TripIdles) /\ WF_vars(TripAges)
  /\ ReportsEnd => WF_vars(DebounceSettles)
  /\ WF_vars(LiveTickCloses) /\ WF_vars(StuckWatchdogCloses)
  /\ \A s \in Slots :
       /\ WF_vars(InsertTrip(s)) /\ WF_vars(FinishTrip(s))
       /\ WF_vars(InsertCharge(s)) /\ WF_vars(FinishCharge(s))

FairSpec == LiveSpec /\ Fairness

\* A trip that is open is over some day, whatever off-edges were missed,
\* timers cancelled and closes lost to database errors, provided vehicle_on
\* does not keep being reported off: each report restarts the deferred
\* close, and the live tick and the stuck-trip watchdog yield to it.
TripEnds ==
  ReportsEnd =>
    \A t \in 1..MaxTrips : trip.id = t ~> trip.id # t
=============================================================================
