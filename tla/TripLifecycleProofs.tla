------------------------ MODULE TripLifecycleProofs ------------------------
(***************************************************************************)
(* Theorems about TripLifecycle, for every value of its constants: its     *)
(* types, its timers and charge sessions, then that a kilometre of a live  *)
(* trip is in one row, a charge session is written once, an open trip is   *)
(* watched, a trip is written once unless its close is repeated, and no    *)
(* trip is lost.                                                           *)
(***************************************************************************)
EXTENDS TripLifecycle, TLAPS

USE DEF ended

-----------------------------------------------------------------------------
(***************************************************************************)
(* What the helpers of the actions return.                                 *)
(***************************************************************************)
LEMMA ReadingType ==
  ASSUME odo \in 0..MaxOdo
  PROVE  OdoRead \in Reading /\ odo \in Reading /\ Unread \in Reading
BY ConstantsAssumption DEF OdoRead, Reading, Unread

LEMMA EmptyTypes ==
  /\ NoTrip \in TripRecord /\ NoCharge \in ChargeRecord
  /\ NoClose \in CloseTimer /\ NoTask \in Task
BY ConstantsAssumption
   DEF NoTrip, NoCharge, NoClose, NoTask, TripRecord, ChargeRecord,
       CloseTimer, Task, Reading, Unread

LEMMA NoAttempt == 0 \in 0..Retries
BY ConstantsAssumption

LEMMA OpenTripType ==
  ASSUME TypeOK, NEW odoNow \in Reading, OpenTrip(odoNow)
  PROVE  /\ trip' \in TripRecord /\ opened' \in Nat
         /\ pendingOpen' \in 0..Retries /\ liveTick' \in BOOLEAN
<1>1. opened + 1 \in Nat /\ opened' = opened + 1 /\ pendingOpen' = 0
  BY DEF TypeOK, OpenTrip, CancelPendingOpen
<1>2. trip' = [id |-> opened + 1, odoStart |-> odoNow, idle |-> 0,
               old |-> FALSE]
  BY DEF OpenTrip, NoTrip
<1>3. trip' \in TripRecord
  BY <1>1, <1>2 DEF TripRecord
<1>. QED BY <1>1, <1>3, ConstantsAssumption DEF OpenTrip

LEMMA OpenChargeType ==
  ASSUME TypeOK, OpenCharge
  PROVE  charge' \in ChargeRecord /\ sessions' \in Nat
BY ReadingType DEF TypeOK, OpenCharge, ChargeRecord

LEMMA SuspendType ==
  ASSUME TypeOK, NEW task \in Task, Suspend(task)
  PROVE  tasks' \in [Slots -> Task]
BY DEF TypeOK, Suspend

LEMMA CloseTripType ==
  ASSUME TypeOK, NEW end \in Nat, NEW then \in {"nothing", "open_charge"},
         NEW ACTION Continue, CloseTrip(end, then, Continue)
  PROVE  /\ trip' \in TripRecord /\ liveTick' \in BOOLEAN
         /\ tasks' \in [Slots -> Task] /\ dropped' \subseteq Nat
         /\ repeated' \subseteq Nat /\ cleared' \subseteq Nat
         /\ Continue \/ UNCHANGED <<charge, sessions>>
<1>1. CASE UNCHANGED <<trip, liveTick, tasks, ended>> /\ Continue
  BY <1>1 DEF TypeOK
<1>2. CASE /\ liveTick' = FALSE /\ trip' = NoTrip
           /\ dropped' = dropped \cup {trip.id} /\ repeated' = Repeats
           /\ UNCHANGED <<tasks, cleared>> /\ Continue
  BY <1>2, EmptyTypes DEF TypeOK, TripRecord, Repeats
<1>3. CASE
        /\ liveTick' = FALSE
        /\ Suspend([kind |-> "trip", of |-> trip.id, start |-> trip.odoStart,
                    stop |-> odo, end |-> end, pc |-> "insert",
                    then |-> then, detached |-> FALSE])
        /\ HoldsTrip /\ repeated' = Repeats
        /\ UNCHANGED <<charge, sessions, dropped, cleared>>
  <2>1. [kind |-> "trip", of |-> trip.id, start |-> trip.odoStart,
         stop |-> odo, end |-> end, pc |-> "insert", then |-> then,
         detached |-> FALSE] \in Task
    BY DEF TypeOK, TripRecord, Task
  <2>2. repeated' \subseteq Nat
    BY <1>3 DEF Repeats, TypeOK, TripRecord
  <2>. QED BY <1>3, <2>1, <2>2, SuspendType DEF HoldsTrip, TypeOK
<1>. QED BY <1>1, <1>2, <1>3 DEF CloseTrip

LEMMA AfterChargeType ==
  ASSUME TypeOK, NEW then, NEW on, NEW timer \in 0..Retries,
         AfterCharge(then, on, timer)
  PROVE  /\ trip' \in TripRecord /\ opened' \in Nat
         /\ pendingOpen' \in 0..Retries /\ liveTick' \in BOOLEAN
<1>1. OdoRead \in Reading
  BY ReadingType DEF TypeOK
<1>. QED BY <1>1, OpenTripType DEF AfterCharge, TypeOK

LEMMA CloseChargeType ==
  ASSUME TypeOK, NEW then \in {"open_trip", "resume_trip"}, NEW on,
         NEW timer \in 0..Retries, CloseCharge(then, on, timer)
  PROVE  /\ trip' \in TripRecord /\ opened' \in Nat
         /\ pendingOpen' \in 0..Retries /\ liveTick' \in BOOLEAN
         /\ charge' \in ChargeRecord /\ tasks' \in [Slots -> Task]
<1>1. [NoTask EXCEPT !.kind = "charge", !.of = charge.id, !.then = then]
        \in Task
  BY EmptyTypes DEF TypeOK, ChargeRecord, Task, NoTask
<1>. QED BY <1>1, EmptyTypes, AfterChargeType, SuspendType
         DEF CloseCharge, TypeOK

LEMMA TryLiveOpenType ==
  ASSUME TypeOK, NEW v, NEW attempt \in 0..Retries, TryLiveOpen(v, attempt)
  PROVE  /\ trip' \in TripRecord /\ opened' \in Nat
         /\ pendingOpen' \in 0..Retries /\ liveTick' \in BOOLEAN
         /\ charge' \in ChargeRecord /\ tasks' \in [Slots -> Task]
<1>1. NextAttempt(attempt) \in 0..Retries /\ 0 \in 0..Retries
  BY ConstantsAssumption DEF NextAttempt
<1>2. \A n \in 0..Retries : OpensNothing(n) =>
        /\ trip' \in TripRecord /\ opened' \in Nat
        /\ pendingOpen' \in 0..Retries /\ liveTick' \in BOOLEAN
        /\ charge' \in ChargeRecord /\ tasks' \in [Slots -> Task]
  BY DEF OpensNothing, TypeOK
<1>3. CloseCharge("open_trip", TRUE, 0) =>
        /\ trip' \in TripRecord /\ opened' \in Nat
        /\ pendingOpen' \in 0..Retries /\ liveTick' \in BOOLEAN
        /\ charge' \in ChargeRecord /\ tasks' \in [Slots -> Task]
  BY <1>1, CloseChargeType
<1>4. OpenTrip(odo) /\ UNCHANGED <<charge, tasks>> =>
        /\ trip' \in TripRecord /\ opened' \in Nat
        /\ pendingOpen' \in 0..Retries /\ liveTick' \in BOOLEAN
        /\ charge' \in ChargeRecord /\ tasks' \in [Slots -> Task]
  BY ReadingType, OpenTripType DEF TypeOK
<1>. QED BY <1>1, <1>2, <1>3, <1>4 DEF TryLiveOpen
-----------------------------------------------------------------------------
(***************************************************************************)
(* Type correctness, one lemma per group of actions.                       *)
(***************************************************************************)
LEMMA InitType == Init => TypeOK
<1>. SUFFICES ASSUME Init PROVE TypeOK
  OBVIOUS
<1>1. tasks \in [Slots -> Task]
  BY EmptyTypes DEF Init
<1>2. trip \in TripRecord /\ charge \in ChargeRecord
        /\ pendingClose \in CloseTimer
  BY EmptyTypes DEF Init
<1>3. /\ vehicleOn \in SensorStates /\ charging \in SensorStates
      /\ odo \in 0..MaxOdo /\ odoSeen \in {"fresh", "stale", "unknown"}
      /\ pendingOpen \in 0..Retries
  BY ConstantsAssumption DEF Init, SensorStates
<1>. QED BY <1>1, <1>2, <1>3 DEF Init, TypeOK

LEMMA SensorsType ==
  ASSUME TypeOK, Sensors
  PROVE  TypeOK'
<1>. USE DEF SensorStates
<1>0. OdoRead \in Reading /\ odo \in Reading /\ Unread \in Reading
  BY ReadingType DEF TypeOK
<1>1. CASE VehicleReportsOn
  <2>2. CASE TryLiveOpen("on", 0) /\ UNCHANGED pendingClose
    BY <1>1, <2>2, NoAttempt, TryLiveOpenType DEF VehicleReportsOn, rows, TypeOK
  <2>3. CASE /\ CancelPendingClose
             /\ UNCHANGED <<trip, charge, pendingOpen, liveTick, tasks, opened>>
    BY <1>1, <2>3, EmptyTypes DEF VehicleReportsOn, CancelPendingClose,
                                        rows, TypeOK
  <2>4. CASE UNCHANGED <<memory, tasks, opened>>
    BY <1>1, <2>4 DEF VehicleReportsOn, memory, rows, TypeOK
  <2>. QED BY <1>1, <2>2, <2>3, <2>4 DEF VehicleReportsOn
<1>2. CASE VehicleReportsOff
  <2>1. [on |-> TRUE, odo |-> OdoRead, end |-> opened, defers |-> 0]
          \in CloseTimer
    BY <1>0 DEF TypeOK, CloseTimer
  <2>2. pendingClose' \in CloseTimer /\ pendingOpen' \in 0..Retries
    BY <1>2, <2>1, NoAttempt
       DEF VehicleReportsOff, CancelPendingOpen, TypeOK
  <2>. QED BY <1>2, <2>2 DEF VehicleReportsOff, rows, counters, TypeOK
<1>3. CASE VehicleDropsOut
  BY <1>3 DEF VehicleDropsOut, memory, rows, counters, TypeOK
<1>4. ASSUME NEW now \in Reading, NEW fresh, NEW isOdometer,
             MetricChanged(now, fresh, isOdometer)
      PROVE  /\ trip' \in TripRecord /\ opened' \in Nat
             /\ pendingOpen' \in 0..Retries /\ liveTick' \in BOOLEAN
  <2>1. CASE OpenTrip(now)
    BY <2>1, OpenTripType
  <2>2. CASE /\ trip' \in {trip, [trip EXCEPT !.idle = 0]}
             /\ UNCHANGED <<liveTick, pendingOpen, opened>>
    BY <2>2 DEF TypeOK, TripRecord
  <2>. QED BY <1>4, <2>1, <2>2 DEF MetricChanged
<1>5. CASE \E now \in 0..MaxOdo : OdometerReports(now)
  <2>. PICK now \in 0..MaxOdo : OdometerReports(now)
    BY <1>5
  <2>1. now \in Reading
    BY ConstantsAssumption DEF Reading, Unread
  <2>. QED BY <2>1, <1>4 DEF OdometerReports, rows, TypeOK
<1>6. CASE OdometerDropsOut
  BY <1>0, <1>4, <1>6 DEF OdometerDropsOut, rows, TypeOK
<1>7. CASE BatteryReports
  BY <1>0, <1>4, <1>7 DEF BatteryReports, sensors, rows, TypeOK
<1>8. CASE SpeedReports
  BY <1>8 DEF SpeedReports, sensors, rows, counters, TypeOK, TripRecord
<1>9. CASE ChargeReportsOn
  <2>1. trip.id \in Nat
    BY DEF TypeOK, TripRecord
  <2>2. CASE OpenCharge /\ UNCHANGED <<trip, liveTick, tasks, ended>>
    BY <1>9, <2>2, OpenChargeType DEF ChargeReportsOn, rows, TypeOK
  <2>3. CASE CloseTrip(trip.id, "open_charge", OpenCharge)
    BY <1>9, <2>1, <2>3, CloseTripType, OpenChargeType
       DEF ChargeReportsOn, rows, TypeOK
  <2>4. CASE UNCHANGED <<trip, charge, liveTick, tasks, sessions, ended>>
    BY <1>9, <2>4 DEF ChargeReportsOn, rows, TypeOK
  <2>. QED BY <1>9, <2>2, <2>3, <2>4 DEF ChargeReportsOn
<1>10. CASE ChargeReportsOff
  BY <1>10, CloseChargeType DEF ChargeReportsOff, OpensNothing, rows, TypeOK
<1>11. CASE ChargeDropsOut
  BY <1>11 DEF ChargeDropsOut, memory, rows, counters, TypeOK
<1>. QED BY <1>1, <1>2, <1>3, <1>5, <1>6, <1>7, <1>8, <1>9, <1>10, <1>11
         DEF Sensors, OtherReports

LEMMA TimeType ==
  ASSUME TypeOK, Time
  PROVE  TypeOK'
<1>1. CASE OdometerGoesStale
  BY <1>1 DEF OdometerGoesStale, memory, rows, counters, TypeOK
<1>2. CASE TripIdles
  BY <1>2 DEF TripIdles, sensors, rows, counters, TypeOK, TripRecord
<1>3. CASE TripAges
  BY <1>3 DEF TripAges, sensors, rows, counters, TypeOK, TripRecord
<1>. QED BY <1>1, <1>2, <1>3 DEF Time

LEMMA CloseTripOnlyType ==
  ASSUME TypeOK, NEW end \in Nat, CloseTripOnly(end)
  PROVE  /\ trip' \in TripRecord /\ liveTick' \in BOOLEAN
         /\ tasks' \in [Slots -> Task] /\ dropped' \subseteq Nat
         /\ repeated' \subseteq Nat /\ cleared' \subseteq Nat
         /\ UNCHANGED <<charge, sessions>>
<1>1. CloseTrip(end, "nothing", UNCHANGED <<charge, sessions>>)
  BY DEF CloseTripOnly
<1>. QED BY <1>1, CloseTripType

LEMMA TimersType ==
  ASSUME TypeOK, Timers
  PROVE  TypeOK'
<1>0. trip.id \in Nat /\ opened \in Nat /\ pendingClose.end \in Nat
  BY DEF TypeOK, TripRecord, CloseTimer
<1>1. CASE RetryFires
  BY <1>1, TryLiveOpenType DEF RetryFires, sensors, rows, TypeOK
<1>2. CASE DebounceDefers
  <2>1. OdoRead \in Reading
    BY ReadingType DEF TypeOK
  <2>2. [on |-> TRUE, odo |-> OdoRead, end |-> opened,
         defers |-> pendingClose.defers + 1] \in CloseTimer
    BY <2>1 DEF TypeOK, CloseTimer
  <2>. QED BY <1>2, <2>2
           DEF DebounceDefers, sensors, rows, counters, TypeOK
<1>3. CASE DebounceCloses
  <2>1. CloseTripOnly(pendingClose.end)
    BY <1>3 DEF DebounceCloses
  <2>. QED BY <1>0, <1>3, <2>1, CloseTripOnlyType, EmptyTypes
           DEF DebounceCloses, sensors, rows, TypeOK
<1>4. CASE LiveTickCloses
  BY <1>0, <1>4, CloseTripOnlyType DEF LiveTickCloses, sensors, rows, TypeOK
<1>5. CASE StuckWatchdogCloses
  BY <1>0, <1>5, CloseTripOnlyType
     DEF StuckWatchdogCloses, sensors, rows, TypeOK
<1>. QED BY <1>1, <1>2, <1>3, <1>4, <1>5 DEF Timers

LEMMA TasksType ==
  ASSUME TypeOK, Tasks
  PROVE  TypeOK'
<1>. PICK s \in Slots : InsertTrip(s) \/ FinishTrip(s) \/ InsertCharge(s)
                          \/ FinishCharge(s) \/ TaskFails(s)
  BY DEF Tasks
<1>0. tasks[s] \in Task
  BY DEF TypeOK
<1>1. CASE InsertTrip(s)
  <2>1. [tasks[s] EXCEPT !.pc = "finish"] \in Task
    BY <1>0 DEF Task
  <2>2. tasks' \in [Slots -> Task]
    BY <1>1, <2>1 DEF InsertTrip, TypeOK
  <2>3. tasks[s].start \in Reading
    BY <1>0 DEF Task
  <2>4. TripOf(s) \in TripRow
    BY <1>0, <2>3 DEF TripOf, TripRow, Task
  <2>. QED BY <1>1, <2>2, <2>4 DEF InsertTrip, sensors, memory, counters, TypeOK
<1>2. CASE FinishTrip(s)
  BY <1>2, EmptyTypes, OpenChargeType
     DEF FinishTrip, ClearCurrent, sensors, rows, TypeOK, TripRecord
<1>3. CASE InsertCharge(s)
  <2>1. [tasks[s] EXCEPT !.pc = "finish"] \in Task
    BY <1>0 DEF Task
  <2>2. tasks' \in [Slots -> Task]
    BY <1>3, <2>1 DEF InsertCharge, TypeOK
  <2>3. tasks[s].of \in Nat
    BY <1>0 DEF Task
  <2>. QED BY <1>3, <2>2, <2>3
           DEF InsertCharge, sensors, memory, counters, TypeOK
<1>4. CASE FinishCharge(s)
  <2>1. tasks' \in [Slots -> Task]
    BY <1>4, EmptyTypes DEF FinishCharge, TypeOK
  <2>2. /\ trip' \in TripRecord /\ opened' \in Nat
        /\ pendingOpen' \in 0..Retries /\ liveTick' \in BOOLEAN
    BY <1>4, AfterChargeType DEF FinishCharge, TypeOK
  <2>. QED BY <1>4, <2>1, <2>2 DEF FinishCharge, sensors, rows, TypeOK
<1>5. CASE TaskFails(s)
  <2>1. tasks[s].of \in Nat
    BY <1>0 DEF Task
  <2>2. repeated' \subseteq Nat
    BY <1>5, <2>1 DEF TaskFails, TypeOK
  <2>. QED BY <1>5, <2>2, EmptyTypes DEF TaskFails, sensors, memory, rows, TypeOK
<1>. QED BY <1>1, <1>2, <1>3, <1>4, <1>5

LEMMA ControlType ==
  ASSUME TypeOK, Control
  PROVE  TypeOK'
<1>0. OdoRead \in Reading
  BY ReadingType DEF TypeOK
<1>1. CASE StartTripService
  BY <1>0, <1>1, OpenTripType DEF StartTripService, sensors, rows, TypeOK
<1>2. CASE EndTripService
  <2>1. opened \in Nat
    BY DEF TypeOK
  <2>. QED BY <1>2, <2>1, CloseTripOnlyType
           DEF EndTripService, sensors, rows, TypeOK
<1>3. CASE \E crash \in BOOLEAN : Stop(crash)
  <2>. PICK crash \in BOOLEAN : Stop(crash)
    BY <1>3
  <2>1. \A s \in Slots : [tasks[s] EXCEPT !.detached = TRUE] \in Task
    BY DEF TypeOK, Task
  <2>2. tasks' \in [Slots -> Task]
    BY <2>1, EmptyTypes DEF Stop
  <2>3. dropped' \subseteq Nat
    BY DEF Stop, TypeOK, TripRecord
  <2>4. /\ trip' \in TripRecord /\ charge' \in ChargeRecord
        /\ pendingClose' \in CloseTimer /\ pendingOpen' \in 0..Retries
        /\ liveTick' \in BOOLEAN
    BY EmptyTypes, NoAttempt DEF Stop, CancelTimers
  <2>5. /\ phase' \in {"up", "starting", "stopped"}
        /\ reloads' \in Nat
        /\ UNCHANGED <<sensors, rows, opened, sessions, repeated, cleared, failures>>
    BY DEF Stop, TypeOK
  <2>. QED BY <2>2, <2>3, <2>4, <2>5 DEF sensors, rows, TypeOK
<1>4. ResumeTrip => /\ trip' \in TripRecord /\ opened' \in Nat
                    /\ pendingOpen' \in 0..Retries /\ liveTick' \in BOOLEAN
  BY <1>0, OpenTripType DEF ResumeTrip, TypeOK
<1>5. ResumeCharge => charge' \in ChargeRecord /\ sessions' \in Nat
  BY OpenChargeType DEF ResumeCharge, TypeOK
<1>6. CASE Start
  BY <1>4, <1>5, <1>6 DEF Start, sensors, rows, TypeOK
<1>7. CASE HaStarted
  BY <1>4, <1>5, <1>7 DEF HaStarted, sensors, rows, TypeOK
<1>. QED BY <1>1, <1>2, <1>3, <1>6, <1>7 DEF Control

LEMMA TypeStep == TypeOK /\ [Next]_vars => TypeOK'
<1>. SUFFICES ASSUME TypeOK, [Next]_vars PROVE TypeOK'
  OBVIOUS
<1>1. CASE Next
  BY <1>1, SensorsType, TimeType, TimersType, TasksType, ControlType DEF Next
<1>2. CASE UNCHANGED vars
  BY <1>2 DEF vars, sensors, memory, rows, counters, TypeOK
<1>. QED BY <1>1, <1>2

\* The state of the coordinator, of its timers and coroutines and of the
\* database always has its types; no bound of the runs is used.
THEOREM TypeInvariant == Spec => []TypeOK
BY InitType, TypeStep, PTL DEF Spec
-----------------------------------------------------------------------------
(***************************************************************************)
(* No path opens a trip, or a session, over one that is open.  This needs  *)
(* no invariant: every path reads the session again in the step that opens *)
(* it.                                                                     *)
(***************************************************************************)
KeepsTrip == TripOpen /\ trip'.id # 0 => trip'.id = trip.id
KeepsCharge == ChargeOpen /\ charge'.id # 0 => charge'.id = charge.id

LEMMA ClearedIds == NoTrip.id = 0 /\ NoCharge.id = 0
BY DEF NoTrip, NoCharge

LEMMA CloseTripKeeps ==
  ASSUME NEW end, NEW then, NEW ACTION Continue, CloseTrip(end, then, Continue)
  PROVE  KeepsTrip
BY ClearedIds DEF CloseTrip, HoldsTrip, KeepsTrip

LEMMA CloseChargeKeeps ==
  ASSUME NEW then, NEW on, NEW timer, CloseCharge(then, on, timer)
  PROVE  KeepsTrip /\ KeepsCharge
BY ClearedIds DEF CloseCharge, AfterCharge, WantsTrip, KeepsTrip, KeepsCharge

LEMMA TryLiveOpenKeeps ==
  ASSUME NEW v, NEW attempt, TryLiveOpen(v, attempt)
  PROVE  KeepsTrip /\ KeepsCharge
<1>1. \A n : OpensNothing(n) => KeepsTrip /\ KeepsCharge
  BY DEF OpensNothing, KeepsTrip, KeepsCharge
<1>2. CloseCharge("open_trip", TRUE, 0) => KeepsTrip /\ KeepsCharge
  BY CloseChargeKeeps
<1>3. ~TripOpen /\ UNCHANGED <<charge, tasks>> => KeepsTrip /\ KeepsCharge
  BY DEF KeepsTrip, KeepsCharge
<1>. QED BY <1>1, <1>2, <1>3 DEF TryLiveOpen

LEMMA MetricKeeps ==
  ASSUME TypeOK, NEW now, NEW fresh, NEW isOdometer,
         MetricChanged(now, fresh, isOdometer)
  PROVE  KeepsTrip
BY DEF MetricChanged, KeepsTrip, TypeOK, TripRecord

LEMMA SensorsKeep ==
  ASSUME TypeOK, Sensors
  PROVE  KeepsTrip /\ KeepsCharge
<1>0. UNCHANGED trip => KeepsTrip
  BY DEF KeepsTrip
<1>00. UNCHANGED charge => KeepsCharge
  BY DEF KeepsCharge
<1>1. CASE VehicleReportsOn
  BY <1>0, <1>00, <1>1, TryLiveOpenKeeps DEF VehicleReportsOn, memory
<1>2. CASE VehicleReportsOff
  BY <1>0, <1>00, <1>2 DEF VehicleReportsOff
<1>3. CASE VehicleDropsOut
  BY <1>0, <1>00, <1>3 DEF VehicleDropsOut, memory
<1>4. CASE \E now \in 0..MaxOdo : OdometerReports(now)
  BY <1>00, <1>4, MetricKeeps DEF OdometerReports
<1>5. CASE OdometerDropsOut
  BY <1>00, <1>5, MetricKeeps DEF OdometerDropsOut
<1>6. CASE BatteryReports
  BY <1>00, <1>6, MetricKeeps DEF BatteryReports
<1>7. CASE SpeedReports
  BY <1>00, <1>7 DEF SpeedReports, KeepsTrip, TypeOK, TripRecord
<1>8. CASE ChargeReportsOn
  <2>1. CASE ~ChargeOpen /\ UNCHANGED trip
    BY <1>0, <2>1 DEF KeepsCharge
  <2>2. CASE ~ChargeOpen /\ CloseTrip(trip.id, "open_charge", OpenCharge)
    BY <2>2, CloseTripKeeps DEF KeepsCharge
  <2>3. CASE UNCHANGED <<trip, charge>>
    BY <1>0, <1>00, <2>3
  <2>. QED BY <1>8, <2>1, <2>2, <2>3 DEF ChargeReportsOn
<1>9. CASE ChargeReportsOff
  BY <1>0, <1>00, <1>9, CloseChargeKeeps DEF ChargeReportsOff, OpensNothing
<1>10. CASE ChargeDropsOut
  BY <1>0, <1>00, <1>10 DEF ChargeDropsOut, memory
<1>. QED BY <1>1, <1>2, <1>3, <1>4, <1>5, <1>6, <1>7, <1>8, <1>9, <1>10
         DEF Sensors, OtherReports

LEMMA StepKeeps ==
  ASSUME TypeOK, [Next]_vars
  PROVE  KeepsTrip /\ KeepsCharge
<1>0. UNCHANGED trip => KeepsTrip
  BY DEF KeepsTrip
<1>00. UNCHANGED charge => KeepsCharge
  BY DEF KeepsCharge
<1>1. CASE Sensors
  BY <1>1, SensorsKeep
<1>2. CASE Time
  BY <1>0, <1>00, <1>2
     DEF Time, OdometerGoesStale, TripIdles, TripAges, memory, KeepsTrip,
         TypeOK, TripRecord
<1>3. ASSUME NEW end, CloseTripOnly(end) PROVE KeepsTrip /\ KeepsCharge
  <2>1. CloseTrip(end, "nothing", UNCHANGED <<charge, sessions>>)
    BY <1>3 DEF CloseTripOnly
  <2>2. UNCHANGED charge
    BY <2>1 DEF CloseTrip
  <2>. QED BY <1>00, <2>1, <2>2, CloseTripKeeps
<1>4. CASE Timers
  BY <1>0, <1>00, <1>3, <1>4, TryLiveOpenKeeps
     DEF Timers, RetryFires, DebounceDefers, DebounceCloses, LiveTickCloses,
         StuckWatchdogCloses
<1>5. CASE Tasks
  <2>. PICK s \in Slots : InsertTrip(s) \/ FinishTrip(s) \/ InsertCharge(s)
                            \/ FinishCharge(s) \/ TaskFails(s)
    BY <1>5 DEF Tasks
  <2>1. CASE InsertTrip(s) \/ InsertCharge(s) \/ TaskFails(s)
    BY <1>0, <1>00, <2>1 DEF InsertTrip, InsertCharge, TaskFails, memory
  <2>2. CASE FinishTrip(s)
    BY <1>0, <1>00, <2>2, ClearedIds
       DEF FinishTrip, ClearCurrent, WantsCharge, KeepsTrip, KeepsCharge
  <2>3. CASE FinishCharge(s)
    BY <1>0, <1>00, <2>3 DEF FinishCharge, AfterCharge, WantsTrip, KeepsTrip
  <2>. QED BY <2>1, <2>2, <2>3
<1>6. CASE Control
  <2>1. ResumeTrip => KeepsTrip
    BY <1>0 DEF ResumeTrip, KeepsTrip
  <2>2. ResumeCharge => KeepsCharge
    BY <1>00 DEF ResumeCharge, KeepsCharge
  <2>3. CASE StartTripService
    BY <1>00, <2>3 DEF StartTripService, KeepsTrip
  <2>4. CASE EndTripService
    BY <1>3, <2>4 DEF EndTripService
  <2>5. CASE \E crash \in BOOLEAN : Stop(crash)
    BY <2>5, ClearedIds DEF Stop, KeepsTrip, KeepsCharge
  <2>6. CASE Start
    BY <1>0, <1>00, <2>1, <2>2, <2>6 DEF Start
  <2>7. CASE HaStarted
    BY <2>1, <2>2, <2>7 DEF HaStarted
  <2>. QED BY <1>6, <2>3, <2>4, <2>5, <2>6, <2>7 DEF Control
<1>7. CASE UNCHANGED vars
  BY <1>0, <1>00, <1>7 DEF vars, memory
<1>. QED BY <1>1, <1>2, <1>4, <1>5, <1>6, <1>7 DEF Next

\* A trip is never opened over an open one: not by an edge, a retry, a metric,
\* a closed charge, a service or a resume at startup.
THEOREM TripsNeverOverwritten == Spec => TripNeverOverwritten
<1>1. TypeOK /\ [Next]_vars =>
        [TripOpen /\ trip'.id # 0 => trip'.id = trip.id]_vars
  BY StepKeeps DEF KeepsTrip
<1>. QED BY <1>1, TypeInvariant, PTL DEF Spec, TripNeverOverwritten

\* Nor is a charge session opened over an open one.
THEOREM ChargesNeverOverwritten == Spec => ChargeNeverOverwritten
<1>1. TypeOK /\ [Next]_vars =>
        [ChargeOpen /\ charge'.id # 0 => charge'.id = charge.id]_vars
  BY StepKeeps DEF KeepsCharge
<1>. QED BY <1>1, TypeInvariant, PTL DEF Spec, ChargeNeverOverwritten
-----------------------------------------------------------------------------
(***************************************************************************)
(* The pending timers.  An off report that arrives while the entry is      *)
(* unloaded cancels nothing, so the invariant needs StoppedClear.          *)
(***************************************************************************)
Waits(v) == pendingOpen' # 0 => trip'.id = 0 /\ v # "off"

LEMMA OpenTripWaits ==
  ASSUME NEW odoNow, OpenTrip(odoNow) PROVE pendingOpen' = 0
BY DEF OpenTrip, CancelPendingOpen

LEMMA CloseTripWaits ==
  ASSUME NEW end, NEW then, NEW ACTION Continue,
         CloseTrip(end, then, Continue)
  PROVE  trip' \in {trip, NoTrip}
BY DEF CloseTrip, HoldsTrip

LEMMA CloseTripOnlyWaits ==
  ASSUME NEW end, CloseTripOnly(end)
  PROVE  trip' \in {trip, NoTrip}
BY DEF CloseTrip, CloseTripOnly, HoldsTrip

LEMMA AfterChargeWaits ==
  ASSUME TimerInvariant, NEW then, NEW on,
         AfterCharge(then, on, pendingOpen)
  PROVE  Waits(vehicleOn)
BY OpenTripWaits
   DEF AfterCharge, Waits, TimerInvariant, RetryOnlyWhileWaiting, TripOpen

LEMMA CloseChargeWaits ==
  ASSUME TimerInvariant, NEW then, NEW on,
         CloseCharge(then, on, pendingOpen)
  PROVE  Waits(vehicleOn)
BY AfterChargeWaits
   DEF CloseCharge, Waits, TimerInvariant, RetryOnlyWhileWaiting, TripOpen

LEMMA TryLiveOpenWaits ==
  ASSUME NEW v, NEW attempt, TryLiveOpen(v, attempt)
  PROVE  pendingOpen' # 0 => trip'.id = 0 /\ v = "on"
<1>1. OpensNothing(0) => pendingOpen' = 0
  BY DEF OpensNothing
<1>2. CloseCharge("open_trip", TRUE, 0) => pendingOpen' = 0
  BY OpenTripWaits DEF CloseCharge, AfterCharge
<1>3. ~TripOpen /\ OpensNothing(NextAttempt(attempt)) => trip'.id = 0
  BY DEF OpensNothing, TripOpen
<1>. QED BY <1>1, <1>2, <1>3, OpenTripWaits DEF TryLiveOpen

LEMMA MetricWaits ==
  ASSUME TypeOK, TimerInvariant, NEW now, NEW fresh, NEW isOdometer,
         MetricChanged(now, fresh, isOdometer)
  PROVE  /\ pendingOpen' # 0 => trip'.id = 0 /\ pendingOpen' = pendingOpen
         /\ ~Listening => UNCHANGED <<trip, pendingOpen>>
<1>1. CASE OpenTrip(now) /\ Listening
  BY <1>1, OpenTripWaits
<1>2. CASE /\ trip' = IF Listening /\ TripOpen /\ isOdometer
                        THEN [trip EXCEPT !.idle = 0] ELSE trip
           /\ UNCHANGED pendingOpen
  BY <1>2 DEF TypeOK, TripRecord, TimerInvariant, RetryOnlyWhileWaiting, TripOpen
<1>. QED BY <1>1, <1>2 DEF MetricChanged

LEMMA SensorsWait ==
  ASSUME TypeOK, TimerInvariant, Sensors
  PROVE  TimerInvariant'
<1>. USE DEF TimerInvariant, StoppedClear, RetryOnlyWhileWaiting,
             NoCloseWhileOn, TripOpen, Listening
<1>0. vehicleOn \in SensorStates /\ NoClose.on = FALSE
  BY DEF TypeOK, NoClose
<1>1. CASE VehicleReportsOn
  <2>1. CASE ~Listening /\ UNCHANGED <<memory, tasks>>
    BY <1>1, <2>1 DEF VehicleReportsOn, memory
  <2>2. CASE /\ Listening /\ CancelPendingClose
             /\ UNCHANGED <<trip, pendingOpen>>
    BY <1>0, <1>1, <2>2 DEF VehicleReportsOn, CancelPendingClose
  <2>3. CASE /\ Listening /\ ~pendingClose.on /\ TripOpen
             /\ UNCHANGED <<memory, tasks>>
    BY <1>1, <2>3 DEF VehicleReportsOn, memory
  <2>4. CASE /\ Listening /\ ~pendingClose.on /\ TryLiveOpen("on", 0)
             /\ UNCHANGED pendingClose
    BY <1>1, <2>4, TryLiveOpenWaits DEF VehicleReportsOn
  <2>. QED BY <1>1, <2>1, <2>2, <2>3, <2>4 DEF VehicleReportsOn
<1>2. CASE VehicleReportsOff
  BY <1>2 DEF VehicleReportsOff, CancelPendingOpen
<1>3. CASE VehicleDropsOut
  BY <1>3 DEF VehicleDropsOut, memory
<1>4. ASSUME NEW now, NEW fresh, NEW isOdometer,
             MetricChanged(now, fresh, isOdometer),
             UNCHANGED <<vehicleOn, phase, charge, pendingClose, tasks>>
      PROVE  TimerInvariant'
  BY <1>4, MetricWaits
<1>5. CASE \E now \in 0..MaxOdo : OdometerReports(now)
  BY <1>4, <1>5 DEF OdometerReports
<1>6. CASE OdometerDropsOut
  BY <1>4, <1>6 DEF OdometerDropsOut
<1>7. CASE BatteryReports
  BY <1>4, <1>7 DEF BatteryReports, sensors
<1>8. CASE SpeedReports
  BY <1>8 DEF SpeedReports, sensors, TypeOK, TripRecord
<1>9. CASE ChargeReportsOn
  <2>1. NoTrip.id = 0
    BY ClearedIds
  <2>2. CASE /\ Listening /\ ~ChargeOpen /\ TripOpen
             /\ CloseTrip(trip.id, "open_charge", OpenCharge)
    BY <1>9, <2>1, <2>2, CloseTripWaits DEF ChargeReportsOn
  <2>3. CASE Listening /\ UNCHANGED trip
    BY <1>9, <2>3 DEF ChargeReportsOn
  <2>4. CASE ~Listening /\ UNCHANGED <<trip, charge, tasks>>
    BY <1>9, <2>4 DEF ChargeReportsOn
  <2>. QED BY <1>9, <2>2, <2>3, <2>4 DEF ChargeReportsOn
<1>10. CASE ChargeReportsOff
  <2>1. CASE Listening /\ CloseCharge("resume_trip", vehicleOn = "on", pendingOpen)
    BY <1>10, <2>1, CloseChargeWaits DEF ChargeReportsOff, Waits
  <2>2. CASE OpensNothing(pendingOpen)
    BY <1>10, <2>2 DEF ChargeReportsOff, OpensNothing
  <2>. QED BY <1>10, <2>1, <2>2 DEF ChargeReportsOff
<1>11. CASE ChargeDropsOut
  BY <1>11 DEF ChargeDropsOut, memory
<1>. QED BY <1>1, <1>2, <1>3, <1>5, <1>6, <1>7, <1>8, <1>9, <1>10, <1>11
         DEF Sensors, OtherReports

LEMMA TimersWait ==
  ASSUME TypeOK, TimerInvariant, Time \/ Timers
  PROVE  TimerInvariant'
<1>. USE DEF TimerInvariant, StoppedClear, RetryOnlyWhileWaiting,
             NoCloseWhileOn, TripOpen, Listening
<1>0. NoTrip.id = 0 /\ NoClose.on = FALSE
  BY ClearedIds DEF NoClose
<1>1. CASE Time
  BY <1>0, <1>1 DEF Time, OdometerGoesStale, TripIdles, TripAges, memory, sensors,
              TypeOK, TripRecord
<1>2. CASE RetryFires
  BY <1>2, TryLiveOpenWaits DEF RetryFires, sensors
<1>3. CASE DebounceDefers
  BY <1>3 DEF DebounceDefers, sensors
<1>4. CASE DebounceCloses
  BY <1>0, <1>4, CloseTripOnlyWaits DEF DebounceCloses, sensors
<1>5. CASE LiveTickCloses
  BY <1>0, <1>5, CloseTripOnlyWaits DEF LiveTickCloses, sensors
<1>6. CASE StuckWatchdogCloses
  BY <1>0, <1>6, CloseTripOnlyWaits DEF StuckWatchdogCloses, sensors
<1>. QED BY <1>1, <1>2, <1>3, <1>4, <1>5, <1>6 DEF Timers

LEMMA TasksWait ==
  ASSUME TypeOK, TimerInvariant, Tasks
  PROVE  TimerInvariant'
<1>. USE DEF TimerInvariant, StoppedClear, RetryOnlyWhileWaiting,
             NoCloseWhileOn, TripOpen, Listening
<1>. PICK s \in Slots : InsertTrip(s) \/ FinishTrip(s) \/ InsertCharge(s)
                          \/ FinishCharge(s) \/ TaskFails(s)
  BY DEF Tasks
<1>0. NoTrip.id = 0 /\ NoTask.kind = "none" /\ NoTrip \in TripRecord
  BY ClearedIds, EmptyTypes DEF NoTask
<1>1. CASE InsertTrip(s) \/ InsertCharge(s)
  <2>1. tasks[s].detached => tasks'[s].detached
    BY <1>1 DEF InsertTrip, InsertCharge, TypeOK, Task
  <2>. QED BY <1>0, <1>1, <2>1
           DEF InsertTrip, InsertCharge, sensors, memory, TypeOK
<1>2. CASE FinishTrip(s)
  BY <1>0, <1>2
     DEF FinishTrip, ClearCurrent, WantsCharge, sensors, TypeOK
<1>3. CASE FinishCharge(s)
  <2>1. CASE tasks[s].detached /\ UNCHANGED <<trip, liveTick, pendingOpen>>
    BY <1>0, <1>3, <2>1 DEF FinishCharge, sensors, TypeOK
  <2>2. CASE /\ ~tasks[s].detached
             /\ AfterCharge(tasks[s].then, vehicleOn = "on", pendingOpen)
    BY <1>0, <1>3, <2>2, AfterChargeWaits
       DEF FinishCharge, sensors, Waits, TypeOK
  <2>. QED BY <1>3, <2>1, <2>2 DEF FinishCharge
<1>4. CASE TaskFails(s)
  BY <1>4 DEF TaskFails, sensors, memory, TypeOK
<1>. QED BY <1>1, <1>2, <1>3, <1>4

LEMMA ControlWaits ==
  ASSUME TypeOK, TimerInvariant, Control
  PROVE  TimerInvariant'
<1>. USE DEF TimerInvariant, StoppedClear, RetryOnlyWhileWaiting,
             NoCloseWhileOn, TripOpen, Listening
<1>0. NoTrip.id = 0 /\ NoClose.on = FALSE
  BY ClearedIds DEF NoClose
<1>1. CASE StartTripService
  BY <1>1, OpenTripWaits DEF StartTripService, sensors
<1>2. CASE EndTripService
  BY <1>0, <1>2, CloseTripOnlyWaits DEF EndTripService, sensors
<1>3. CASE \E crash \in BOOLEAN : Stop(crash)
  <2>. PICK crash \in BOOLEAN : Stop(crash)
    BY <1>3
  <2>1. \A s \in Slots : tasks'[s] = NoTask \/ tasks'[s].detached
    BY DEF Stop, TypeOK, Task
  <2>2. /\ trip' = NoTrip /\ charge' = NoCharge /\ pendingOpen' = 0
        /\ pendingClose' = NoClose
    BY DEF Stop, CancelTimers
  <2>. QED BY <1>0, <2>1, <2>2
<1>4. ResumeTrip => \/ UNCHANGED <<trip, pendingOpen>>
                    \/ pendingOpen' = 0
  BY OpenTripWaits DEF ResumeTrip
<1>5. CASE Start
  BY <1>4, <1>5 DEF Start, sensors
<1>6. CASE HaStarted
  BY <1>4, <1>6 DEF HaStarted, sensors
<1>. QED BY <1>1, <1>2, <1>3, <1>5, <1>6 DEF Control

LEMMA TimerStep == TypeOK /\ TimerInvariant /\ [Next]_vars => TimerInvariant'
<1>. SUFFICES ASSUME TypeOK, TimerInvariant, [Next]_vars PROVE TimerInvariant'
  OBVIOUS
<1>1. CASE Next
  BY <1>1, SensorsWait, TimersWait, TasksWait, ControlWaits DEF Next
<1>2. CASE UNCHANGED vars
  BY <1>2 DEF vars, sensors, memory, TimerInvariant, StoppedClear,
              RetryOnlyWhileWaiting, NoCloseWhileOn, TripOpen
<1>. QED BY <1>1, <1>2

\* The timers of every reachable state fit the session and the car: an unloaded
\* entry has none, a retry waits for nothing that is there (_try_live_open), and
\* the debounced close is not armed while vehicle_on reads on.
THEOREM TimersInvariant == Spec => []TimerInvariant
<1>1. Init => TimerInvariant
  BY DEF Init, TimerInvariant, StoppedClear, RetryOnlyWhileWaiting,
         NoCloseWhileOn, NoClose
<1>. QED BY <1>1, TypeInvariant, TimerStep, PTL DEF Spec

\* A queued retry of the live open never meets an open trip or a car that has
\* been turned off since.
THEOREM RetriesOnlyWhileWaiting == Spec => []RetryOnlyWhileWaiting
BY TimersInvariant, PTL DEF TimerInvariant

\* The deferred close never stays armed while vehicle_on reads on.
THEOREM NoDeferredCloseWhileOn == Spec => []NoCloseWhileOn
BY TimersInvariant, PTL DEF TimerInvariant

-----------------------------------------------------------------------------
(***************************************************************************)
(* What a step may do to the open trip, and to the intervals written or    *)
(* about to be.                                                            *)
(***************************************************************************)
SameTrip ==
  trip'.id = trip.id /\ trip'.odoStart = trip.odoStart /\ opened' = opened
ClearedTrip == trip' = NoTrip /\ opened' = opened
NewTrip ==
  /\ trip'.id = opened + 1 /\ opened' = opened + 1
  /\ trip'.odoStart \in {odo', Unread}
TripMoves == SameTrip \/ ClearedTrip \/ NewTrip

NoInterval == Intervals' \subseteq Intervals
AddsInterval ==
  /\ TripOpen /\ SameTrip /\ odo' = odo /\ trip.odoStart # Unread
  /\ \E end : Intervals' \subseteq
                Intervals \cup {[trip |-> trip.id, start |-> trip.odoStart,
                                 stop |-> odo, end |-> end]}

KmStep == TripMoves /\ odo' >= odo /\ (NoInterval \/ AddsInterval)

LEMMA IntervalType ==
  ASSUME TypeOK
  PROVE  Intervals \subseteq TripRow
<1>1. ASSUME NEW s \in Slots PROVE TripOf(s) \in TripRow
  <2>1. tasks[s] \in Task
    BY DEF TypeOK
  <2>. QED BY <2>1 DEF Task, TripOf, TripRow
<1>. QED BY <1>1 DEF Intervals, TypeOK

\* What is needed of a step for KmInvariant to survive it.
LEMMA KmStepKeeps ==
  ASSUME TypeOK, TypeOK', KmInvariant, KmStep
  PROVE  KmInvariant'
<1>0. /\ odo \in Int /\ odo' \in Int /\ opened \in Nat
      /\ trip.id \in Nat /\ trip.odoStart \in Int
  BY ConstantsAssumption DEF TypeOK, TripRecord, Reading, Unread
<1>1. \A a \in Intervals :
        a.trip \in Nat /\ a.start \in Int /\ a.stop \in Int
  BY IntervalType, ConstantsAssumption DEF TripRow, Reading, Unread
<1>2. odo <= odo' /\ opened <= opened'
  BY <1>0 DEF KmStep, TripMoves, SameTrip, ClearedTrip, NewTrip
<1>3. trip'.id \in {0, opened'} /\ trip'.odoStart <= odo'
  <2>1. CASE SameTrip
    BY <1>0, <1>2, <2>1 DEF KmInvariant, SameTrip
  <2>2. CASE ClearedTrip
    BY <1>0, <1>2, <2>2 DEF ClearedTrip, NoTrip, Unread, TypeOK
  <2>3. CASE NewTrip
    BY <1>0, <1>2, <2>3 DEF NewTrip, Unread, TypeOK
  <2>. QED BY <2>1, <2>2, <2>3 DEF KmStep, TripMoves
<1>4. \A a \in Intervals :
        /\ a.trip <= opened' /\ a.start # Unread /\ a.stop <= odo'
        /\ a.trip < trip'.id =>
             trip'.odoStart = Unread \/ a.stop <= trip'.odoStart
  <2>. TAKE a \in Intervals
  <2>1. /\ a.trip <= opened /\ a.start # Unread /\ a.stop <= odo
        /\ a.trip < trip.id => trip.odoStart = Unread \/ a.stop <= trip.odoStart
    BY DEF KmInvariant
  <2>2. CASE SameTrip
    BY <1>0, <1>1, <1>2, <2>1, <2>2 DEF SameTrip
  <2>3. CASE ClearedTrip
    BY <1>0, <1>1, <1>2, <2>1, <2>3 DEF ClearedTrip, NoTrip
  <2>4. CASE NewTrip
    BY <1>0, <1>1, <1>2, <2>1, <2>4 DEF NewTrip
  <2>. QED BY <2>2, <2>3, <2>4 DEF KmStep, TripMoves
<1>5. \A a, b \in Intervals : a.trip < b.trip => a.stop <= b.start
  BY DEF KmInvariant
<1>6. CASE NoInterval
  BY <1>3, <1>4, <1>5, <1>6 DEF NoInterval, KmInvariant
<1>7. CASE AddsInterval
  <2>. PICK end : Intervals' \subseteq
         Intervals \cup {[trip |-> trip.id, start |-> trip.odoStart,
                          stop |-> odo, end |-> end]}
    BY <1>7 DEF AddsInterval
  <2>. DEFINE new == [trip |-> trip.id, start |-> trip.odoStart,
                      stop |-> odo, end |-> end]
  <2>1. /\ new.trip = trip.id /\ new.start = trip.odoStart /\ new.stop = odo
        /\ trip.id = opened /\ trip'.id = trip.id /\ opened' = opened
        /\ trip.odoStart # Unread /\ odo' = odo
    BY <1>7 DEF AddsInterval, SameTrip, TripOpen, KmInvariant
  <2>2. Intervals' \subseteq Intervals \cup {new}
    OBVIOUS
  <2>. HIDE DEF new
  <2>3. \A a \in Intervals' :
          /\ a.trip <= opened' /\ a.start # Unread /\ a.stop <= odo'
          /\ a.trip < trip'.id =>
               trip'.odoStart = Unread \/ a.stop <= trip'.odoStart
    BY <1>0, <1>4, <2>1, <2>2
  <2>4. \A a \in Intervals :
          /\ a.trip < new.trip => a.stop <= new.start
          /\ ~(new.trip < a.trip)
    BY <1>0, <1>1, <2>1 DEF KmInvariant
  <2>5. \A a, b \in Intervals' : a.trip < b.trip => a.stop <= b.start
    BY <1>0, <1>5, <2>1, <2>2, <2>4
  <2>. QED BY <1>3, <2>3, <2>5 DEF KmInvariant
<1>. QED BY <1>6, <1>7 DEF KmStep

\* The slots that hold a trip held it before, and no row is new.
LEMMA IntervalsKept ==
  ASSUME tripRows' \subseteq Intervals,
         \A s \in Slots : tasks'[s].kind = "trip" =>
           /\ tasks[s].kind = "trip"
           /\ tasks'[s].of = tasks[s].of /\ tasks'[s].start = tasks[s].start
           /\ tasks'[s].stop = tasks[s].stop /\ tasks'[s].end = tasks[s].end
  PROVE  NoInterval
BY DEF NoInterval, Intervals, TripOf

LEMMA TasksKept ==
  ASSUME UNCHANGED <<tripRows, tasks>> PROVE NoInterval
BY IntervalsKept DEF Intervals

LEMMA SuspendKm ==
  ASSUME TypeOK, NEW task \in Task, Suspend(task), UNCHANGED tripRows
  PROVE  IF task.kind = "trip"
           THEN Intervals' \subseteq
                  Intervals \cup {[trip |-> task.of, start |-> task.start,
                                   stop |-> task.stop, end |-> task.end]}
           ELSE NoInterval
<1>1. PICK q \in Slots : tasks[q] = NoTask /\ tasks' = [tasks EXCEPT ![q] = task]
  BY DEF Suspend
<1>2. tasks'[q] = task /\ \A s \in Slots \ {q} : tasks'[s] = tasks[s]
  BY <1>1 DEF TypeOK
<1>3. CASE task.kind = "trip"
  BY <1>2, <1>3 DEF Intervals, TripOf
<1>4. CASE task.kind # "trip"
  BY <1>2, <1>4, IntervalsKept DEF Intervals
<1>. QED BY <1>3, <1>4
-----------------------------------------------------------------------------
(***************************************************************************)
(* Every step is such a step.                                              *)
(***************************************************************************)
LEMMA OdoReadIs == OdoRead \in {odo, Unread}
BY DEF OdoRead

LEMMA OpenTripKm ==
  ASSUME TypeOK, NEW odoNow, OpenTrip(odoNow), odoNow \in {odo', Unread}
  PROVE  NewTrip
BY DEF OpenTrip, NewTrip, NoTrip, TypeOK

LEMMA CloseTripKm ==
  ASSUME TypeOK, NEW end \in Nat, NEW then \in {"nothing", "open_charge"},
         NEW ACTION Continue, CloseTrip(end, then, Continue),
         UNCHANGED <<odo, tripRows, opened>>
  PROVE  TripMoves /\ (NoInterval \/ AddsInterval)
<1>1. CASE UNCHANGED <<trip, tasks>>
  BY <1>1, TasksKept DEF TripMoves, SameTrip
<1>2. CASE trip' = NoTrip /\ UNCHANGED tasks
  BY <1>2, TasksKept DEF TripMoves, ClearedTrip
<1>3. CASE
        /\ TripOpen /\ Distance >= MinDistance
        /\ Suspend([kind |-> "trip", of |-> trip.id, start |-> trip.odoStart,
                    stop |-> odo, end |-> end, pc |-> "insert",
                    then |-> then, detached |-> FALSE])
        /\ UNCHANGED trip
  <2>. DEFINE task == [kind |-> "trip", of |-> trip.id,
                       start |-> trip.odoStart, stop |-> odo, end |-> end,
                       pc |-> "insert", then |-> then, detached |-> FALSE]
  <2>1. task \in Task
    BY DEF TypeOK, TripRecord, Task
  <2>2. Intervals' \subseteq
          Intervals \cup {[trip |-> task.of, start |-> task.start,
                           stop |-> task.stop, end |-> task.end]}
    BY <1>3, <2>1, SuspendKm
  <2>3. trip.odoStart # Unread
    BY <1>3, ConstantsAssumption DEF Distance
  <2>4. SameTrip /\ odo' = odo
    BY <1>3 DEF SameTrip
  <2>. QED BY <1>3, <2>2, <2>3, <2>4 DEF TripMoves, AddsInterval
<1>. QED BY <1>1, <1>2, <1>3 DEF CloseTrip, HoldsTrip

LEMMA AfterChargeKm ==
  ASSUME TypeOK, NEW then, NEW on, NEW timer, AfterCharge(then, on, timer),
         odo' = odo
  PROVE  TripMoves
BY OdoReadIs, OpenTripKm DEF AfterCharge, TripMoves, SameTrip

LEMMA CloseChargeKm ==
  ASSUME TypeOK, NEW then \in {"open_trip", "resume_trip"}, NEW on,
         NEW timer, CloseCharge(then, on, timer), UNCHANGED <<odo, tripRows>>
  PROVE  TripMoves /\ NoInterval
<1>1. CASE AfterCharge(then, on, timer) /\ UNCHANGED tasks
  BY <1>1, AfterChargeKm, TasksKept
<1>2. CASE /\ Suspend([NoTask EXCEPT !.kind = "charge", !.of = charge.id,
                                     !.then = then])
           /\ UNCHANGED <<trip, opened>>
  <2>. DEFINE task == [NoTask EXCEPT !.kind = "charge", !.of = charge.id,
                                     !.then = then]
  <2>1. task \in Task /\ task.kind # "trip"
    BY EmptyTypes DEF TypeOK, ChargeRecord, Task, NoTask
  <2>2. NoInterval
    BY <1>2, <2>1, SuspendKm
  <2>. QED BY <1>2, <2>2 DEF TripMoves, SameTrip
<1>. QED BY <1>1, <1>2 DEF CloseCharge

LEMMA TryLiveOpenKm ==
  ASSUME TypeOK, NEW v, NEW attempt, TryLiveOpen(v, attempt),
         UNCHANGED <<odo, tripRows>>
  PROVE  TripMoves /\ NoInterval
<1>1. \A n : OpensNothing(n) => TripMoves /\ NoInterval
  BY TasksKept DEF OpensNothing, TripMoves, SameTrip
<1>2. CloseCharge("open_trip", TRUE, 0) => TripMoves /\ NoInterval
  BY CloseChargeKm
<1>3. OpenTrip(odo) /\ UNCHANGED tasks => TripMoves /\ NoInterval
  BY OpenTripKm, TasksKept DEF TripMoves
<1>. QED BY <1>1, <1>2, <1>3 DEF TryLiveOpen

LEMMA MetricKm ==
  ASSUME TypeOK, NEW now, NEW fresh, NEW isOdometer,
         MetricChanged(now, fresh, isOdometer), now \in {odo', Unread}
  PROVE  TripMoves
<1>1. CASE OpenTrip(now)
  BY <1>1, OpenTripKm DEF TripMoves
<1>2. CASE trip' \in {trip, [trip EXCEPT !.idle = 0]} /\ opened' = opened
  BY <1>2 DEF TripMoves, SameTrip, TypeOK, TripRecord
<1>. QED BY <1>1, <1>2 DEF MetricChanged

LEMMA SensorsKm ==
  ASSUME TypeOK, Sensors
  PROVE  KmStep
<1>0. odo \in Int /\ odo >= odo
  BY DEF TypeOK
<1>1. CASE VehicleReportsOn
  <2>1. CASE TryLiveOpen("on", 0)
    BY <1>0, <1>1, <2>1, TryLiveOpenKm DEF VehicleReportsOn, rows, KmStep
  <2>2. CASE UNCHANGED <<trip, tasks, opened>>
    BY <1>0, <1>1, <2>2, TasksKept
       DEF VehicleReportsOn, rows, KmStep, TripMoves, SameTrip
  <2>. QED BY <1>1, <2>1, <2>2 DEF VehicleReportsOn, memory
<1>2. CASE VehicleReportsOff \/ VehicleDropsOut \/ ChargeDropsOut
  <2>1. UNCHANGED <<odo, trip, tasks, rows, opened>>
    BY <1>2 DEF VehicleReportsOff, VehicleDropsOut, ChargeDropsOut, memory,
                counters
  <2>. QED BY <1>0, <2>1, TasksKept DEF rows, KmStep, TripMoves, SameTrip
<1>3. CASE \E now \in 0..MaxOdo : OdometerReports(now)
  BY <1>3, MetricKm, TasksKept DEF OdometerReports, rows, KmStep
<1>4. CASE OdometerDropsOut
  BY <1>0, <1>4, MetricKm, TasksKept DEF OdometerDropsOut, rows, KmStep
<1>5. CASE BatteryReports
  BY <1>0, <1>5, MetricKm, TasksKept, OdoReadIs
     DEF BatteryReports, sensors, rows, KmStep
<1>6. CASE SpeedReports
  BY <1>0, <1>6, TasksKept
     DEF SpeedReports, sensors, rows, counters, KmStep, TripMoves, SameTrip,
         TypeOK, TripRecord
<1>7. CASE ChargeReportsOn
  <2>1. trip.id \in Nat
    BY DEF TypeOK, TripRecord
  <2>2. CASE UNCHANGED <<trip, tasks>>
    BY <1>0, <1>7, <2>2, TasksKept
       DEF ChargeReportsOn, rows, KmStep, TripMoves, SameTrip
  <2>3. CASE CloseTrip(trip.id, "open_charge", OpenCharge)
    BY <1>0, <1>7, <2>1, <2>3, CloseTripKm DEF ChargeReportsOn, rows, KmStep
  <2>. QED BY <1>7, <2>2, <2>3 DEF ChargeReportsOn
<1>8. CASE ChargeReportsOff
  <2>1. CASE OpensNothing(pendingOpen)
    BY <1>0, <1>8, <2>1, TasksKept
       DEF ChargeReportsOff, OpensNothing, rows, KmStep, TripMoves, SameTrip
  <2>2. CASE CloseCharge("resume_trip", vehicleOn = "on", pendingOpen)
    BY <1>0, <1>8, <2>2, CloseChargeKm DEF ChargeReportsOff, rows, KmStep
  <2>. QED BY <1>8, <2>1, <2>2 DEF ChargeReportsOff
<1>. QED BY <1>1, <1>2, <1>3, <1>4, <1>5, <1>6, <1>7, <1>8 DEF Sensors, OtherReports

LEMMA CloseTripOnlyKm ==
  ASSUME TypeOK, NEW end \in Nat, CloseTripOnly(end),
         UNCHANGED <<odo, rows, opened>>
  PROVE  KmStep
<1>1. CloseTrip(end, "nothing", UNCHANGED <<charge, sessions>>)
  BY DEF CloseTripOnly
<1>2. odo' >= odo
  BY DEF TypeOK
<1>. QED BY <1>1, <1>2, CloseTripKm DEF rows, KmStep

LEMMA TimersKm ==
  ASSUME TypeOK, Time \/ Timers
  PROVE  KmStep
<1>0. /\ odo \in Int /\ odo >= odo
      /\ trip.id \in Nat /\ opened \in Nat /\ pendingClose.end \in Nat
  BY DEF TypeOK, TripRecord, CloseTimer
<1>1. CASE Time \/ DebounceDefers
  <2>1. /\ UNCHANGED <<odo, tasks, rows, opened>>
        /\ trip'.id = trip.id /\ trip'.odoStart = trip.odoStart
    BY <1>1 DEF Time, OdometerGoesStale, TripIdles, TripAges, DebounceDefers,
                sensors, memory, counters, TypeOK, TripRecord
  <2>. QED BY <1>0, <2>1, TasksKept DEF rows, KmStep, TripMoves, SameTrip
<1>2. CASE RetryFires
  BY <1>0, <1>2, TryLiveOpenKm DEF RetryFires, sensors, rows, KmStep
<1>3. CASE DebounceCloses
  BY <1>0, <1>3, CloseTripOnlyKm DEF DebounceCloses, sensors
<1>4. CASE LiveTickCloses
  BY <1>0, <1>4, CloseTripOnlyKm DEF LiveTickCloses, sensors
<1>5. CASE StuckWatchdogCloses
  BY <1>0, <1>5, CloseTripOnlyKm DEF StuckWatchdogCloses, sensors
<1>. QED BY <1>1, <1>2, <1>3, <1>4, <1>5 DEF Timers

LEMMA TasksKm ==
  ASSUME TypeOK, Tasks
  PROVE  KmStep
<1>. PICK s \in Slots : InsertTrip(s) \/ FinishTrip(s) \/ InsertCharge(s)
                          \/ FinishCharge(s) \/ TaskFails(s)
  BY DEF Tasks
<1>0. odo \in Int /\ odo >= odo /\ tasks[s] \in Task /\ NoTask.kind # "trip"
  BY DEF TypeOK, NoTask
<1>1. CASE InsertTrip(s)
  <2>1. TripOf(s) \in Intervals
    BY <1>1 DEF InsertTrip, Intervals
  <2>2. tripRows' \subseteq Intervals
    BY <1>1, <2>1 DEF InsertTrip, Intervals
  <2>3. tasks' = [tasks EXCEPT ![s].pc = "finish"]
    BY <1>1 DEF InsertTrip
  <2>4. NoInterval
    BY <1>0, <2>2, <2>3, IntervalsKept DEF TypeOK, Task
  <2>. QED BY <1>0, <1>1, <2>4
           DEF InsertTrip, sensors, memory, counters, KmStep, TripMoves,
               SameTrip
<1>2. ASSUME UNCHANGED tripRows, tasks' = [tasks EXCEPT ![s] = NoTask]
      PROVE  NoInterval
  BY <1>0, <1>2, IntervalsKept DEF TypeOK, Intervals
<1>3. CASE FinishTrip(s)
  BY <1>0, <1>2, <1>3
     DEF FinishTrip, ClearCurrent, sensors, rows, KmStep, TripMoves, SameTrip,
         ClearedTrip
<1>4. CASE InsertCharge(s)
  <2>1. tasks' = [tasks EXCEPT ![s].pc = "finish"] /\ UNCHANGED tripRows
    BY <1>4 DEF InsertCharge
  <2>2. NoInterval
    BY <1>0, <2>1, IntervalsKept DEF TypeOK, Task, Intervals
  <2>. QED BY <1>0, <1>4, <2>2
           DEF InsertCharge, sensors, memory, counters, KmStep, TripMoves,
               SameTrip
<1>5. CASE FinishCharge(s)
  <2>1. TripMoves
    BY <1>5, AfterChargeKm DEF FinishCharge, sensors, TripMoves, SameTrip
  <2>. QED BY <1>0, <1>2, <1>5, <2>1 DEF FinishCharge, sensors, rows, KmStep
<1>6. CASE TaskFails(s)
  BY <1>0, <1>2, <1>6
     DEF TaskFails, sensors, memory, rows, KmStep, TripMoves, SameTrip
<1>. QED BY <1>1, <1>3, <1>4, <1>5, <1>6

LEMMA ControlKm ==
  ASSUME TypeOK, Control
  PROVE  KmStep
<1>0. odo \in Int /\ odo >= odo /\ opened \in Nat
  BY DEF TypeOK
<1>1. CASE StartTripService
  BY <1>0, <1>1, OdoReadIs, OpenTripKm, TasksKept
     DEF StartTripService, sensors, rows, KmStep, TripMoves
<1>2. CASE EndTripService
  BY <1>0, <1>2, CloseTripOnlyKm DEF EndTripService, sensors
<1>3. CASE \E crash \in BOOLEAN : Stop(crash)
  <2>. PICK crash \in BOOLEAN : Stop(crash)
    BY <1>3
  <2>1. \A s \in Slots :
          \/ tasks'[s] = NoTask
          \/ tasks'[s] = [tasks[s] EXCEPT !.detached = TRUE]
    BY DEF Stop
  <2>2. NoTask.kind # "trip" /\ \A s \in Slots : tasks[s] \in Task
    BY DEF NoTask, TypeOK
  <2>3. UNCHANGED <<odo, rows, opened>> /\ trip' = NoTrip
    BY DEF Stop, sensors
  <2>4. NoInterval
    BY <2>1, <2>2, <2>3, IntervalsKept DEF Task, rows, Intervals
  <2>. QED BY <1>0, <2>3, <2>4 DEF KmStep, TripMoves, ClearedTrip
<1>4. ResumeTrip /\ odo' = odo => TripMoves
  BY OdoReadIs, OpenTripKm DEF ResumeTrip, TripMoves, SameTrip
<1>5. CASE Start
  BY <1>0, <1>4, <1>5, TasksKept
     DEF Start, sensors, rows, KmStep, TripMoves, SameTrip
<1>6. CASE HaStarted
  BY <1>0, <1>4, <1>6, TasksKept DEF HaStarted, sensors, rows, KmStep
<1>. QED BY <1>1, <1>2, <1>3, <1>5, <1>6 DEF Control

LEMMA KmInvariantStep ==
  TypeOK /\ TypeOK' /\ KmInvariant /\ [Next]_vars => KmInvariant'
<1>. SUFFICES ASSUME TypeOK, TypeOK', KmInvariant, [Next]_vars
              PROVE  KmInvariant'
  OBVIOUS
<1>1. CASE Next
  <2>1. KmStep
    BY <1>1, SensorsKm, TimersKm, TasksKm, ControlKm DEF Next
  <2>. QED BY <2>1, KmStepKeeps
<1>2. CASE UNCHANGED vars
  <2>1. KmStep
    BY <1>2, TasksKept
       DEF vars, sensors, memory, rows, counters, KmStep, TripMoves, SameTrip,
           TypeOK
  <2>. QED BY <2>1, KmStepKeeps
<1>. QED BY <1>1, <1>2

\* The intervals of live trips, written or about to be, follow one another,
\* and the open trip starts after them.
THEOREM KmInvariantHolds == Spec => []KmInvariant
<1>1. Init => KmInvariant
  BY DEF Init, KmInvariant, Intervals, NoTrip, NoTask, Unread
<1>. QED BY <1>1, TypeInvariant, KmInvariantStep, PTL DEF Spec

\* No kilometre is in the rows of two live trips, whatever closes, restarts
\* and errors happened.
THEOREM KilometresCountedOnce == Spec => []KmCountedOnce
<1>1. KmInvariant => KmCountedOnce
  BY DEF KmInvariant, KmCountedOnce, Intervals
<1>. QED BY <1>1, KmInvariantHolds, PTL
-----------------------------------------------------------------------------
(***************************************************************************)
(* Charge sessions.  What a step may do to the open session, and to the    *)
(* coroutines that write one.                                              *)
(***************************************************************************)
ChargeMoves ==
  \/ UNCHANGED <<charge, sessions>>
  \/ charge' = NoCharge /\ UNCHANGED sessions
  \/ charge'.id = sessions + 1 /\ sessions' = sessions + 1

\* The coroutines that hold a session held it before, at the same place.
KeepsTasks ==
  \A s \in Slots : tasks'[s].kind = "charge" =>
    /\ tasks[s].kind = "charge"
    /\ tasks'[s].of = tasks[s].of /\ tasks'[s].pc = tasks[s].pc

Keeps == ChargeMoves /\ KeepsTasks /\ UNCHANGED chargeRows

\* The open session goes to a new coroutine.
HandsOver ==
  /\ ChargeOpen /\ charge' = NoCharge /\ UNCHANGED <<sessions, chargeRows>>
  /\ \E q \in Slots :
       /\ tasks'[q].of = charge.id
       /\ \A s \in Slots \ {q} : tasks'[s] = tasks[s]

\* A coroutine writes its session.
Writes ==
  /\ UNCHANGED <<charge, sessions>>
  /\ \E q \in Slots :
       /\ tasks[q].kind = "charge" /\ tasks'[q].of = tasks[q].of
       /\ tasks'[q].pc = "finish"
       /\ chargeRows' = chargeRows \cup {tasks[q].of}
       /\ \A s \in Slots \ {q} : tasks'[s] = tasks[s]

ChargeStep == Keeps \/ HandsOver \/ Writes

\* What is needed of a step for ChargeInvariant to survive it.
LEMMA ChargeStepKeeps ==
  ASSUME TypeOK, TypeOK', ChargeInvariant, ChargeStep
  PROVE  ChargeInvariant'
<1>. USE DEF ChargeInvariant, ChargeTask
<1>0. /\ sessions \in Nat /\ charge.id \in Nat
      /\ \A s \in Slots : tasks[s].of \in Nat
      /\ NoCharge.id = 0
  BY ClearedIds DEF TypeOK, ChargeRecord, Task
<1>1. CASE Keeps
  <2>1. CASE UNCHANGED <<charge, sessions>>
    BY <1>1, <2>1 DEF Keeps, KeepsTasks
  <2>2. CASE charge' = NoCharge /\ UNCHANGED sessions
    BY <1>0, <1>1, <2>2 DEF Keeps, KeepsTasks
  <2>3. CASE charge'.id = sessions + 1 /\ sessions' = sessions + 1
    BY <1>0, <1>1, <2>3 DEF Keeps, KeepsTasks
  <2>. QED BY <1>1, <2>1, <2>2, <2>3 DEF Keeps, ChargeMoves
<1>2. CASE HandsOver
  <2>. PICK q \in Slots : /\ tasks'[q].of = charge.id
                          /\ \A s \in Slots \ {q} : tasks'[s] = tasks[s]
    BY <1>2 DEF HandsOver
  <2>. QED BY <1>0, <1>2 DEF HandsOver, ChargeOpen
<1>3. CASE Writes
  <2>. PICK q \in Slots : /\ tasks[q].kind = "charge"
                          /\ tasks'[q].of = tasks[q].of
                          /\ tasks'[q].pc = "finish"
                          /\ chargeRows' = chargeRows \cup {tasks[q].of}
                          /\ \A s \in Slots \ {q} : tasks'[s] = tasks[s]
    BY <1>3 DEF Writes
  <2>1. charge' = charge /\ sessions' = sessions
    BY <1>3 DEF Writes
  <2>2. /\ tasks[q].of \in 1..sessions /\ tasks[q].of # charge.id
        /\ \A r \in Slots \ {q} :
             tasks[r].kind = "charge" => tasks[r].of # tasks[q].of
    OBVIOUS
  <2>3. /\ charge'.id <= sessions' /\ chargeRows' \subseteq 1..sessions'
        /\ charge'.id \notin chargeRows'
    BY <2>1, <2>2
  <2>4. ASSUME NEW s \in Slots, tasks'[s].kind = "charge"
        PROVE  /\ tasks[s].kind = "charge" /\ tasks'[s].of = tasks[s].of
               /\ tasks'[s].pc = "insert" => s # q /\ tasks[s].pc = "insert"
    <3>1. CASE s = q
      BY <3>1
    <3>2. CASE s # q
      BY <2>4, <3>2
    <3>. QED BY <3>1, <3>2
  <2>5. ASSUME NEW s \in Slots, tasks'[s].kind = "charge"
        PROVE  /\ tasks'[s].of \in 1..sessions' /\ tasks'[s].of # charge'.id
               /\ tasks'[s].pc = "insert" => tasks'[s].of \notin chargeRows'
               /\ \A r \in Slots \ {s} :
                    tasks'[r].kind = "charge" => tasks'[r].of # tasks'[s].of
    BY <2>1, <2>2, <2>4, <2>5
  <2>. QED BY <2>3, <2>5
<1>. QED BY <1>1, <1>2, <1>3 DEF ChargeStep

LEMMA SameTasks ==
  ASSUME UNCHANGED tasks PROVE KeepsTasks
BY DEF KeepsTasks

LEMMA SuspendTrip ==
  ASSUME TypeOK, NEW task, task.kind = "trip", Suspend(task)
  PROVE  KeepsTasks
BY DEF Suspend, KeepsTasks, TypeOK

LEMMA OpenChargeMoves ==
  ASSUME OpenCharge PROVE ChargeMoves
BY DEF OpenCharge, ChargeMoves

LEMMA CloseTripCharge ==
  ASSUME TypeOK, NEW end, NEW then, NEW ACTION Continue,
         CloseTrip(end, then, Continue), Continue => ChargeMoves,
         UNCHANGED chargeRows
  PROVE  Keeps
<1>1. KeepsTasks
  BY SameTasks, SuspendTrip DEF CloseTrip
<1>2. ChargeMoves
  BY DEF CloseTrip, ChargeMoves
<1>. QED BY <1>1, <1>2 DEF Keeps

LEMMA CloseChargeHands ==
  ASSUME TypeOK, ChargeOpen, NEW then, NEW on, NEW timer,
         CloseCharge(then, on, timer), UNCHANGED <<sessions, chargeRows>>
  PROVE  ChargeStep
<1>1. CASE UNCHANGED tasks
  BY <1>1, SameTasks DEF CloseCharge, Keeps, ChargeMoves, ChargeStep
<1>2. CASE Suspend([NoTask EXCEPT !.kind = "charge", !.of = charge.id,
                                  !.then = then])
  <2>1. [NoTask EXCEPT !.kind = "charge", !.of = charge.id, !.then = then].of
          = charge.id
    BY DEF NoTask
  <2>2. HandsOver
    BY <1>2, <2>1 DEF CloseCharge, Suspend, HandsOver, TypeOK
  <2>. QED BY <2>2 DEF ChargeStep
<1>. QED BY <1>1, <1>2 DEF CloseCharge

LEMMA TryLiveOpenCharge ==
  ASSUME TypeOK, NEW v, NEW attempt, TryLiveOpen(v, attempt),
         UNCHANGED <<sessions, chargeRows>>
  PROVE  ChargeStep
<1>1. UNCHANGED <<charge, tasks>> => ChargeStep
  BY SameTasks DEF ChargeStep, Keeps, ChargeMoves
<1>2. ChargeOpen /\ CloseCharge("open_trip", TRUE, 0) => ChargeStep
  BY CloseChargeHands
<1>. QED BY <1>1, <1>2 DEF TryLiveOpen, OpensNothing

LEMMA SensorsCharge ==
  ASSUME TypeOK, Sensors
  PROVE  ChargeStep
<1>0. UNCHANGED <<charge, sessions, chargeRows, tasks>> => ChargeStep
  BY SameTasks DEF ChargeStep, Keeps, ChargeMoves
<1>1. CASE VehicleReportsOn
  BY <1>0, <1>1, TryLiveOpenCharge DEF VehicleReportsOn, memory, rows
<1>2. CASE VehicleReportsOff \/ VehicleDropsOut \/ ChargeDropsOut
  BY <1>0, <1>2 DEF VehicleReportsOff, VehicleDropsOut, ChargeDropsOut,
                    memory, rows, counters
<1>3. CASE \E now \in 0..MaxOdo : OdometerReports(now)
  BY <1>0, <1>3 DEF OdometerReports, rows
<1>4. CASE OdometerDropsOut \/ BatteryReports \/ SpeedReports
  BY <1>0, <1>4 DEF OdometerDropsOut, BatteryReports, SpeedReports, rows,
                    counters
<1>5. CASE ChargeReportsOn
  <2>1. CASE UNCHANGED <<charge, sessions, tasks>>
    BY <1>0, <1>5, <2>1 DEF ChargeReportsOn, rows
  <2>2. CASE OpenCharge /\ UNCHANGED tasks
    BY <1>5, <2>2, OpenChargeMoves, SameTasks
       DEF ChargeReportsOn, rows, ChargeStep, Keeps
  <2>3. CASE CloseTrip(trip.id, "open_charge", OpenCharge)
    BY <1>5, <2>3, CloseTripCharge, OpenChargeMoves
       DEF ChargeReportsOn, rows, ChargeStep
  <2>. QED BY <1>5, <2>1, <2>2, <2>3 DEF ChargeReportsOn
<1>6. CASE ChargeReportsOff
  BY <1>0, <1>6, CloseChargeHands DEF ChargeReportsOff, OpensNothing, rows
<1>. QED BY <1>1, <1>2, <1>3, <1>4, <1>5, <1>6 DEF Sensors, OtherReports

LEMMA CloseTripOnlyCharge ==
  ASSUME TypeOK, NEW end, CloseTripOnly(end), UNCHANGED rows
  PROVE  ChargeStep
<1>1. CloseTrip(end, "nothing", UNCHANGED <<charge, sessions>>)
  BY DEF CloseTripOnly
<1>2. UNCHANGED <<charge, sessions>> => ChargeMoves
  BY DEF ChargeMoves
<1>. QED BY <1>1, <1>2, CloseTripCharge DEF rows, ChargeStep

LEMMA TimersCharge ==
  ASSUME TypeOK, Time \/ Timers
  PROVE  ChargeStep
<1>1. CASE Time \/ DebounceDefers
  <2>1. UNCHANGED <<charge, sessions, chargeRows, tasks>>
    BY <1>1 DEF Time, OdometerGoesStale, TripIdles, TripAges, DebounceDefers,
                memory, rows, counters
  <2>. QED BY <2>1, SameTasks DEF ChargeStep, Keeps, ChargeMoves
<1>2. CASE RetryFires
  BY <1>2, TryLiveOpenCharge DEF RetryFires, rows
<1>3. CASE DebounceCloses \/ LiveTickCloses \/ StuckWatchdogCloses
  BY <1>3, CloseTripOnlyCharge
     DEF DebounceCloses, LiveTickCloses, StuckWatchdogCloses
<1>. QED BY <1>1, <1>2, <1>3 DEF Timers

LEMMA TasksCharge ==
  ASSUME TypeOK, Tasks
  PROVE  ChargeStep
<1>. PICK s \in Slots : InsertTrip(s) \/ FinishTrip(s) \/ InsertCharge(s)
                          \/ FinishCharge(s) \/ TaskFails(s)
  BY DEF Tasks
<1>0. tasks[s] \in Task /\ NoTask.kind = "none"
  BY DEF TypeOK, NoTask
<1>1. CASE InsertTrip(s)
  <2>1. tasks' = [tasks EXCEPT ![s].pc = "finish"] /\ tasks[s].kind = "trip"
    BY <1>1 DEF InsertTrip
  <2>2. KeepsTasks
    BY <1>0, <2>1 DEF KeepsTasks, TypeOK, Task
  <2>. QED BY <1>1, <2>2
           DEF InsertTrip, memory, counters, ChargeStep, Keeps, ChargeMoves
<1>2. tasks' = [tasks EXCEPT ![s] = NoTask] => KeepsTasks
  BY <1>0 DEF KeepsTasks, TypeOK
<1>3. CASE FinishTrip(s)
  BY <1>2, <1>3, OpenChargeMoves
     DEF FinishTrip, rows, ChargeStep, Keeps, ChargeMoves
<1>4. CASE InsertCharge(s)
  <2>1. /\ tasks[s].kind = "charge"
        /\ tasks' = [tasks EXCEPT ![s].pc = "finish"]
        /\ chargeRows' = chargeRows \cup {tasks[s].of}
        /\ UNCHANGED <<charge, sessions>>
    BY <1>4 DEF InsertCharge, memory, counters
  <2>2. /\ tasks'[s].of = tasks[s].of /\ tasks'[s].pc = "finish"
        /\ \A r \in Slots \ {s} : tasks'[r] = tasks[r]
    BY <1>0, <2>1 DEF TypeOK, Task
  <2>. QED BY <2>1, <2>2 DEF ChargeStep, Writes
<1>5. CASE FinishCharge(s) \/ TaskFails(s)
  BY <1>2, <1>5
     DEF FinishCharge, TaskFails, memory, rows, ChargeStep, Keeps, ChargeMoves
<1>. QED BY <1>1, <1>3, <1>4, <1>5

LEMMA ControlCharge ==
  ASSUME TypeOK, Control
  PROVE  ChargeStep
<1>1. CASE StartTripService
  BY <1>1, SameTasks
     DEF StartTripService, rows, ChargeStep, Keeps, ChargeMoves
<1>2. CASE EndTripService
  BY <1>2, CloseTripOnlyCharge DEF EndTripService
<1>3. CASE \E crash \in BOOLEAN : Stop(crash)
  <2>. PICK crash \in BOOLEAN : Stop(crash)
    BY <1>3
  <2>1. NoTask.kind = "none" /\ \A s \in Slots : tasks[s] \in Task
    BY DEF NoTask, TypeOK
  <2>2. \A s \in Slots :
          \/ tasks'[s] = NoTask
          \/ tasks'[s] = [tasks[s] EXCEPT !.detached = TRUE]
    BY DEF Stop
  <2>3. KeepsTasks
    BY <2>1, <2>2 DEF KeepsTasks, Task
  <2>. QED BY <2>3 DEF Stop, rows, ChargeStep, Keeps, ChargeMoves
<1>4. ResumeCharge => ChargeMoves
  BY OpenChargeMoves DEF ResumeCharge, ChargeMoves
<1>5. CASE Start \/ HaStarted
  BY <1>4, <1>5, SameTasks
     DEF Start, HaStarted, rows, ChargeStep, Keeps, ChargeMoves
<1>. QED BY <1>1, <1>2, <1>3, <1>5 DEF Control

LEMMA ChargeInvariantStep ==
  TypeOK /\ TypeOK' /\ ChargeInvariant /\ [Next]_vars => ChargeInvariant'
<1>. SUFFICES ASSUME TypeOK, TypeOK', ChargeInvariant, [Next]_vars
              PROVE  ChargeInvariant'
  OBVIOUS
<1>1. CASE Next
  <2>1. ChargeStep
    BY <1>1, SensorsCharge, TimersCharge, TasksCharge, ControlCharge DEF Next
  <2>. QED BY <2>1, ChargeStepKeeps
<1>2. CASE UNCHANGED vars
  <2>1. ChargeStep
    BY <1>2, SameTasks
       DEF vars, memory, rows, counters, ChargeStep, Keeps, ChargeMoves
  <2>. QED BY <2>1, ChargeStepKeeps
<1>. QED BY <1>1, <1>2

\* A charge session is in one place at any time: open, held by one coroutine
\* that has not written it yet, or behind one.
THEOREM ChargeInvariantHolds == Spec => []ChargeInvariant
<1>1. Init => ChargeInvariant
  BY DEF Init, ChargeInvariant, ChargeTask, NoCharge, NoTask
<1>. QED BY <1>1, TypeInvariant, ChargeInvariantStep, PTL DEF Spec

\* A coroutine about to write a session is the only holder of it.
THEOREM SessionsStoredOnce == Spec => []ChargeStoredOnce
<1>1. ChargeInvariant => ChargeStoredOnce
  BY DEF ChargeInvariant, ChargeStoredOnce, ChargeTask
<1>. QED BY <1>1, ChargeInvariantHolds, PTL
-----------------------------------------------------------------------------
(***************************************************************************)
(* Closing a trip.  What a step may do to the open trip and to the         *)
(* coroutines that write one: the steps named here, and the four actions   *)
(* InsertTrip, FinishTrip, TaskFails and Stop.                             *)
(***************************************************************************)
SameTripTasks ==
  \A s \in Slots :
    tasks[s].kind = "trip" \/ tasks'[s].kind = "trip" => tasks'[s] = tasks[s]

LeavesTrip ==
  /\ trip'.id = trip.id /\ SameTripTasks
  /\ UNCHANGED <<liveTick, opened, ended, tripRows, failures>>

OpensTrip ==
  /\ ~TripOpen /\ opened < MaxTrips
  /\ opened' = opened + 1 /\ trip'.id = opened + 1 /\ liveTick'
  /\ SameTripTasks /\ UNCHANGED <<ended, tripRows, failures>>

DiscardsTrip ==
  /\ TripOpen /\ repeated' = Repeats
  /\ trip'.id = 0 /\ dropped' = dropped \cup {trip.id}
  /\ SameTripTasks /\ UNCHANGED <<opened, cleared, tripRows, failures>>

\* The open trip goes to a new coroutine.
HandsTripTo(q) ==
  /\ tasks[q].kind # "trip"
  /\ tasks'[q].kind = "trip" /\ tasks'[q].of = trip.id
  /\ tasks'[q].pc = "insert" /\ ~tasks'[q].detached
  /\ \A s \in Slots \ {q} : tasks'[s] = tasks[s]

HandsTrip ==
  /\ TripOpen /\ repeated' = Repeats /\ trip' = trip
  /\ \E q \in Slots : HandsTripTo(q)
  /\ UNCHANGED <<opened, dropped, cleared, tripRows, failures>>

TripStep ==
  \/ LeavesTrip \/ OpensTrip \/ DiscardsTrip \/ HandsTrip
  \/ \E s \in Slots : InsertTrip(s) \/ FinishTrip(s) \/ TaskFails(s)
  \/ \E crash \in BOOLEAN : Stop(crash)

LEMMA TasksUnchanged ==
  ASSUME UNCHANGED tasks PROVE SameTripTasks
BY DEF SameTripTasks

LEMMA SuspendCharge ==
  ASSUME TypeOK, NEW task, task.kind # "trip", Suspend(task)
  PROVE  SameTripTasks
BY DEF Suspend, SameTripTasks, NoTask, TypeOK

LEMMA OpenTripOpens ==
  ASSUME NEW odoNow, OpenTrip(odoNow), ~TripOpen, SameTripTasks,
         UNCHANGED <<ended, tripRows, failures>>
  PROVE  OpensTrip
BY DEF OpenTrip, OpensTrip, NoTrip

LEMMA CloseTripStep ==
  ASSUME TypeOK, NEW end, NEW then, NEW ACTION Continue,
         CloseTrip(end, then, Continue),
         UNCHANGED <<opened, tripRows, failures>>
  PROVE  LeavesTrip \/ DiscardsTrip \/ HandsTrip
<1>1. CASE UNCHANGED <<trip, liveTick, tasks, ended>>
  BY <1>1, TasksUnchanged DEF LeavesTrip
<1>2. CASE /\ TripOpen /\ repeated' = Repeats /\ trip' = NoTrip
           /\ dropped' = dropped \cup {trip.id} /\ UNCHANGED <<tasks, cleared>>
  BY <1>2, TasksUnchanged, ClearedIds DEF DiscardsTrip
<1>3. CASE /\ TripOpen /\ repeated' = Repeats /\ HoldsTrip
           /\ Suspend([kind |-> "trip", of |-> trip.id,
                       start |-> trip.odoStart, stop |-> odo, end |-> end,
                       pc |-> "insert", then |-> then, detached |-> FALSE])
           /\ UNCHANGED <<charge, sessions, dropped, cleared>>
  <2>. DEFINE task == [kind |-> "trip", of |-> trip.id,
                       start |-> trip.odoStart, stop |-> odo, end |-> end,
                       pc |-> "insert", then |-> then, detached |-> FALSE]
  <2>1. PICK q \in Slots :
          tasks[q] = NoTask /\ tasks' = [tasks EXCEPT ![q] = task]
    BY <1>3 DEF Suspend
  <2>2. HandsTripTo(q)
    BY <2>1 DEF HandsTripTo, NoTask, TypeOK
  <2>. QED BY <1>3, <2>2 DEF HandsTrip, HoldsTrip
<1>. QED BY <1>1, <1>2, <1>3 DEF CloseTrip

LEMMA CloseTripOnlyStep ==
  ASSUME TypeOK, NEW end, CloseTripOnly(end),
         UNCHANGED <<opened, rows, failures>>
  PROVE  TripStep
<1>1. CloseTrip(end, "nothing", UNCHANGED <<charge, sessions>>)
  BY DEF CloseTripOnly
<1>. QED BY <1>1, CloseTripStep DEF TripStep, rows

LEMMA AfterChargeStep ==
  ASSUME NEW then, NEW on, NEW timer, AfterCharge(then, on, timer),
         SameTripTasks, UNCHANGED <<ended, tripRows, failures>>
  PROVE  LeavesTrip \/ OpensTrip
BY OpenTripOpens DEF AfterCharge, WantsTrip, LeavesTrip

LEMMA CloseChargeStep ==
  ASSUME TypeOK, NEW then, NEW on, NEW timer, CloseCharge(then, on, timer),
         UNCHANGED <<ended, tripRows, failures>>
  PROVE  LeavesTrip \/ OpensTrip
<1>1. CASE AfterCharge(then, on, timer) /\ UNCHANGED tasks
  BY <1>1, AfterChargeStep, TasksUnchanged
<1>2. CASE /\ Suspend([NoTask EXCEPT !.kind = "charge", !.of = charge.id,
                                     !.then = then])
           /\ UNCHANGED <<trip, liveTick, opened>>
  <2>1. [NoTask EXCEPT !.kind = "charge", !.of = charge.id,
                       !.then = then].kind # "trip"
    BY DEF NoTask
  <2>. QED BY <1>2, <2>1, SuspendCharge DEF LeavesTrip
<1>. QED BY <1>1, <1>2 DEF CloseCharge

LEMMA TryLiveOpenStep ==
  ASSUME TypeOK, NEW v, NEW attempt, TryLiveOpen(v, attempt),
         UNCHANGED <<ended, tripRows, failures>>
  PROVE  LeavesTrip \/ OpensTrip
<1>1. \A n : OpensNothing(n) => LeavesTrip
  BY TasksUnchanged DEF OpensNothing, LeavesTrip
<1>2. CloseCharge("open_trip", TRUE, 0) => LeavesTrip \/ OpensTrip
  BY CloseChargeStep
<1>3. ~TripOpen /\ OpenTrip(odo) /\ UNCHANGED <<charge, tasks>> => OpensTrip
  BY OpenTripOpens, TasksUnchanged
<1>. QED BY <1>1, <1>2, <1>3 DEF TryLiveOpen

LEMMA MetricStep ==
  ASSUME TypeOK, NEW now, NEW fresh, NEW isOdometer,
         MetricChanged(now, fresh, isOdometer),
         UNCHANGED <<tasks, ended, tripRows, failures>>
  PROVE  LeavesTrip \/ OpensTrip
<1>1. CASE ~TripOpen /\ OpenTrip(now)
  BY <1>1, OpenTripOpens, TasksUnchanged
<1>2. CASE /\ trip' \in {trip, [trip EXCEPT !.idle = 0]}
           /\ UNCHANGED <<liveTick, opened>>
  BY <1>2, TasksUnchanged DEF LeavesTrip, TypeOK, TripRecord
<1>. QED BY <1>1, <1>2 DEF MetricChanged

LEMMA SensorsStep ==
  ASSUME TypeOK, Sensors
  PROVE  TripStep
<1>. USE DEF TripStep
<1>0. UNCHANGED <<trip, liveTick, tasks, opened, ended, tripRows, failures>>
        => LeavesTrip
  BY TasksUnchanged DEF LeavesTrip
<1>1. CASE VehicleReportsOn
  BY <1>0, <1>1, TryLiveOpenStep DEF VehicleReportsOn, memory, rows
<1>2. CASE VehicleReportsOff \/ VehicleDropsOut \/ ChargeDropsOut
  BY <1>0, <1>2 DEF VehicleReportsOff, VehicleDropsOut, ChargeDropsOut,
                    memory, rows, counters
<1>3. CASE \E now \in 0..MaxOdo : OdometerReports(now)
  BY <1>3, MetricStep DEF OdometerReports, rows
<1>4. CASE OdometerDropsOut \/ BatteryReports
  BY <1>4, MetricStep DEF OdometerDropsOut, BatteryReports, rows
<1>5. CASE SpeedReports
  BY <1>5, TasksUnchanged
     DEF SpeedReports, rows, counters, LeavesTrip, TypeOK, TripRecord
<1>6. CASE ChargeReportsOn
  BY <1>0, <1>6, CloseTripStep DEF ChargeReportsOn, rows
<1>7. CASE ChargeReportsOff
  BY <1>0, <1>7, CloseChargeStep DEF ChargeReportsOff, OpensNothing, rows
<1>. QED BY <1>1, <1>2, <1>3, <1>4, <1>5, <1>6, <1>7 DEF Sensors, OtherReports

LEMMA TimersStep ==
  ASSUME TypeOK, Time \/ Timers
  PROVE  TripStep
<1>1. CASE Time \/ DebounceDefers
  <2>1. /\ UNCHANGED <<liveTick, tasks, opened, ended, tripRows, failures>>
        /\ trip'.id = trip.id
    BY <1>1 DEF Time, OdometerGoesStale, TripIdles, TripAges, DebounceDefers,
                memory, rows, counters, TypeOK, TripRecord
  <2>. QED BY <2>1, TasksUnchanged DEF TripStep, LeavesTrip
<1>2. CASE RetryFires
  BY <1>2, TryLiveOpenStep DEF RetryFires, rows, TripStep
<1>3. CASE DebounceCloses \/ LiveTickCloses \/ StuckWatchdogCloses
  BY <1>3, CloseTripOnlyStep
     DEF DebounceCloses, LiveTickCloses, StuckWatchdogCloses
<1>. QED BY <1>1, <1>2, <1>3 DEF Timers

LEMMA TasksStep ==
  ASSUME TypeOK, Tasks
  PROVE  TripStep
<1>. PICK s \in Slots : InsertTrip(s) \/ FinishTrip(s) \/ InsertCharge(s)
                          \/ FinishCharge(s) \/ TaskFails(s)
  BY DEF Tasks
<1>0. tasks[s] \in Task /\ NoTask.kind # "trip"
  BY DEF TypeOK, NoTask
<1>1. CASE InsertCharge(s)
  <2>1. tasks[s].kind = "charge" /\ tasks' = [tasks EXCEPT ![s].pc = "finish"]
    BY <1>1 DEF InsertCharge
  <2>2. SameTripTasks
    BY <1>0, <2>1 DEF SameTripTasks, TypeOK, Task
  <2>. QED BY <1>1, <2>2
           DEF InsertCharge, memory, counters, LeavesTrip, TripStep
<1>2. CASE FinishCharge(s)
  <2>1. SameTripTasks
    BY <1>0, <1>2 DEF FinishCharge, SameTripTasks, TypeOK
  <2>. QED BY <1>2, <2>1, AfterChargeStep
           DEF FinishCharge, rows, LeavesTrip, TripStep
<1>. QED BY <1>1, <1>2 DEF TripStep

LEMMA ControlStep ==
  ASSUME TypeOK, Control
  PROVE  TripStep
<1>1. CASE StartTripService
  BY <1>1, OpenTripOpens, TasksUnchanged DEF StartTripService, rows, TripStep
<1>2. CASE EndTripService
  BY <1>2, CloseTripOnlyStep DEF EndTripService
<1>3. ResumeTrip /\ UNCHANGED <<tasks, ended, tripRows, failures>>
        => LeavesTrip \/ OpensTrip
  BY OpenTripOpens, TasksUnchanged DEF ResumeTrip, LeavesTrip
<1>4. CASE Start \/ HaStarted
  BY <1>3, <1>4, TasksUnchanged DEF Start, HaStarted, rows, LeavesTrip, TripStep
<1>. QED BY <1>1, <1>2, <1>4 DEF Control, TripStep

LEMMA StepClassified ==
  ASSUME TypeOK, [Next]_vars
  PROVE  TripStep
<1>1. CASE Next
  BY <1>1, SensorsStep, TimersStep, TasksStep, ControlStep DEF Next
<1>2. CASE UNCHANGED vars
  BY <1>2, TasksUnchanged DEF vars, memory, rows, counters, LeavesTrip, TripStep
<1>. QED BY <1>1, <1>2
-----------------------------------------------------------------------------
LEMMA WatchedTripStep ==
  TypeOK /\ WatchedTrip /\ [Next]_vars => WatchedTrip'
<1>. SUFFICES ASSUME TypeOK, WatchedTrip, [Next]_vars, TripOpen', ~liveTick'
              PROVE  \/ (failures > 0)'
                     \/ \E s \in Slots : Closing(s)' /\ tasks'[s].of = trip'.id
  BY DEF WatchedTrip
<1>. USE DEF Closing, TripOpen
<1>0. failures \in Nat /\ liveTick \in BOOLEAN /\ \A s \in Slots : tasks[s] \in Task
  BY DEF TypeOK
<1>1. CASE LeavesTrip
  BY <1>1 DEF LeavesTrip, SameTripTasks, WatchedTrip
<1>2. CASE OpensTrip \/ DiscardsTrip
  BY <1>2 DEF OpensTrip, DiscardsTrip
<1>3. CASE HandsTrip
  BY <1>3 DEF HandsTrip, HandsTripTo
<1>4. CASE \E s \in Slots : InsertTrip(s)
  <2>. PICK s \in Slots : InsertTrip(s)
    BY <1>4
  <2>1. UNCHANGED <<trip, liveTick, failures>>
    BY DEF InsertTrip, memory, counters
  <2>2. \A q \in Slots : /\ tasks'[q].kind = tasks[q].kind
                         /\ tasks'[q].of = tasks[q].of
                         /\ tasks'[q].detached = tasks[q].detached
    BY <1>0 DEF InsertTrip, TypeOK, Task
  <2>. QED BY <2>1, <2>2 DEF WatchedTrip
<1>5. CASE \E s \in Slots : FinishTrip(s)
  <2>. PICK s \in Slots : FinishTrip(s)
    BY <1>5
  <2>1. tasks[s].detached /\ trip' = trip
    BY ClearedIds DEF FinishTrip, ClearCurrent
  <2>2. UNCHANGED <<liveTick, failures>>
    BY DEF FinishTrip
  <2>3. \A q \in Slots : q # s => tasks'[q] = tasks[q]
    BY DEF FinishTrip, TypeOK
  <2>. QED BY <2>1, <2>2, <2>3 DEF WatchedTrip
<1>6. CASE \E s \in Slots : TaskFails(s)
  BY <1>0, <1>6 DEF TaskFails
<1>7. CASE \E crash \in BOOLEAN : Stop(crash)
  BY <1>7, ClearedIds DEF Stop
<1>. QED BY <1>1, <1>2, <1>3, <1>4, <1>5, <1>6, <1>7, StepClassified
         DEF TripStep

\* An open trip has its heartbeat, or is in the hands of the coroutine that
\* closes it; only a close that a database error ended leaves it to the
\* stuck-trip watchdog (_async_close_trip cancels the tick before it awaits).
THEOREM TripsWatched == Spec => []WatchedTrip
<1>1. Init => WatchedTrip
  BY DEF Init, WatchedTrip, TripOpen, NoTrip
<1>. QED BY <1>1, TypeInvariant, WatchedTripStep, PTL DEF Spec
-----------------------------------------------------------------------------
(***************************************************************************)
(* A trip that is not in repeated is in one place: the row of the open     *)
(* trip is in only while the coroutine that wrote it is about to clear it, *)
(* and no two coroutines hold the same trip.                               *)
(***************************************************************************)
TripTask(s) == tasks[s].kind = "trip"
HasRow(t) == \E r \in tripRows : r.trip = t

OnceInvariant ==
  /\ \A r \in tripRows : r.trip \in 1..opened
  /\ HasRow(trip.id) =>
       \/ trip.id \in repeated
       \/ \E s \in Slots :
            Closing(s) /\ tasks[s].of = trip.id /\ tasks[s].pc = "finish"
  /\ \A s \in Slots :
       TripTask(s) =>
         /\ tasks[s].of \in 1..opened
         /\ tasks[s].detached => tasks[s].of # trip.id
         /\ tasks[s].of \notin repeated =>
              /\ tasks[s].pc = "insert" => ~HasRow(tasks[s].of)
              /\ \A q \in Slots \ {s} : TripTask(q) => tasks[q].of # tasks[s].of

\* What the step classification says of repeated.
LEMMA RepeatsGrows ==
  ASSUME repeated' = Repeats
  PROVE  /\ repeated \subseteq repeated'
         /\ repeated' \subseteq repeated \cup {trip.id}
         /\ trip.id \notin repeated' =>
              \A s \in Slots : Closing(s) => tasks[s].of # trip.id
BY DEF Repeats

LEMMA OnceStep ==
  ASSUME TypeOK, KmInvariant, OnceInvariant, [Next]_vars
  PROVE  OnceInvariant'
<1>. USE DEF TripTask, HasRow, Closing
<1>0. /\ trip.id \in {0, opened} /\ opened \in Nat
      /\ \A s \in Slots : tasks[s] \in Task /\ tasks[s].detached \in BOOLEAN
  BY DEF TypeOK, KmInvariant, Task
<1>1. CASE LeavesTrip
  <2>1. \A s \in Slots : TripTask(s) \/ TripTask(s)' => tasks'[s] = tasks[s]
    BY <1>1 DEF LeavesTrip, SameTripTasks
  <2>2. /\ trip'.id = trip.id
        /\ opened' = opened /\ tripRows' = tripRows /\ repeated' = repeated
    BY <1>1 DEF LeavesTrip
  <2>. QED BY <2>1, <2>2 DEF OnceInvariant
<1>2. CASE OpensTrip
  <2>1. \A s \in Slots : TripTask(s) \/ TripTask(s)' => tasks'[s] = tasks[s]
    BY <1>2 DEF OpensTrip, SameTripTasks
  <2>2. /\ trip'.id = opened + 1 /\ opened' = opened + 1
        /\ tripRows' = tripRows /\ repeated' = repeated
    BY <1>2 DEF OpensTrip
  <2>3. ~HasRow(trip.id)'
    BY <1>0, <2>2 DEF OnceInvariant
  <2>. QED BY <1>0, <2>1, <2>2, <2>3 DEF OnceInvariant
<1>3. CASE DiscardsTrip
  <2>1. \A s \in Slots : TripTask(s) \/ TripTask(s)' => tasks'[s] = tasks[s]
    BY <1>3 DEF DiscardsTrip, SameTripTasks
  <2>2. /\ trip'.id = 0 /\ opened' = opened /\ tripRows' = tripRows
        /\ repeated' = Repeats
    BY <1>3 DEF DiscardsTrip
  <2>3. repeated \subseteq repeated'
    BY <2>2, RepeatsGrows
  <2>4. ~HasRow(trip.id)'
    BY <1>0, <2>2 DEF OnceInvariant
  <2>. QED BY <1>0, <2>1, <2>2, <2>3, <2>4 DEF OnceInvariant
<1>4. CASE HandsTrip
  <2>. PICK q \in Slots : HandsTripTo(q)
    BY <1>4 DEF HandsTrip
  <2>1. /\ trip.id = opened /\ trip.id \in 1..opened /\ repeated' = Repeats
        /\ trip' = trip /\ opened' = opened /\ tripRows' = tripRows
    BY <1>0, <1>4 DEF HandsTrip, TripOpen
  <2>2. /\ tasks'[q].of = trip.id /\ ~tasks'[q].detached /\ ~TripTask(q)
        /\ \A s \in Slots \ {q} : tasks'[s] = tasks[s]
    BY DEF HandsTripTo
  <2>3. /\ repeated \subseteq repeated'
        /\ trip.id \notin repeated' =>
             \A s \in Slots : Closing(s) => tasks[s].of # trip.id
    BY <2>1, RepeatsGrows
  <2>4. trip.id \notin repeated' =>
          /\ ~HasRow(trip.id)
          /\ \A s \in Slots : TripTask(s) => tasks[s].of # trip.id
    BY <1>0, <2>3 DEF OnceInvariant
  <2>5. HasRow(trip.id)' =>
          \/ trip'.id \in repeated'
          \/ \E s \in Slots : /\ Closing(s)' /\ tasks'[s].of = trip'.id
                              /\ tasks'[s].pc = "finish"
    BY <2>1, <2>4
  <2>6. ASSUME NEW s \in Slots, TripTask(s)'
        PROVE  /\ tasks'[s].of \in 1..opened'
               /\ tasks'[s].detached => tasks'[s].of # trip'.id
    BY <2>1, <2>2, <2>6 DEF OnceInvariant
  <2>7. ASSUME NEW s \in Slots, TripTask(s)', tasks'[s].of \notin repeated'
        PROVE  /\ tasks'[s].pc = "insert" => ~HasRow(tasks[s].of)'
               /\ \A p \in Slots \ {s} :
                    TripTask(p)' => tasks'[p].of # tasks'[s].of
    <3>1. CASE s = q
      BY <2>1, <2>2, <2>4, <2>7, <3>1
    <3>2. CASE s # q
      <4>1. TripTask(s) /\ tasks'[s] = tasks[s] /\ tasks[s].of \notin repeated
        BY <2>2, <2>3, <2>7, <3>2
      <4>2. tasks[s].of # tasks'[q].of
        BY <2>2, <2>4, <2>7, <4>1
      <4>. QED BY <2>1, <2>2, <4>1, <4>2 DEF OnceInvariant
    <3>. QED BY <3>1, <3>2
  <2>8. \A r \in tripRows' : r.trip \in 1..opened'
    BY <2>1 DEF OnceInvariant
  <2>. QED BY <2>5, <2>6, <2>7, <2>8 DEF OnceInvariant
<1>5. CASE \E s \in Slots : InsertTrip(s)
  <2>. PICK s \in Slots : InsertTrip(s)
    BY <1>5
  <2>1. /\ TripTask(s) /\ tasks[s].pc = "insert"
        /\ trip' = trip /\ opened' = opened /\ repeated' = repeated
        /\ tripRows' = tripRows \cup {TripOf(s)}
    BY DEF InsertTrip, memory, counters
  <2>2. /\ tasks'[s] = [tasks[s] EXCEPT !.pc = "finish"]
        /\ \A q \in Slots \ {s} : tasks'[q] = tasks[q]
    BY DEF InsertTrip, TypeOK
  <2>3. /\ tasks'[s].pc = "finish" /\ tasks'[s].of = tasks[s].of
        /\ tasks'[s].detached = tasks[s].detached /\ tasks'[s].kind = "trip"
    BY <1>0, <2>1, <2>2 DEF Task
  <2>4. TripOf(s).trip = tasks[s].of /\ tasks[s].of \in 1..opened
    BY <2>1 DEF TripOf, OnceInvariant
  <2>5. \A t : HasRow(t)' <=> HasRow(t) \/ t = tasks[s].of
    BY <2>1, <2>4
  <2>6. ASSUME NEW q \in Slots, TripTask(q)'
        PROVE  /\ TripTask(q) /\ tasks'[q].of = tasks[q].of
               /\ tasks'[q].detached = tasks[q].detached
               /\ tasks'[q].pc = "insert" => q # s /\ tasks[q].pc = "insert"
    BY <2>1, <2>2, <2>3, <2>6
  <2>7. HasRow(trip.id)' =>
          \/ trip.id \in repeated
          \/ \E q \in Slots : /\ Closing(q)' /\ tasks'[q].of = trip.id
                              /\ tasks'[q].pc = "finish"
    <3>1. CASE trip.id = tasks[s].of
      <4>1. ~tasks[s].detached
        BY <2>1, <3>1 DEF OnceInvariant
      <4>. QED BY <2>3, <3>1, <4>1
    <3>2. CASE trip.id # tasks[s].of
      <4>. SUFFICES ASSUME HasRow(trip.id)', trip.id \notin repeated
                    PROVE  \E q \in Slots :
                             /\ Closing(q)' /\ tasks'[q].of = trip.id
                             /\ tasks'[q].pc = "finish"
        OBVIOUS
      <4>1. HasRow(trip.id)
        BY <2>1, <2>4, <2>5, <3>2
      <4>2. PICK q \in Slots :
              Closing(q) /\ tasks[q].of = trip.id /\ tasks[q].pc = "finish"
        BY <4>1 DEF OnceInvariant
      <4>. QED BY <2>1, <2>2, <4>2
    <3>. QED BY <3>1, <3>2
  <2>8. \A r \in tripRows' : r.trip \in 1..opened'
    BY <2>1, <2>4 DEF OnceInvariant
  <2>9. ASSUME NEW q \in Slots, TripTask(q)', tasks'[q].of \notin repeated',
               tasks'[q].pc = "insert"
        PROVE  ~HasRow(tasks[q].of)'
    <3>1. /\ tasks'[q].of = tasks[q].of /\ tasks[q].of \notin repeated
          /\ ~HasRow(tasks[q].of) /\ q # s
      BY <2>1, <2>6, <2>9 DEF OnceInvariant
    <3>2. tasks[q].of # tasks[s].of
      BY <2>1, <2>6, <2>9, <3>1 DEF OnceInvariant
    <3>. QED BY <2>1, <2>4, <3>1, <3>2
  <2>10. ASSUME NEW q \in Slots, TripTask(q)'
         PROVE  /\ tasks'[q].of \in 1..opened'
                /\ tasks'[q].detached => tasks'[q].of # trip'.id
                /\ tasks'[q].of \notin repeated' =>
                     \A p \in Slots \ {q} :
                       TripTask(p)' => tasks'[p].of # tasks'[q].of
    BY <2>1, <2>6, <2>10 DEF OnceInvariant
  <2>. QED BY <2>1, <2>6, <2>7, <2>8, <2>9, <2>10 DEF OnceInvariant
<1>6. CASE \E s \in Slots : FinishTrip(s)
  <2>. PICK s \in Slots : FinishTrip(s)
    BY <1>6
  <2>1. /\ TripTask(s) /\ opened' = opened /\ tripRows' = tripRows
        /\ repeated' = repeated
        /\ trip' = IF tasks[s].detached THEN trip ELSE NoTrip
    BY DEF FinishTrip, ClearCurrent, rows
  <2>2. /\ tasks'[s] = NoTask /\ NoTask.kind = "none"
        /\ \A q \in Slots \ {s} : tasks'[q] = tasks[q]
    BY DEF FinishTrip, TypeOK, NoTask
  <2>3. ASSUME NEW q \in Slots, TripTask(q)'
        PROVE  TripTask(q) /\ tasks'[q] = tasks[q]
    BY <2>2, <2>3
  <2>4. CASE tasks[s].detached
    <3>1. trip' = trip
      BY <2>1, <2>4
    <3>2. \A q \in Slots : Closing(q) => Closing(q)' /\ tasks'[q] = tasks[q]
      BY <2>2, <2>4
    <3>. QED BY <2>1, <2>3, <3>1, <3>2 DEF OnceInvariant
  <2>5. CASE ~tasks[s].detached
    <3>1. trip'.id = 0
      BY <2>1, <2>5, ClearedIds
    <3>. QED BY <1>0, <2>1, <2>3, <3>1 DEF OnceInvariant
  <2>. QED BY <2>4, <2>5
<1>7. CASE \E s \in Slots : TaskFails(s)
  <2>. PICK s \in Slots : TaskFails(s)
    BY <1>7
  <2>1. /\ trip' = trip /\ opened' = opened /\ tripRows' = tripRows
        /\ repeated' = IF Closing(s) /\ tasks[s].pc = "finish"
                         THEN repeated \cup {tasks[s].of} ELSE repeated
    BY DEF TaskFails, memory, rows
  <2>2. /\ tasks'[s] = NoTask /\ NoTask.kind = "none"
        /\ \A q \in Slots \ {s} : tasks'[q] = tasks[q]
    BY DEF TaskFails, TypeOK, NoTask
  <2>3. ASSUME NEW q \in Slots, TripTask(q)'
        PROVE  TripTask(q) /\ tasks'[q] = tasks[q]
    BY <2>2, <2>3
  <2>4. repeated \subseteq repeated'
    BY <2>1
  <2>5. HasRow(trip.id)' =>
          \/ trip'.id \in repeated'
          \/ \E q \in Slots : /\ Closing(q)' /\ tasks'[q].of = trip'.id
                              /\ tasks'[q].pc = "finish"
    BY <2>1, <2>2, <2>4 DEF OnceInvariant
  <2>. QED BY <2>1, <2>3, <2>4, <2>5 DEF OnceInvariant
<1>8. CASE \E crash \in BOOLEAN : Stop(crash)
  <2>. PICK crash \in BOOLEAN : Stop(crash)
    BY <1>8
  <2>1. /\ trip'.id = 0 /\ opened' = opened /\ tripRows' = tripRows
        /\ repeated' = repeated
    BY ClearedIds DEF Stop, rows
  <2>2. \A s \in Slots :
          \/ tasks'[s] = NoTask
          \/ tasks'[s] = [tasks[s] EXCEPT !.detached = TRUE]
    BY DEF Stop
  <2>3. ASSUME NEW s \in Slots, TripTask(s)'
        PROVE  /\ TripTask(s) /\ tasks'[s].of = tasks[s].of
               /\ tasks'[s].pc = tasks[s].pc /\ tasks'[s].detached
    <3>1. tasks'[s] = [tasks[s] EXCEPT !.detached = TRUE]
      BY <2>2, <2>3 DEF NoTask
    <3>. QED BY <1>0, <2>3, <3>1 DEF Task
  <2>. QED BY <1>0, <2>1, <2>3 DEF OnceInvariant
<1>. QED BY <1>1, <1>2, <1>3, <1>4, <1>5, <1>6, <1>7, <1>8, StepClassified
         DEF TripStep

LEMMA OnceInvariantHolds == Spec => []OnceInvariant
<1>1. Init => OnceInvariant
  BY DEF Init, OnceInvariant, HasRow, TripTask, NoTask
<1>. QED BY <1>1, OnceStep, TypeInvariant, KmInvariantHolds, PTL DEF Spec

\* A coroutine about to write a trip finds it not yet written, through errors,
\* unloads and crashes, unless the trip was asked to close while a close of it
\* was suspended or an earlier close failed with the row in (_async_close_trip
\* awaits the insert before it clears self.current).
THEOREM TripsStoredOnce == Spec => []TripStoredOnce
<1>1. OnceInvariant => TripStoredOnce
  BY DEF OnceInvariant, TripStoredOnce, TripTask, HasRow
<1>. QED BY <1>1, OnceInvariantHolds, PTL
-----------------------------------------------------------------------------
(***************************************************************************)
(* No trip is lost.  A live coroutine holds the open trip, or a trip that  *)
(* left self.current behind its back; the latter takes a repeated close.   *)
(***************************************************************************)
RepeatedUpTo(t) == \E u \in repeated : u <= t

AccountedInvariant ==
  /\ repeated \subseteq Nat
  /\ TripsAccountedFor
  /\ \A s \in Slots : TripTask(s) /\ tasks[s].pc = "finish" => HasRow(tasks[s].of)
  /\ \A s \in Slots :
       Closing(s) => tasks[s].of = trip.id \/ RepeatedUpTo(tasks[s].of)

LEMMA AccountedStep ==
  ASSUME TypeOK, KmInvariant, OnceInvariant, AccountedInvariant, [Next]_vars
  PROVE  AccountedInvariant'
<1>. USE DEF TripTask, HasRow, Closing, RepeatedUpTo
<1>0. /\ trip.id \in {0, opened} /\ opened \in Nat
      /\ \A s \in Slots : tasks[s] \in Task /\ tasks[s].detached \in BOOLEAN
      /\ \A s \in Slots : TripTask(s) => tasks[s].of \in 1..opened
  BY DEF TypeOK, KmInvariant, OnceInvariant, Task
<1>1. CASE LeavesTrip
  <2>1. \A s \in Slots : TripTask(s) \/ TripTask(s)' => tasks'[s] = tasks[s]
    BY <1>1 DEF LeavesTrip, SameTripTasks
  <2>2. trip'.id = trip.id /\ UNCHANGED <<opened, ended, tripRows>>
    BY <1>1 DEF LeavesTrip
  <2>. QED BY <2>1, <2>2 DEF AccountedInvariant, TripsAccountedFor
<1>2. CASE OpensTrip
  <2>1. \A s \in Slots : TripTask(s) \/ TripTask(s)' => tasks'[s] = tasks[s]
    BY <1>2 DEF OpensTrip, SameTripTasks
  <2>2. /\ trip'.id = opened + 1 /\ opened' = opened + 1 /\ trip.id = 0
        /\ UNCHANGED <<ended, tripRows>>
    BY <1>2 DEF OpensTrip, TripOpen
  <2>3. \A s \in Slots : Closing(s) => RepeatedUpTo(tasks[s].of)
    BY <1>0, <2>2 DEF AccountedInvariant
  <2>. QED BY <1>0, <2>1, <2>2, <2>3 DEF AccountedInvariant, TripsAccountedFor
<1>3. CASE DiscardsTrip
  <2>1. \A s \in Slots : TripTask(s) \/ TripTask(s)' => tasks'[s] = tasks[s]
    BY <1>3 DEF DiscardsTrip, SameTripTasks
  <2>2. /\ trip'.id = 0 /\ dropped' = dropped \cup {trip.id}
        /\ UNCHANGED <<opened, cleared, tripRows>> /\ repeated' = Repeats
    BY <1>3 DEF DiscardsTrip
  <2>3. /\ repeated \subseteq repeated' /\ repeated' \subseteq repeated \cup {trip.id}
        /\ trip.id \notin repeated' =>
             \A s \in Slots : Closing(s) => tasks[s].of # trip.id
    BY <2>2, RepeatsGrows
  <2>4. \A s \in Slots : Closing(s) => RepeatedUpTo(tasks[s].of)'
    BY <1>0, <2>1, <2>3 DEF AccountedInvariant
  <2>5. repeated' \subseteq Nat
    BY <1>0, <2>3 DEF AccountedInvariant
  <2>. QED BY <2>1, <2>2, <2>3, <2>4, <2>5
           DEF AccountedInvariant, TripsAccountedFor
<1>4. CASE HandsTrip
  <2>. PICK q \in Slots : HandsTripTo(q)
    BY <1>4 DEF HandsTrip
  <2>1. /\ trip' = trip /\ UNCHANGED <<opened, dropped, cleared, tripRows>>
        /\ repeated' = Repeats
    BY <1>4 DEF HandsTrip
  <2>0. repeated \subseteq repeated' /\ repeated' \subseteq repeated \cup {trip.id}
    BY <2>1, RepeatsGrows
  <2>2. repeated \subseteq repeated' /\ repeated' \subseteq Nat
    BY <1>0, <2>0 DEF AccountedInvariant
  <2>3. /\ tasks'[q].of = trip.id /\ tasks'[q].pc = "insert"
        /\ \A s \in Slots \ {q} : tasks'[s] = tasks[s]
    BY DEF HandsTripTo
  <2>4. TripsAccountedFor'
    BY <2>1, <2>2 DEF AccountedInvariant, TripsAccountedFor
  <2>. QED BY <2>1, <2>2, <2>3, <2>4 DEF AccountedInvariant
<1>5. CASE \E s \in Slots : InsertTrip(s)
  <2>. PICK s \in Slots : InsertTrip(s)
    BY <1>5
  <2>1. /\ TripTask(s) /\ trip' = trip /\ UNCHANGED <<opened, ended>>
        /\ tripRows' = tripRows \cup {TripOf(s)}
    BY DEF InsertTrip, memory, counters
  <2>2. /\ tasks'[s] = [tasks[s] EXCEPT !.pc = "finish"]
        /\ \A q \in Slots \ {s} : tasks'[q] = tasks[q]
    BY DEF InsertTrip, TypeOK
  <2>3. /\ tasks'[s].of = tasks[s].of /\ tasks'[s].detached = tasks[s].detached
        /\ tasks'[s].kind = "trip"
    BY <1>0, <2>1, <2>2 DEF Task
  <2>4. TripOf(s).trip = tasks[s].of
    BY DEF TripOf
  <2>5. HasRow(tasks[s].of)' /\ \A t : HasRow(t) => HasRow(t)'
    BY <2>1, <2>3, <2>4
  <2>6. TripsAccountedFor'
    BY <2>1, <2>5 DEF AccountedInvariant, TripsAccountedFor
  <2>7. \A q \in Slots : /\ tasks'[q].of = tasks[q].of
                         /\ tasks'[q].kind = tasks[q].kind
                         /\ tasks'[q].detached = tasks[q].detached
                         /\ q # s => tasks'[q].pc = tasks[q].pc
    BY <2>1, <2>2, <2>3
  <2>. QED BY <2>1, <2>5, <2>6, <2>7 DEF AccountedInvariant
<1>6. CASE \E s \in Slots : FinishTrip(s)
  <2>. PICK s \in Slots : FinishTrip(s)
    BY <1>6
  <2>1. /\ TripTask(s) /\ tasks[s].pc = "finish"
        /\ UNCHANGED <<opened, dropped, repeated, tripRows>>
        /\ trip' = IF tasks[s].detached THEN trip ELSE NoTrip
        /\ cleared' = IF tasks[s].detached \/ trip.id \in {0, tasks[s].of}
                        THEN cleared ELSE cleared \cup {trip.id}
    BY DEF FinishTrip, ClearCurrent, rows
  <2>2. /\ tasks'[s] = NoTask /\ NoTask.kind = "none"
        /\ \A q \in Slots \ {s} : tasks'[q] = tasks[q]
    BY DEF FinishTrip, TypeOK, NoTask
  <2>3. ASSUME NEW q \in Slots, TripTask(q)'
        PROVE  TripTask(q) /\ tasks'[q] = tasks[q] /\ q # s
    BY <2>2, <2>3
  <2>4. CASE tasks[s].detached
    <3>1. trip' = trip /\ cleared' = cleared
      BY <2>1, <2>4
    <3>. QED BY <2>1, <2>3, <3>1 DEF AccountedInvariant, TripsAccountedFor
  <2>5. CASE ~tasks[s].detached
    <3>1. trip'.id = 0
      BY <2>1, <2>5, ClearedIds
    <3>2. HasRow(tasks[s].of)
      BY <2>1 DEF AccountedInvariant
    <3>3. tasks[s].of = trip.id \/ RepeatedUpTo(tasks[s].of)
      BY <2>1, <2>5 DEF AccountedInvariant
    <3>4. \A t \in 1..opened' :
            t = trip'.id \/ t \in dropped' \/ t \in cleared' \/ HasRow(t)'
      BY <2>1, <2>5, <3>2 DEF AccountedInvariant, TripsAccountedFor
    <3>5. ASSUME NEW t \in cleared'
          PROVE  \E u \in repeated' : u < t
      <4>1. CASE t \in cleared
        BY <2>1, <4>1 DEF AccountedInvariant, TripsAccountedFor
      <4>2. CASE t \notin cleared
        <5>1. t = trip.id /\ trip.id # tasks[s].of /\ trip.id = opened
          BY <1>0, <2>1, <3>5, <4>2
        <5>2. PICK u \in repeated : u <= tasks[s].of
          BY <3>3, <5>1
        <5>3. u \in Nat /\ tasks[s].of \in 1..opened
          BY <1>0, <2>1 DEF AccountedInvariant
        <5>4. u < t
          BY <1>0, <5>1, <5>2, <5>3
        <5>. QED BY <2>1, <5>4
      <4>. QED BY <4>1, <4>2
    <3>6. ASSUME NEW q \in Slots, Closing(q)'
          PROVE  RepeatedUpTo(tasks[q].of)
      <4>1. Closing(q) /\ q # s /\ tasks[q].of \in 1..opened
        BY <1>0, <2>3, <3>6
      <4>2. CASE tasks[q].of # trip.id
        BY <4>1, <4>2 DEF AccountedInvariant
      <4>3. CASE tasks[q].of = trip.id /\ tasks[s].of = trip.id
        <5>1. tasks[q].of \in repeated
          BY <2>1, <4>1, <4>3 DEF OnceInvariant
        <5>. QED BY <4>1, <5>1
      <4>4. CASE tasks[q].of = trip.id /\ tasks[s].of # trip.id
        <5>1. PICK u \in repeated : u <= tasks[s].of
          BY <3>3, <4>4
        <5>2. tasks[s].of \in 1..opened /\ tasks[q].of = opened /\ u \in Nat
          BY <1>0, <2>1, <4>1, <4>4 DEF AccountedInvariant
        <5>. QED BY <1>0, <5>1, <5>2
      <4>. QED BY <4>2, <4>3, <4>4
    <3>. QED BY <2>1, <2>3, <3>4, <3>5, <3>6
             DEF AccountedInvariant, TripsAccountedFor
  <2>. QED BY <2>4, <2>5
<1>7. CASE \E s \in Slots : TaskFails(s)
  <2>. PICK s \in Slots : TaskFails(s)
    BY <1>7
  <2>1. /\ trip' = trip /\ UNCHANGED <<opened, dropped, cleared, tripRows>>
        /\ repeated' = IF Closing(s) /\ tasks[s].pc = "finish"
                         THEN repeated \cup {tasks[s].of} ELSE repeated
    BY DEF TaskFails, memory, rows
  <2>2. /\ tasks'[s] = NoTask /\ NoTask.kind = "none"
        /\ \A q \in Slots \ {s} : tasks'[q] = tasks[q]
    BY DEF TaskFails, TypeOK, NoTask
  <2>3. ASSUME NEW q \in Slots, TripTask(q)'
        PROVE  TripTask(q) /\ tasks'[q] = tasks[q]
    BY <2>2, <2>3
  <2>4. repeated \subseteq repeated' /\ repeated' \subseteq Nat
    BY <1>0, <2>1 DEF AccountedInvariant
  <2>5. TripsAccountedFor'
    BY <2>1, <2>4 DEF AccountedInvariant, TripsAccountedFor
  <2>. QED BY <2>1, <2>3, <2>4, <2>5 DEF AccountedInvariant
<1>8. CASE \E crash \in BOOLEAN : Stop(crash)
  <2>. PICK crash \in BOOLEAN : Stop(crash)
    BY <1>8
  <2>1. /\ trip'.id = 0 /\ UNCHANGED <<opened, repeated, cleared, tripRows>>
        /\ dropped' = dropped \cup ({trip.id} \ {0})
    BY ClearedIds DEF Stop, rows
  <2>2. \A s \in Slots :
          \/ tasks'[s] = NoTask
          \/ tasks'[s] = [tasks[s] EXCEPT !.detached = TRUE]
    BY DEF Stop
  <2>3. ASSUME NEW s \in Slots, TripTask(s)'
        PROVE  /\ TripTask(s) /\ tasks'[s].of = tasks[s].of
               /\ tasks'[s].pc = tasks[s].pc /\ tasks'[s].detached
    <3>1. tasks'[s] = [tasks[s] EXCEPT !.detached = TRUE]
      BY <2>2, <2>3 DEF NoTask
    <3>. QED BY <1>0, <2>3, <3>1 DEF Task
  <2>4. TripsAccountedFor'
    BY <1>0, <2>1 DEF AccountedInvariant, TripsAccountedFor
  <2>. QED BY <2>1, <2>3, <2>4 DEF AccountedInvariant
<1>. QED BY <1>1, <1>2, <1>3, <1>4, <1>5, <1>6, <1>7, <1>8, StepClassified
         DEF TripStep

\* No trip is lost: until its row is in, a trip that was opened is open, was
\* dropped, or was taken by the end of another trip's close, and that takes
\* an earlier trip closed more than once (_async_close_trip clears
\* self.current at its end without looking at what it holds by then).
THEOREM TripsAreAccountedFor == Spec => []TripsAccountedFor
<1>1. Init => AccountedInvariant
  BY DEF Init, AccountedInvariant, TripsAccountedFor, TripTask, Closing, NoTask
<1>2. AccountedInvariant => TripsAccountedFor
  BY DEF AccountedInvariant
<1>3. Spec => []AccountedInvariant
  BY <1>1, AccountedStep, TypeInvariant, KmInvariantHolds, OnceInvariantHolds,
     PTL DEF Spec
<1>. QED BY <1>2, <1>3, PTL
=============================================================================
