--------------------------- MODULE TripLifecycle ---------------------------
(***************************************************************************)
(* The live sessions of EvTripLoggerCoordinator: the trip in progress, the *)
(* charge in progress, the timers that open and close them, and the        *)
(* coroutines that close them.                                             *)
(*                                                                         *)
(* Home Assistant runs the coordinator on one event loop.  A callback and  *)
(* the part of a coroutine before its first suspension are one step; the   *)
(* loop may run anything else while a coroutine waits for the database.    *)
(* So an action below is one callback, with the synchronous part of every  *)
(* coroutine it starts, and a suspended coroutine is a task in a slot.     *)
(*                                                                         *)
(* Distances are in half kilometres.  Trips and charge sessions are        *)
(* numbered in the order they open; the number of trips opened so far is   *)
(* the model's clock for time stamps (a stamp below a trip's number was    *)
(* taken before that trip opened).                                         *)
(***************************************************************************)
EXTENDS Integers, FiniteSets

CONSTANTS
  Slots,            \* suspended coroutines the loop can hold
  MaxTrips,         \* bound: trips opened
  MaxCharges,       \* bound: sessions opened when the charge sensor may report on
  MaxOdo,           \* bound: reading of the odometer
  MaxFailures,      \* bound: coroutines ended by a database error
  MaxReloads,       \* bound: unloads or crashes of the entry
  Retries,          \* len(_LIVE_OPEN_RETRY_DELAYS_S)
  MaxDefers,        \* re-arms of the off-edge close before the deferral cap
  MinDistance,      \* CONF_MIN_TRIP_DISTANCE
  OffMoved,         \* _VEHICLE_OFF_MOVED_KM
  GuardMoved,       \* the 1 km of _charge_still_delivering
  HasChargeSensor,  \* CONF_CHARGE_SENSOR is configured
  Services,         \* the trip services the user may call
  Dropouts          \* sensors may become unknown or unavailable

ASSUME ConstantsAssumption ==
  /\ MaxTrips \in Nat /\ MaxCharges \in Nat /\ MaxOdo \in Nat
  /\ MaxFailures \in Nat /\ MaxReloads \in Nat
  /\ Retries \in Nat /\ MaxDefers \in Nat
  /\ MinDistance \in Nat \ {0} /\ OffMoved \in Nat \ {0}
  /\ GuardMoved \in Nat \ {0}
  /\ HasChargeSensor \in BOOLEAN /\ Dropouts \in BOOLEAN
  /\ Services \subseteq {"start_trip", "end_trip"}

VARIABLES
  \* the car, as Home Assistant's state machine shows it
  vehicleOn,     \* vehicle_on: "on", "off" or "unknown"
  charging,      \* the charge sensor
  odo,           \* last numeric reading of the odometer
  odoSeen,       \* "fresh" (90 s), "stale", or "unknown" (no reading)
  \* the coordinator's memory
  phase,         \* "up", "starting" (listening, Home Assistant booting) or
                 \* "stopped"
  trip,          \* self.current
  charge,        \* self.current_charge
  pendingClose,  \* self._pending_close_unsub and the closure's `defer`
  pendingOpen,   \* attempt queued in self._pending_open_unsub, 0 for none
  liveTick,      \* self._unsub_live_tick is set
  tasks,         \* suspended coroutines
  \* the database
  tripRows, chargeRows,
  \* bookkeeping of the model
  opened, sessions,  \* trips and charge sessions opened so far
  dropped,           \* trips that ended without a row, for a stated reason
  repeated,          \* trips closed again while a close of theirs was
                     \* suspended, or whose close failed with the row in
  cleared,           \* trips forgotten at the end of another trip's close
  failures, reloads

ended == <<dropped, repeated, cleared>>

sensors == <<vehicleOn, charging, odo, odoSeen>>
memory == <<trip, charge, pendingClose, pendingOpen, liveTick>>
counters == <<opened, sessions, ended, failures, reloads>>
rows == <<tripRows, chargeRows>>
vars == <<sensors, phase, memory, tasks, rows, counters>>
-----------------------------------------------------------------------------
Unread == -1                      \* _read_float returned None
SensorStates == {"on", "off", "unknown"}
Reading == Unread .. MaxOdo

NoTrip == [id |-> 0, odoStart |-> Unread, idle |-> 0, old |-> FALSE]
NoCharge == [id |-> 0, odoStart |-> Unread]
NoClose == [on |-> FALSE, odo |-> Unread, end |-> 0, defers |-> 0]
NoTask == [kind |-> "none", of |-> 0, start |-> Unread, stop |-> 0,
           end |-> 0, pc |-> "insert", then |-> "nothing",
           detached |-> FALSE]

\* The open trip: idle is 1 past the live tick's idle timeout and 2 past
\* the stuck-trip watchdog's; old is past _STUCK_TRIP_MAX_AGE_H.
TripRecord == [id : Nat, odoStart : Reading, idle : 0..2, old : BOOLEAN]
ChargeRecord == [id : Nat, odoStart : Reading]
CloseTimer == [on : BOOLEAN, odo : Reading, end : Nat, defers : Nat]
Task == [kind : {"none", "trip", "charge"}, of : Nat, start : Reading,
         stop : 0..MaxOdo, end : Nat, pc : {"insert", "finish"},
         then : {"nothing", "open_charge", "open_trip", "resume_trip"},
         detached : BOOLEAN]
TripRow == [trip : Nat, start : Reading, stop : 0..MaxOdo, end : Nat]

TypeOK ==
  /\ vehicleOn \in SensorStates /\ charging \in SensorStates
  /\ odo \in 0..MaxOdo /\ odoSeen \in {"fresh", "stale", "unknown"}
  /\ phase \in {"up", "starting", "stopped"}
  /\ trip \in TripRecord /\ charge \in ChargeRecord
  /\ pendingClose \in CloseTimer /\ pendingOpen \in 0..Retries
  /\ liveTick \in BOOLEAN
  /\ tasks \in [Slots -> Task]
  /\ tripRows \subseteq TripRow /\ chargeRows \subseteq Nat
  /\ opened \in Nat /\ sessions \in Nat
  /\ dropped \subseteq Nat /\ repeated \subseteq Nat /\ cleared \subseteq Nat
  /\ failures \in Nat /\ reloads \in Nat

Init ==
  /\ vehicleOn = "off" /\ charging = "off"
  /\ odo = 0 /\ odoSeen = "fresh"
  /\ phase = "up"
  /\ trip = NoTrip /\ charge = NoCharge
  /\ pendingClose = NoClose /\ pendingOpen = 0
  /\ liveTick = FALSE
  /\ tasks = [s \in Slots |-> NoTask]
  /\ tripRows = {} /\ chargeRows = {}
  /\ opened = 0 /\ sessions = 0
  /\ dropped = {} /\ repeated = {} /\ cleared = {}
  /\ failures = 0 /\ reloads = 0
-----------------------------------------------------------------------------
Listening == phase # "stopped"
OdoRead == IF odoSeen = "unknown" THEN Unread ELSE odo
TripOpen == trip.id # 0
ChargeOpen == charge.id # 0

\* Kilometres of the open trip at close.  The trip keeps the last reading it
\* saw, so an odometer that is unavailable now still ends at odo; a trip
\* opened without a reading has no distance.
Distance == IF trip.odoStart = Unread THEN 0 ELSE odo - trip.odoStart

\* The coroutine in slot s still has to write, or to clear, the open trip.
Closing(s) == tasks[s].kind = "trip" /\ ~tasks[s].detached
Repeats == IF \E s \in Slots : Closing(s) /\ tasks[s].of = trip.id
             THEN repeated \cup {trip.id} ELSE repeated

\* _charge_still_delivering.  Power flowing into the battery vetoes the
\* odometer's escape hatch.
Delivering(odoNow, powerVeto) ==
  /\ ChargeOpen /\ HasChargeSensor /\ charging = "on"
  /\ charge.odoStart # Unread /\ odoNow # Unread
  /\ odoNow - charge.odoStart < GuardMoved \/ powerVeto

\* _cancel_pending_open.  (Mutant: the chain is not cancelled.)
KeepPendingOpen == UNCHANGED pendingOpen
CancelPendingOpen == pendingOpen' = 0

\* _open_trip, reading the odometer as odoNow.  (Mutant: the heartbeat is not
\* started.)
OpenTripWithoutTick(odoNow) ==
  /\ opened < MaxTrips
  /\ opened' = opened + 1
  /\ trip' = [NoTrip EXCEPT !.id = opened + 1, !.odoStart = odoNow]
  /\ CancelPendingOpen
  /\ UNCHANGED liveTick

OpenTrip(odoNow) ==
  /\ opened < MaxTrips
  /\ opened' = opened + 1
  /\ trip' = [NoTrip EXCEPT !.id = opened + 1, !.odoStart = odoNow]
  /\ CancelPendingOpen
  /\ liveTick' = TRUE

\* A new ChargeInProgress.
OpenCharge ==
  /\ sessions' = sessions + 1
  /\ charge' = [id |-> sessions + 1, odoStart |-> OdoRead]

Suspend(task) ==
  \E s \in Slots : /\ tasks[s] = NoTask
                   /\ tasks' = [tasks EXCEPT ![s] = task]
-----------------------------------------------------------------------------
(***************************************************************************)
(* _async_close_trip up to its first suspension.  A trip shorter than the  *)
(* minimum is forgotten on the spot and the caller goes on at once         *)
(* (Continue); any other trip stays in self.current until the coroutine    *)
(* has written the row, and may be asked to close again before that.       *)
(* (Mutant: self.current is cleared before the row is in.)                 *)
(***************************************************************************)
ForgetsTrip == trip' = NoTrip
HoldsTrip == UNCHANGED trip

CloseTrip(end, then, Continue) ==
  \/ /\ ~TripOpen
     /\ UNCHANGED <<trip, liveTick, tasks, ended>>
     /\ Continue
  \/ /\ TripOpen
     /\ Distance < MinDistance
     /\ liveTick' = FALSE
     /\ trip' = NoTrip
     /\ dropped' = dropped \cup {trip.id} /\ repeated' = Repeats
     /\ UNCHANGED <<tasks, cleared>>
     /\ Continue
  \/ /\ TripOpen
     /\ Distance >= MinDistance
     /\ liveTick' = FALSE
     /\ Suspend([kind |-> "trip", of |-> trip.id, start |-> trip.odoStart,
                 stop |-> odo, end |-> end, pc |-> "insert", then |-> then,
                 detached |-> FALSE])
     /\ HoldsTrip
     /\ repeated' = Repeats
     /\ UNCHANGED <<charge, sessions, dropped, cleared>>

\* A close nothing waits for.
CloseTripOnly(end) ==
  CloseTrip(end, "nothing", UNCHANGED <<charge, sessions>>)

\* What the two close-the-charge-first coroutines do once the charge is
\* closed: _async_close_charge_then_open_trip opens the trip whenever none is
\* open, _async_close_charge_then_resume_trip only with the car still on.
WantsTrip(then, on) ==
  /\ ~TripOpen
  /\ then = "open_trip" \/ (then = "resume_trip" /\ on)

AfterCharge(then, on, timer) ==
  IF WantsTrip(then, on)
    THEN OpenTrip(OdoRead)
    ELSE pendingOpen' = timer /\ UNCHANGED <<trip, liveTick, opened>>

(***************************************************************************)
(* _async_close_auto_charge up to its first suspension: the session leaves *)
(* self.current_charge before anything is awaited.  A session with less    *)
(* than 2 % of charge, or overlapping the previous row, is discarded and   *)
(* the caller goes on at once.  timer is what the caller leaves of the     *)
(* retry chain.  (Mutant: the session is cleared only once it is written.)  *)
(***************************************************************************)
CloseChargeLate(then, on, timer) ==
  \/ charge' = NoCharge /\ AfterCharge(then, on, timer) /\ UNCHANGED tasks
  \/ /\ Suspend([NoTask EXCEPT !.kind = "charge", !.of = charge.id,
                               !.then = then])
     /\ pendingOpen' = timer
     /\ UNCHANGED <<trip, charge, liveTick, opened>>

CloseCharge(then, on, timer) ==
  /\ charge' = NoCharge
  /\ \/ /\ AfterCharge(then, on, timer)
        /\ UNCHANGED tasks
     \/ /\ Suspend([NoTask EXCEPT !.kind = "charge", !.of = charge.id,
                                  !.then = then])
        /\ pendingOpen' = timer
        /\ UNCHANGED <<trip, liveTick, opened>>
-----------------------------------------------------------------------------
\* Nothing opens; the retry chain is left at attempt n.
OpensNothing(n) ==
  /\ pendingOpen' = n
  /\ UNCHANGED <<trip, charge, liveTick, tasks, opened>>

\* The next attempt of the chain, 0 when it is exhausted.  (Mutant: one more.)
NextAttemptOffByOne(attempt) == IF attempt > Retries THEN 0 ELSE attempt + 1
NextAttempt(attempt) == IF attempt >= Retries THEN 0 ELSE attempt + 1

(***************************************************************************)
(* _async_try_live_open, run with vehicle_on reading v.                    *)
(***************************************************************************)
TryLiveOpen(v, attempt) ==
  \/ /\ TripOpen \/ v # "on"
     /\ OpensNothing(0)
  \/ /\ ~TripOpen /\ v = "on" /\ ChargeOpen
     /\ \E powerVeto \in BOOLEAN :
          IF Delivering(OdoRead, powerVeto)
            THEN OpensNothing(0)
            ELSE CloseCharge("open_trip", TRUE, 0)
  \/ /\ ~TripOpen /\ v = "on" /\ ~ChargeOpen
     /\ odoSeen = "fresh"
     /\ OpenTrip(odo)
     /\ UNCHANGED <<charge, tasks>>
  \/ /\ ~TripOpen /\ v = "on" /\ ~ChargeOpen
     /\ odoSeen # "fresh"
     /\ OpensNothing(NextAttempt(attempt))

(***************************************************************************)
(* vehicle_on is written to the state machine: _async_vehicle_on_changed.  *)
(* Home Assistant calls it for attribute changes too, so the value may be  *)
(* the one it already had.                                                 *)
(***************************************************************************)
\* The on-edge absorbs the pause.
CancelPendingClose == pendingClose' = NoClose

VehicleReportsOn ==
  /\ vehicleOn' = "on"
  /\ \/ /\ ~Listening
        /\ UNCHANGED <<memory, tasks, opened>>
     \/ /\ Listening /\ pendingClose.on
        /\ CancelPendingClose
        /\ UNCHANGED <<trip, charge, pendingOpen, liveTick, tasks, opened>>
     \/ /\ Listening /\ ~pendingClose.on /\ TripOpen
        /\ UNCHANGED <<memory, tasks, opened>>
     \/ /\ Listening /\ ~pendingClose.on /\ ~TripOpen
        /\ TryLiveOpen("on", 0)
        /\ UNCHANGED pendingClose
  /\ UNCHANGED <<charging, odo, odoSeen, phase, rows, sessions, ended,
                 failures, reloads>>

VehicleReportsOff ==
  /\ vehicleOn' = "off"
  /\ IF Listening
       THEN /\ CancelPendingOpen
            /\ pendingClose' = IF TripOpen
                                 THEN [on |-> TRUE, odo |-> OdoRead,
                                       end |-> opened, defers |-> 0]
                                 ELSE pendingClose
       ELSE UNCHANGED <<pendingOpen, pendingClose>>
  /\ UNCHANGED <<charging, odo, odoSeen, phase, trip, charge, liveTick,
                 tasks, rows, counters>>

VehicleDropsOut ==
  /\ Dropouts
  /\ vehicleOn' = "unknown"
  /\ UNCHANGED <<charging, odo, odoSeen, phase, memory, tasks, rows, counters>>

(***************************************************************************)
(* The odometer or the battery is written: _async_metric_changed.  now is  *)
(* the odometer's reading after the write and fresh whether it is recent.  *)
(* Any write of the odometer, even an unavailable one, counts as movement. *)
(***************************************************************************)
MetricChanged(now, fresh, isOdometer) ==
  \E powerVeto \in BOOLEAN :
    LET opens == /\ Listening /\ ~TripOpen /\ vehicleOn = "on" /\ fresh
                 /\ ~Delivering(now, powerVeto)
    IN IF opens
         THEN OpenTrip(now)
         ELSE /\ trip' = IF Listening /\ TripOpen /\ isOdometer
                           THEN [trip EXCEPT !.idle = 0] ELSE trip
              /\ UNCHANGED <<liveTick, pendingOpen, opened>>

OdometerReports(now) ==
  /\ now >= odo
  /\ odo' = now /\ odoSeen' = "fresh"
  /\ MetricChanged(now, TRUE, TRUE)
  /\ UNCHANGED <<vehicleOn, charging, phase, charge, pendingClose, tasks,
                 rows, sessions, ended, failures, reloads>>

OdometerDropsOut ==
  /\ Dropouts
  /\ odoSeen' = "unknown"
  /\ MetricChanged(Unread, FALSE, TRUE)
  /\ UNCHANGED <<vehicleOn, charging, odo, phase, charge, pendingClose, tasks,
                 rows, sessions, ended, failures, reloads>>

BatteryReports ==
  /\ MetricChanged(OdoRead, odoSeen = "fresh", FALSE)
  /\ UNCHANGED <<sensors, phase, charge, pendingClose, tasks, rows, sessions,
                 ended, failures, reloads>>

\* _async_speed_changed with a speed above zero.
SpeedReports ==
  /\ Listening /\ TripOpen
  /\ trip' = [trip EXCEPT !.idle = 0]
  /\ UNCHANGED <<sensors, phase, charge, pendingClose, pendingOpen, liveTick,
                 tasks, rows, counters>>

(***************************************************************************)
(* The charge sensor is written: _async_charge_sensor_changed.  Charging   *)
(* with a trip open closes the trip at its last movement, then opens the   *)
(* session.                                                                *)
(***************************************************************************)
ChargeReportsOn ==
  /\ HasChargeSensor
  /\ sessions < MaxCharges
  /\ charging' = "on"
  /\ \/ /\ ~Listening \/ ChargeOpen
        /\ UNCHANGED <<trip, charge, liveTick, tasks, sessions, ended>>
     \/ /\ Listening /\ ~ChargeOpen /\ ~TripOpen
        /\ OpenCharge
        /\ UNCHANGED <<trip, liveTick, tasks, ended>>
     \/ /\ Listening /\ ~ChargeOpen /\ TripOpen
        /\ CloseTrip(trip.id, "open_charge", OpenCharge)
  /\ UNCHANGED <<vehicleOn, odo, odoSeen, phase, pendingClose, pendingOpen,
                 rows, opened, failures, reloads>>

ChargeReportsOff ==
  /\ HasChargeSensor
  /\ charging' = "off"
  /\ IF Listening /\ ChargeOpen
       THEN CloseCharge("resume_trip", vehicleOn = "on", pendingOpen)
       ELSE OpensNothing(pendingOpen)
  /\ UNCHANGED <<vehicleOn, odo, odoSeen, phase, pendingClose, rows, sessions,
                 ended, failures, reloads>>

ChargeDropsOut ==
  /\ HasChargeSensor /\ Dropouts
  /\ charging' = "unknown"
  /\ UNCHANGED <<vehicleOn, odo, odoSeen, phase, memory, tasks, rows, counters>>
-----------------------------------------------------------------------------
(***************************************************************************)
(* Time, as far as the handlers read it.                                   *)
(***************************************************************************)
OdometerGoesStale ==
  /\ odoSeen = "fresh"
  /\ odoSeen' = "stale"
  /\ UNCHANGED <<vehicleOn, charging, odo, phase, memory, tasks, rows,
                 counters>>

TripIdles ==
  /\ TripOpen /\ trip.idle < 2
  /\ trip' = [trip EXCEPT !.idle = @ + 1]
  /\ UNCHANGED <<sensors, phase, charge, pendingClose, pendingOpen, liveTick,
                 tasks, rows, counters>>

TripAges ==
  /\ TripOpen /\ ~trip.old
  /\ trip' = [trip EXCEPT !.old = TRUE]
  /\ UNCHANGED <<sensors, phase, charge, pendingClose, pendingOpen, liveTick,
                 tasks, rows, counters>>

(***************************************************************************)
(* Timers.                                                                 *)
(***************************************************************************)
\* The retry _async_try_live_open queued.
RetryFires ==
  /\ pendingOpen # 0
  /\ TryLiveOpen(vehicleOn, pendingOpen)
  /\ UNCHANGED <<sensors, phase, pendingClose, rows, sessions, ended,
                 failures, reloads>>

\* _debounced_close: the odometer moved while the car was off, so the off
\* was a dropout and the check is repeated from here ...
DebounceDefers ==
  /\ pendingClose.on
  /\ pendingClose.odo # Unread /\ OdoRead # Unread
  /\ OdoRead - pendingClose.odo >= OffMoved
  /\ pendingClose.defers < MaxDefers
  /\ pendingClose' = [on |-> TRUE, odo |-> OdoRead, end |-> opened,
                      defers |-> pendingClose.defers + 1]
  /\ UNCHANGED <<sensors, phase, trip, charge, pendingOpen, liveTick, tasks,
                 rows, counters>>

\* ... or it did not move, or the cap is reached, and the trip closes.
DebounceCloses ==
  /\ pendingClose.on
  /\ \/ pendingClose.odo = Unread \/ OdoRead = Unread
     \/ OdoRead - pendingClose.odo < OffMoved
     \/ pendingClose.defers >= MaxDefers
  /\ pendingClose' = NoClose
  /\ CloseTripOnly(pendingClose.end)
  /\ UNCHANGED <<sensors, phase, pendingOpen, rows, opened, failures, reloads>>

\* The idle watchdog of _async_live_tick: the off-edge was missed.
LiveTickCloses ==
  /\ liveTick /\ TripOpen
  /\ trip.idle >= 1 /\ vehicleOn = "off" /\ ~pendingClose.on
  /\ CloseTripOnly(trip.id)
  /\ UNCHANGED <<sensors, phase, pendingClose, pendingOpen, rows, opened,
                 failures, reloads>>

\* The two triggers of _async_check_stuck_trip.  (Mutant: without the age cap.)
StuckOnlyWhenOff == trip.idle = 2 /\ vehicleOn = "off"
Stuck == trip.old \/ (trip.idle = 2 /\ vehicleOn = "off")

\* _async_check_stuck_trip, every five minutes while the entry is loaded.
StuckWatchdogCloses ==
  /\ Listening /\ TripOpen /\ ~pendingClose.on
  /\ Stuck
  /\ CloseTripOnly(trip.id)
  /\ UNCHANGED <<sensors, phase, pendingClose, pendingOpen, rows, opened,
                 failures, reloads>>

(***************************************************************************)
(* Services.                                                               *)
(***************************************************************************)
StartTripService ==
  /\ "start_trip" \in Services /\ Listening
  /\ ~TripOpen
  /\ OpenTrip(OdoRead)
  /\ UNCHANGED <<sensors, phase, charge, pendingClose, tasks, rows, sessions,
                 ended, failures, reloads>>

EndTripService ==
  /\ "end_trip" \in Services /\ Listening
  /\ TripOpen
  /\ CloseTripOnly(opened)
  /\ UNCHANGED <<sensors, phase, pendingClose, pendingOpen, rows, opened,
                 failures, reloads>>
-----------------------------------------------------------------------------
(***************************************************************************)
(* Suspended coroutines.  A detached one belongs to a coordinator that was *)
(* unloaded: it still writes its row, and the memory it clears is no       *)
(* longer anyone's.                                                        *)
(***************************************************************************)
\* (Mutant: the odometer is read when the row is written.)
LateTripOf(s) == [trip |-> tasks[s].of, start |-> tasks[s].start,
                  stop |-> odo, end |-> tasks[s].end]
TripOf(s) == [trip |-> tasks[s].of, start |-> tasks[s].start,
              stop |-> tasks[s].stop, end |-> tasks[s].end]

InsertTrip(s) ==
  /\ tasks[s].kind = "trip" /\ tasks[s].pc = "insert"
  /\ tripRows' = tripRows \cup {TripOf(s)}
  /\ tasks' = [tasks EXCEPT ![s].pc = "finish"]
  /\ UNCHANGED <<sensors, phase, memory, chargeRows, counters>>

\* The end of _async_close_trip clears self.current, whichever trip it holds
\* by then.  (Mutant: it does not.)
KeepCurrent(s) == UNCHANGED trip
ClearCurrent(s) == trip' = IF tasks[s].detached THEN trip ELSE NoTrip

\* _async_close_then_open_charge goes on without reading the sensor again.
WantsCharge(s) ==
  ~tasks[s].detached /\ tasks[s].then = "open_charge" /\ ~ChargeOpen

FinishTrip(s) ==
  /\ tasks[s].kind = "trip" /\ tasks[s].pc = "finish"
  /\ tasks' = [tasks EXCEPT ![s] = NoTask]
  /\ ClearCurrent(s)
  /\ IF WantsCharge(s)
       THEN OpenCharge
       ELSE UNCHANGED <<charge, sessions>>
  /\ cleared' = IF tasks[s].detached \/ trip.id \in {0, tasks[s].of}
                  THEN cleared ELSE cleared \cup {trip.id}
  /\ UNCHANGED <<sensors, phase, pendingClose, pendingOpen, liveTick, rows,
                 opened, dropped, repeated, failures, reloads>>

\* The session is inserted, or merged into the row it continues.
InsertCharge(s) ==
  /\ tasks[s].kind = "charge" /\ tasks[s].pc = "insert"
  /\ chargeRows' = chargeRows \cup {tasks[s].of}
  /\ tasks' = [tasks EXCEPT ![s].pc = "finish"]
  /\ UNCHANGED <<sensors, phase, memory, tripRows, counters>>

\* The coroutine ends: its row is written, or the plug history it awaited
\* could not prove continuity and the session overlapped the previous row.
FinishCharge(s) ==
  /\ tasks[s].kind = "charge"
  /\ tasks' = [tasks EXCEPT ![s] = NoTask]
  /\ IF tasks[s].detached
       THEN UNCHANGED <<trip, liveTick, pendingOpen, opened>>
       ELSE AfterCharge(tasks[s].then, vehicleOn = "on", pendingOpen)
  /\ UNCHANGED <<sensors, phase, charge, pendingClose, rows, sessions,
                 ended, failures, reloads>>

\* A storage call raises: the coroutine ends there, and what it was to do
\* afterwards is not done.
TaskFails(s) ==
  /\ failures < MaxFailures
  /\ tasks[s] # NoTask
  /\ failures' = failures + 1
  /\ tasks' = [tasks EXCEPT ![s] = NoTask]
  /\ repeated' = IF Closing(s) /\ tasks[s].pc = "finish"
                   THEN repeated \cup {tasks[s].of} ELSE repeated
  /\ UNCHANGED <<sensors, phase, memory, rows, opened, sessions, dropped,
                 cleared, reloads>>
-----------------------------------------------------------------------------
(***************************************************************************)
(* Unload and start.                                                       *)
(***************************************************************************)
\* The timers async_stop cancels.  (Mutant: the debounce is left armed.)
CancelTimersButDebounce ==
  pendingOpen' = 0 /\ liveTick' = FALSE /\ UNCHANGED pendingClose
CancelTimers ==
  pendingOpen' = 0 /\ liveTick' = FALSE /\ pendingClose' = NoClose

\* async_stop forgets the sessions and cancels the timers; coroutines go on.
\* In a crash they do not.
Stop(crash) ==
  /\ Listening /\ reloads < MaxReloads
  /\ reloads' = reloads + 1
  /\ phase' = "stopped"
  /\ trip' = NoTrip /\ charge' = NoCharge
  /\ CancelTimers
  /\ dropped' = dropped \cup ({trip.id} \ {0})
  /\ tasks' = [s \in Slots |->
                 IF crash \/ tasks[s] = NoTask THEN NoTask
                 ELSE [tasks[s] EXCEPT !.detached = TRUE]]
  /\ UNCHANGED <<sensors, rows, opened, sessions, repeated, cleared, failures>>

\* _maybe_resume_trip wants a recent on-edge, an odometer and a battery
\* reading; the edge and the battery are the car's to choose.  (Mutant: it
\* forgets that the listeners may have opened a trip during the boot.)
ResumeTripUnchecked ==
  \/ UNCHANGED <<trip, liveTick, pendingOpen, opened>>
  \/ /\ vehicleOn = "on" /\ OdoRead # Unread
     /\ OpenTrip(OdoRead)
ResumeTrip ==
  \/ UNCHANGED <<trip, liveTick, pendingOpen, opened>>
  \/ /\ ~TripOpen /\ vehicleOn = "on" /\ OdoRead # Unread
     /\ OpenTrip(OdoRead)

\* _maybe_resume_charge.  (Mutant: as above.)
ResumeChargeUnchecked ==
  IF HasChargeSensor /\ charging = "on"
    THEN OpenCharge ELSE UNCHANGED <<charge, sessions>>
ResumeCharge ==
  IF HasChargeSensor /\ ~ChargeOpen /\ charging = "on"
    THEN OpenCharge ELSE UNCHANGED <<charge, sessions>>

\* async_start with Home Assistant running resumes at once; while it boots,
\* the listeners are live and the resume waits for it.
Start ==
  /\ phase = "stopped"
  /\ \/ phase' = "up" /\ ResumeTrip /\ ResumeCharge
     \/ phase' = "starting"
        /\ UNCHANGED <<trip, liveTick, pendingOpen, opened, charge, sessions>>
  /\ UNCHANGED <<sensors, pendingClose, tasks, rows, ended, failures,
                 reloads>>

\* _async_on_ha_started.
HaStarted ==
  /\ phase = "starting"
  /\ phase' = "up"
  /\ ResumeTrip /\ ResumeCharge
  /\ UNCHANGED <<sensors, pendingClose, tasks, rows, ended, failures,
                 reloads>>
-----------------------------------------------------------------------------
OtherReports ==
  \/ VehicleReportsOn \/ VehicleDropsOut
  \/ \E now \in 0..MaxOdo : OdometerReports(now)
  \/ OdometerDropsOut \/ BatteryReports \/ SpeedReports
  \/ ChargeReportsOn \/ ChargeReportsOff \/ ChargeDropsOut

Sensors == VehicleReportsOff \/ OtherReports

Time == OdometerGoesStale \/ TripIdles \/ TripAges

Timers ==
  RetryFires \/ DebounceDefers \/ DebounceCloses \/ LiveTickCloses
    \/ StuckWatchdogCloses

Tasks ==
  \E s \in Slots : InsertTrip(s) \/ FinishTrip(s) \/ InsertCharge(s)
                     \/ FinishCharge(s) \/ TaskFails(s)

Control ==
  \/ StartTripService \/ EndTripService
  \/ \E crash \in BOOLEAN : Stop(crash)
  \/ Start \/ HaStarted

Next == Sensors \/ Time \/ Timers \/ Tasks \/ Control

Spec == Init /\ [][Next]_vars
-----------------------------------------------------------------------------
\* A queued retry means nothing is open and the car has not been turned off
\* since: every path that opens a trip, and the off-edge, drop the chain
\* (_open_trip, _cancel_pending_open).
RetryOnlyWhileWaiting == pendingOpen # 0 => ~TripOpen /\ vehicleOn # "off"

\* A deferred close is pending only while the car does not read on: the
\* on-edge absorbs the pause whatever closed or opened in between.
NoCloseWhileOn == pendingClose.on => vehicleOn # "on"

\* An open trip has its heartbeat, or is being closed.  Only a close that a
\* database error ended leaves a trip without one (the stuck-trip watchdog
\* is then the only thing that can close it).
WatchedTrip ==
  TripOpen /\ ~liveTick =>
    failures > 0 \/ \E s \in Slots : Closing(s) /\ tasks[s].of = trip.id

\* A session is written at most once: a coroutine about to write one finds
\* it neither open, nor stored, nor in the hands of another coroutine,
\* although close requests and charge pulses arrive while it is suspended.
ChargeStoredOnce ==
  \A s \in Slots :
    tasks[s].kind = "charge" /\ tasks[s].pc = "insert" =>
      /\ tasks[s].of \notin chargeRows
      /\ tasks[s].of # charge.id
      /\ \A r \in Slots \ {s} :
           tasks[r].kind = "charge" => tasks[r].of # tasks[s].of

\* The odometer intervals of different live trips do not overlap: the end
\* is read when the close starts, not when it writes.
KmCountedOnce ==
  \A a, b \in tripRows : a.trip < b.trip => a.stop <= b.start

\* A coroutine about to write a trip finds it not yet written, through
\* errors, unloads and crashes.  Two things break it and are named: the
\* trip is asked to close while a close of it is suspended, or a close
\* fails with the row in and self.current not cleared (both in repeated).
TripStoredOnce ==
  \A s \in Slots :
    tasks[s].kind = "trip" /\ tasks[s].pc = "insert" =>
      tasks[s].of \in repeated \/ \A r \in tripRows : r.trip # tasks[s].of

\* No trip is lost: while its row is not in, a trip is still open, or was
\* dropped (too short, or open at an unload), or was taken by the end of
\* another trip's close; and that takes a trip closed more than once before.
TripsAccountedFor ==
  /\ \A t \in 1..opened :
       \/ t = trip.id \/ t \in dropped \/ t \in cleared
       \/ \E r \in tripRows : r.trip = t
  /\ \A t \in cleared : \E u \in repeated : u < t

\* No path opens a trip, or a session, over one that is open.
TripNeverOverwritten ==
  [][TripOpen /\ trip'.id # 0 => trip'.id = trip.id]_vars
ChargeNeverOverwritten ==
  [][ChargeOpen /\ charge'.id # 0 => charge'.id = charge.id]_vars
-----------------------------------------------------------------------------
(***************************************************************************)
(* The invariants that make the properties above inductive; the theorems   *)
(* of TripLifecycleProofs rest on them.                                    *)
(***************************************************************************)
\* An unloaded entry has no session and no timer, and every coroutine that
\* still runs belongs to the past.
StoppedClear ==
  phase = "stopped" =>
    /\ trip = NoTrip /\ charge = NoCharge
    /\ ~pendingClose.on /\ pendingOpen = 0
    /\ \A s \in Slots : tasks[s] = NoTask \/ tasks[s].detached

TimerInvariant == StoppedClear /\ RetryOnlyWhileWaiting /\ NoCloseWhileOn

\* A session is in one place: open, in the hands of one coroutine that has
\* not written it, or behind one.
ChargeTask(s) == tasks[s].kind = "charge"
ChargeInvariant ==
  /\ charge.id <= sessions /\ chargeRows \subseteq 1..sessions
  /\ charge.id \notin chargeRows
  /\ \A s \in Slots :
       ChargeTask(s) =>
         /\ tasks[s].of \in 1..sessions
         /\ tasks[s].of # charge.id
         /\ tasks[s].pc = "insert" => tasks[s].of \notin chargeRows
         /\ \A r \in Slots \ {s} : ChargeTask(r) => tasks[r].of # tasks[s].of

\* The intervals written, or about to be.
Intervals ==
  tripRows \cup {TripOf(s) : s \in {r \in Slots : tasks[r].kind = "trip"}}

\* The open trip is the latest, no interval reaches past the odometer, and
\* intervals follow one another in the order their trips opened.
KmInvariant ==
  /\ trip.id \in {0, opened}
  /\ trip.odoStart <= odo
  /\ \A a \in Intervals :
       /\ a.trip <= opened /\ a.start # Unread /\ a.stop <= odo
       /\ a.trip < trip.id => trip.odoStart = Unread \/ a.stop <= trip.odoStart
  /\ \A a, b \in Intervals : a.trip < b.trip => a.stop <= b.start
-----------------------------------------------------------------------------
(***************************************************************************)
(* What the documentation says and the code does not do.                   *)
(***************************************************************************)
\* "mutual exclusion" (coordinator.py:2770): a charge session is closed
\* before a trip opens, and a trip is closed before a session opens.
MutualExclusion == ~(TripOpen /\ ChargeOpen)

\* "so the trip's ended_at reflects the actual off-edge" (coordinator.py:2661):
\* the off-edge a trip is closed at is its own, so no row ends before its trip
\* began.
EndsAfterStart == \A r \in tripRows : r.end >= r.trip

\* "Nothing takes over from a live session any more: while the configured
\* charge sensor still reads charging, the trip open is deferred"
\* (CHANGELOG.md:509).
NothingTakesOverLiveSession ==
  [][~TripOpen /\ trip'.id # 0 /\ ChargeOpen =>
       \/ charging' # "on"
       \/ charge.odoStart = Unread \/ odoSeen' = "unknown"
       \/ odo' - charge.odoStart >= GuardMoved]_vars
=============================================================================
