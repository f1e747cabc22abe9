--------------------------- MODULE OdometerLedger ---------------------------
(***************************************************************************)
(* Which kilometres end up in which row of the trip log.  Besides live     *)
(* trips, three paths of the coordinator write rows for kilometres that no *)
(* live trip saw:                                                          *)
(*   synth       the odometer grew with the car reading off; one row when  *)
(*               a coalescing timer has fired;                             *)
(*   disconnect  the odometer had grown after hours without a reading;     *)
(*   orphan      a live trip opens past the end of the last row.           *)
(* They share the idle baseline (_last_idle_odo), the synthetic baseline   *)
(* and last_trip with the live trip and with each other.                   *)
(*                                                                         *)
(* When a live trip opens and closes is TripLifecycle's subject: here it   *)
(* may do so at any time.  The clock counts units shorter than the         *)
(* coalescing window; a timer that is due fires before the clock moves,    *)
(* and no coroutine waits for the database that long.                      *)
(*                                                                         *)
(* No lock orders the coroutines that write rows.  `crossed' remembers     *)
(* that one started while another was suspended, or that the entry was     *)
(* unloaded with one suspended; `half' names the rows whose coroutine      *)
(* failed after the insert, before the memory knew of them.                *)
(***************************************************************************)
EXTENDS Integers, Sequences, FiniteSets

CONSTANTS
  Slots,          \* suspended coroutines the loop can hold
  MaxOdo,         \* bound: reading of the odometer
  MaxTime,        \* bound: the clock
  MaxRestarts,    \* bound: unloads and crashes of the entry
  MaxFailures,    \* bound: coroutines ended by a database error
  MinDistance,    \* CONF_MIN_TRIP_DISTANCE
  MaxGap,         \* _ORPHAN_MAX_KM_GAP
  Window,         \* _SYNTH_COALESCE_WINDOW_S
  SynthAge,       \* _MAX_SYNTH_BASELINE_AGE
  DisconnectAge,  \* _ORPHAN_DISCONNECT_MAX_AGE
  OrphanAge       \* _ORPHAN_MAX_DURATION_S

ASSUME LedgerAssumption ==
  /\ MaxOdo \in Nat /\ MaxTime \in Nat
  /\ MaxRestarts \in Nat /\ MaxFailures \in Nat
  /\ MinDistance \in Nat \ {0} /\ MaxGap \in Nat
  /\ Window \in Nat \ {0} /\ SynthAge \in Nat
  /\ DisconnectAge \in Nat /\ OrphanAge \in Nat

VARIABLES
  vehicleOn,   \* vehicle_on reads on
  odo,         \* last numeric reading of the odometer
  readable,    \* the odometer is numeric now
  clock,
  up,          \* the entry is loaded
  trip,        \* self.current
  idle,        \* self._last_idle_odo
  synth,       \* self._synth_baseline
  finalizeAt,  \* when self._unsub_synth_finalize is due, 0 for none
  lastTrip,    \* self.last_trip
  tasks,       \* suspended coroutines
  rows,        \* the trips table
  crossed, half,      \* bookkeeping: see above
  restarts, failures  \* bookkeeping: how often so far

sensors == <<vehicleOn, odo, readable>>
memory == <<trip, idle, synth, finalizeAt, lastTrip>>
counters == <<restarts, failures>>
vars == <<sensors, clock, up, memory, tasks, rows, crossed, half, counters>>
-----------------------------------------------------------------------------
Unread == -1
NoTrip == [open |-> FALSE, start |-> Unread, seen |-> Unread, begin |-> 0]
NoPoint == [t |-> 0, odo |-> Unread]
NoRow == [kind |-> "none", start |-> 0, stop |-> 0, begin |-> 0, end |-> 0]
NoTask == [row |-> NoRow, stored |-> 0, detached |-> FALSE]

Reading == Unread .. MaxOdo
Point == [t : 0..MaxTime, odo : Reading]    \* a time and what was read then
Row == [kind : {"none", "live", "synth", "disconnect", "orphan"},
        start : 0..MaxOdo, stop : 0..MaxOdo,
        begin : 0..MaxTime, end : 0..MaxTime]
Trip == [open : BOOLEAN, start : Reading, seen : Reading, begin : 0..MaxTime]
\* stored: the row's place in the log, 0 before the insert.
Task == [row : Row, stored : Nat, detached : BOOLEAN]

TypeOK ==
  /\ vehicleOn \in BOOLEAN /\ odo \in 0..MaxOdo /\ readable \in BOOLEAN
  /\ clock \in 0..MaxTime /\ up \in BOOLEAN
  /\ trip \in Trip /\ idle \in Point /\ synth \in Point
  /\ finalizeAt \in 0..(MaxTime + Window)
  /\ lastTrip \in Row
  /\ tasks \in [Slots -> Task]
  /\ rows \in Seq(Row)
  /\ crossed \in BOOLEAN /\ half \subseteq Nat
  /\ restarts \in 0..MaxRestarts /\ failures \in 0..MaxFailures

Init ==
  /\ vehicleOn = FALSE /\ odo = 0 /\ readable = TRUE
  /\ clock = 0 /\ up = TRUE
  /\ trip = NoTrip /\ idle = NoPoint /\ synth = NoPoint /\ finalizeAt = 0
  /\ lastTrip = NoRow
  /\ tasks = [s \in Slots |-> NoTask]
  /\ rows = <<>>
  /\ crossed = FALSE /\ half = {}
  /\ restarts = 0 /\ failures = 0
-----------------------------------------------------------------------------
OdoRead == IF readable THEN odo ELSE Unread
Here == [t |-> clock, odo |-> odo]

Idle == \A s \in Slots : tasks[s] = NoTask

\* A coroutine starts that will write the row.
Suspend(row) ==
  /\ \E s \in Slots : /\ tasks[s] = NoTask
                      /\ tasks' = [tasks EXCEPT ![s].row = row]
  /\ crossed' = (crossed \/ ~Idle)

NoneStarts == UNCHANGED <<tasks, crossed>>

\* The row that covers the way from a point to where the car is now.
RowFrom(kind, point) ==
  [kind |-> kind, start |-> point.odo, stop |-> odo',
   begin |-> point.t, end |-> clock]

(***************************************************************************)
(* _async_check_odo_jump, with the odometer's new reading in odo'.         *)
(***************************************************************************)
Parked == ~vehicleOn /\ readable'
Age == clock - idle.t
Moved == odo' - idle.odo

\* First observation, or one too old to be worth a row.
ResetsBaseline ==
  /\ idle' = [t |-> clock, odo |-> odo']
  /\ NoneStarts /\ UNCHANGED <<synth, finalizeAt>>

\* The silence ended with a jump.  The baseline moves when the row is in.
RecordsDisconnect ==
  /\ Suspend(RowFrom("disconnect", idle))
  /\ UNCHANGED <<idle, synth, finalizeAt>>

RefreshesStamp ==
  /\ idle' = [idle EXCEPT !.t = clock]
  /\ NoneStarts /\ UNCHANGED <<synth, finalizeAt>>

ArmsFinalize ==
  /\ synth' = IF synth = NoPoint THEN idle ELSE synth
  /\ finalizeAt' = clock + Window
  /\ NoneStarts /\ UNCHANGED idle

CheckOdoJump ==
  \/ ~Parked /\ NoneStarts /\ UNCHANGED <<idle, synth, finalizeAt>>
  \/ Parked /\ idle = NoPoint /\ ResetsBaseline
  \/ /\ Parked /\ idle # NoPoint /\ Age > SynthAge
     /\ IF Moved >= MinDistance /\ Age <= DisconnectAge
          THEN RecordsDisconnect ELSE ResetsBaseline
  \/ /\ Parked /\ idle # NoPoint /\ Age <= SynthAge
     /\ IF Moved < MinDistance THEN RefreshesStamp ELSE ArmsFinalize
-----------------------------------------------------------------------------
(***************************************************************************)
(* _async_metric_changed, for the odometer and for the battery.            *)
(***************************************************************************)
OdometerReports(now) ==
  /\ now >= odo
  /\ odo' = now /\ readable' = TRUE
  /\ IF up /\ ~trip.open
       THEN CheckOdoJump
       ELSE NoneStarts /\ UNCHANGED <<idle, synth, finalizeAt>>
  /\ trip' = IF trip.open THEN [trip EXCEPT !.seen = now] ELSE trip
  /\ UNCHANGED <<vehicleOn, clock, up, lastTrip, rows, half, counters>>

BatteryReports ==
  /\ up /\ ~trip.open
  /\ UNCHANGED <<sensors, clock, up, trip, lastTrip, rows, half, counters>>
  /\ CheckOdoJump

OdometerDropsOut ==
  /\ readable' = FALSE
  /\ NoneStarts
  /\ UNCHANGED <<vehicleOn, odo, clock, up, memory, rows, half, counters>>

\* _async_vehicle_on_changed cancels a pending finalize.
CancelsFinalize ==
  IF finalizeAt # 0
    THEN synth' = NoPoint /\ finalizeAt' = 0
    ELSE UNCHANGED <<synth, finalizeAt>>

VehicleReports(on) ==
  /\ vehicleOn' = on
  /\ \/ on /\ up /\ CancelsFinalize
     \/ UNCHANGED <<synth, finalizeAt>>  \* the edge absorbed a deferred close
  /\ NoneStarts
  /\ UNCHANGED <<odo, readable, clock, up, trip, idle, lastTrip, rows, half,
                 counters>>

Tick ==
  /\ clock < MaxTime
  /\ finalizeAt = 0 \/ clock < finalizeAt
  /\ Idle
  /\ clock' = clock + 1
  /\ NoneStarts
  /\ UNCHANGED <<sensors, up, memory, rows, half, counters>>
-----------------------------------------------------------------------------
(***************************************************************************)
(* _async_finalize_synth_trip, when its timer fires.                       *)
(***************************************************************************)
Finalize ==
  /\ finalizeAt # 0 /\ clock >= finalizeAt
  /\ finalizeAt' = 0
  /\ \/ /\ synth = NoPoint
        /\ NoneStarts /\ UNCHANGED <<synth, idle>>
     \/ /\ synth # NoPoint
        /\ trip.open \/ vehicleOn
        /\ synth' = NoPoint
        /\ NoneStarts /\ UNCHANGED idle
     \/ /\ synth # NoPoint /\ ~trip.open /\ ~vehicleOn
        /\ ~readable
        /\ NoneStarts /\ UNCHANGED <<synth, idle>>
     \/ /\ synth # NoPoint /\ ~trip.open /\ ~vehicleOn
        /\ readable
        /\ synth' = NoPoint
        /\ idle' = Here
        /\ IF odo - synth.odo < MinDistance
             THEN NoneStarts
             ELSE Suspend([kind |-> "synth", start |-> synth.odo, stop |-> odo,
                           begin |-> synth.t, end |-> clock])
  /\ UNCHANGED <<sensors, clock, up, trip, lastTrip, rows, half, counters>>
-----------------------------------------------------------------------------
(***************************************************************************)
(* The live trip.                                                          *)
(***************************************************************************)
\* _detect_orphan_gap.
Gap == OdoRead - lastTrip.stop
OrphanGap ==
  /\ lastTrip # NoRow /\ readable
  /\ clock - lastTrip.end <= OrphanAge
  /\ Gap > MinDistance /\ Gap <= MaxGap

\* What _open_trip does to the synthetic baseline.  (Mutant: it is kept.)
KeepsBaseline == UNCHANGED <<synth, finalizeAt>>
DropsBaseline == synth' = NoPoint /\ finalizeAt' = 0

TripOpens ==
  /\ up /\ ~trip.open
  /\ trip' = [open |-> TRUE, start |-> OdoRead, seen |-> OdoRead,
              begin |-> clock]
  /\ DropsBaseline
  /\ IF OrphanGap
       THEN Suspend([kind |-> "orphan", start |-> lastTrip.stop, stop |-> odo,
                     begin |-> lastTrip.end, end |-> clock])
       ELSE NoneStarts
  /\ UNCHANGED <<sensors, clock, up, idle, lastTrip, rows, half, counters>>

OdoEnd == IF readable THEN odo ELSE trip.seen
Closing == \E s \in Slots : tasks[s].row.kind = "live" /\ ~tasks[s].detached

\* _async_close_trip of a trip under the minimum moves the baseline too.
AdvancesIdle ==
  idle' = IF OdoEnd = Unread THEN idle ELSE [t |-> clock, odo |-> OdoEnd]

\* (Mutant: the odometer at the start is taken for granted.)
TooShortFromAnywhere == OdoEnd - trip.start < MinDistance
TooShort == trip.start = Unread \/ OdoEnd - trip.start < MinDistance

TripDiscarded ==
  /\ trip.open /\ ~Closing /\ TooShort
  /\ trip' = NoTrip
  /\ AdvancesIdle
  /\ NoneStarts
  /\ UNCHANGED <<sensors, clock, up, synth, finalizeAt, lastTrip, rows, half,
                 counters>>

\* ... and of any other trip, up to its first suspension.
TripCloses ==
  /\ trip.open /\ ~Closing /\ ~TooShort
  /\ Suspend([kind |-> "live", start |-> trip.start, stop |-> OdoEnd,
              begin |-> trip.begin, end |-> clock])
  /\ UNCHANGED <<sensors, clock, up, memory, rows, half, counters>>
-----------------------------------------------------------------------------
(***************************************************************************)
(* Suspended coroutines.                                                   *)
(***************************************************************************)
Insert(s) ==
  /\ tasks[s] # NoTask /\ tasks[s].stored = 0
  /\ rows' = Append(rows, tasks[s].row)
  /\ tasks' = [tasks EXCEPT ![s].stored = Len(rows) + 1]
  /\ UNCHANGED <<sensors, clock, up, memory, crossed, half, counters>>

\* _adopt_last_trip.
Adopts(row) ==
  lastTrip' = IF lastTrip = NoRow \/ row.end >= lastTrip.end
                THEN row ELSE lastTrip

\* What the coroutine does once its row is in.  (Mutant: a disconnect orphan
\* leaves the baseline where it was.)
AfterDisconnectOnlyAdopts(row) == Adopts(row) /\ UNCHANGED idle
AfterDisconnect(row) ==
  /\ Adopts(row)
  /\ idle' = [t |-> row.end, odo |-> row.stop]

After(row) ==
  CASE row.kind = "live" ->
         /\ trip' = NoTrip
         /\ lastTrip' = row
         /\ idle' = [t |-> row.end, odo |-> row.stop]
    [] row.kind = "disconnect" -> AfterDisconnect(row) /\ UNCHANGED trip
    [] OTHER -> Adopts(row) /\ UNCHANGED <<idle, trip>>

Finish(s) ==
  /\ tasks[s].stored # 0
  /\ tasks' = [tasks EXCEPT ![s] = NoTask]
  /\ IF tasks[s].detached
       THEN UNCHANGED <<trip, idle, lastTrip>>
       ELSE After(tasks[s].row)
  /\ UNCHANGED <<sensors, clock, up, synth, finalizeAt, rows, crossed, half,
                 counters>>

\* An orphan whose battery drop does not fit the distance is not written, nor
\* one for which the recorder's history had trips to recover.
OrphanRejected(s) ==
  /\ tasks[s].row.kind = "orphan" /\ tasks[s].stored = 0
  /\ tasks' = [tasks EXCEPT ![s] = NoTask]
  /\ UNCHANGED <<sensors, clock, up, memory, rows, crossed, half, counters>>

Fails(s) ==
  /\ failures < MaxFailures
  /\ failures' = failures + 1
  /\ tasks' = [tasks EXCEPT ![s] = NoTask]
  /\ UNCHANGED <<sensors, clock, up, trip, synth, finalizeAt, lastTrip, rows,
                 crossed, restarts>>

\* The insert raises, or an await before it.  The disconnect path catches an
\* error of its insert, and the baseline moves all the same.
InsertFails(s) ==
  /\ tasks[s] # NoTask /\ tasks[s].stored = 0
  /\ Fails(s)
  /\ \/ UNCHANGED idle
     \/ /\ tasks[s].row.kind = "disconnect" /\ ~tasks[s].detached
        /\ idle' = [t |-> tasks[s].row.end, odo |-> tasks[s].row.stop]
  /\ UNCHANGED half

\* An await after the insert raises (the replay of the costs, the positions):
\* the row is in, and the coroutine ends before the memory knows of it.
FinishFails(s) ==
  /\ tasks[s].stored # 0
  /\ Fails(s)
  /\ half' = half \cup {tasks[s].stored}
  /\ UNCHANGED idle
-----------------------------------------------------------------------------
(***************************************************************************)
(* Unload and start.                                                       *)
(***************************************************************************)
Stop(crash) ==
  /\ up /\ restarts < MaxRestarts
  /\ restarts' = restarts + 1
  /\ up' = FALSE
  /\ trip' = NoTrip /\ synth' = NoPoint /\ finalizeAt' = 0
  /\ tasks' = [s \in Slots |->
                 IF crash \/ tasks[s] = NoTask THEN NoTask
                 ELSE [tasks[s] EXCEPT !.detached = TRUE]]
  /\ crossed' = (crossed \/ (~crash /\ ~Idle))
  /\ UNCHANGED <<sensors, clock, idle, lastTrip, rows, half, failures>>

\* The newest row: the latest end, then the highest id.
NewestRow ==
  IF rows = <<>> THEN NoRow
  ELSE rows[CHOOSE i \in DOMAIN rows : \A j \in DOMAIN rows :
              \/ rows[j].end < rows[i].end
              \/ rows[j].end = rows[i].end /\ j <= i]

\* async_start seeds last_trip and the baseline from the log.
Start ==
  /\ ~up
  /\ up' = TRUE
  /\ lastTrip' = NewestRow
  /\ idle' = IF NewestRow = NoRow THEN NoPoint
             ELSE [t |-> NewestRow.end, odo |-> NewestRow.stop]
  /\ NoneStarts
  /\ UNCHANGED <<sensors, clock, trip, synth, finalizeAt, rows, half, counters>>
-----------------------------------------------------------------------------
Sensors ==
  \/ \E now \in 0..MaxOdo : OdometerReports(now)
  \/ BatteryReports \/ OdometerDropsOut
  \/ \E on \in BOOLEAN : VehicleReports(on)

Trips == TripOpens \/ TripDiscarded \/ TripCloses

Tasks ==
  \E s \in Slots :
    \/ Insert(s) \/ Finish(s) \/ OrphanRejected(s)
    \/ InsertFails(s) \/ FinishFails(s)

Next ==
  \/ Sensors \/ Tick \/ Finalize \/ Trips \/ Tasks
  \/ (\E crash \in BOOLEAN : Stop(crash)) \/ Start

Spec == Init /\ [][Next]_vars
-----------------------------------------------------------------------------
Overlap(a, b) == a.start < b.stop /\ b.start < a.stop

\* No kilometre is in two rows of the log: the coalescing timer, the
\* disconnect orphan and the orphan of an opening trip each account for
\* different kilometres.
KilometresOnce ==
  ~crossed => \A i, j \in DOMAIN rows :
                i < j /\ i \notin half => ~Overlap(rows[i], rows[j])

\* The kilometres of a live trip, and those an opening trip finds missing since
\* the last row, are in no other row, as long as no two rows were in the making
\* at once; errors before an insert, crashes and restarts included.  A row whose
\* coroutine failed after the insert may be written again.
Guessed(r) == r.kind \in {"synth", "disconnect"}
LiveKilometresOnce ==
  ~crossed =>
    \A i, j \in DOMAIN rows :
      /\ i < j /\ i \notin half
      /\ ~(Guessed(rows[i]) /\ Guessed(rows[j]))
      => ~Overlap(rows[i], rows[j])

\* Parked and with nothing being written, the idle baseline is not behind what
\* the log already counts, so the next growth counts from there; a restart
\* finds such a baseline in the log.  Again for rows made one at a time, and
\* but for rows whose coroutine failed after the insert.
BaselineAhead ==
  ~crossed /\ idle # NoPoint /\ up /\ ~trip.open /\ Idle =>
    \A i \in DOMAIN rows \ half : rows[i].stop <= idle.odo
=============================================================================
