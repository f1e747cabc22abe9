---------------------------- MODULE TripRecovery ----------------------------
(***************************************************************************)
(* Trips the live detector missed: recover_missing_trips, the recovery an  *)
(* opening trip starts over an odometer gap (with the orphan row it falls  *)
(* back to), log_manual_trip, and delete_last_trip and purge_trips, beside *)
(* the live close.                                                         *)
(*                                                                         *)
(* Each of them is a coroutine that suspends between its look at the trips *)
(* table, its write and the update of self.last_trip, so each is a task    *)
(* with a program counter.  One step is five minutes; the car moves one     *)
(* kilometre in a step it drives.  The recorder keeps the edges of         *)
(* vehicle_on and the odometer readings the car chose to report.           *)
(***************************************************************************)
EXTENDS Integers, FiniteSets, Sequences, FiniteSetsExt

CONSTANTS
  MaxTime,     \* bound: the clock
  MaxCalls,    \* bound: service calls and restarts
  MaxRows,     \* bound: rows ever inserted
  MinDistance, \* min_trip_distance_km
  Tolerance,   \* tolerance_s of async_trip_overlaps
  Coalesce,    \* _SYNTH_COALESCE_WINDOW_S
  OrphanSpan,  \* longest window an orphan row is given
  Windows,     \* windows the user may name to recover or to purge
  Spans        \* spans of the trips the user may log by hand

ASSUME ConstantsAssumption ==
  /\ MaxTime \in Nat /\ MaxCalls \in Nat /\ MaxRows \in Nat
  /\ MinDistance \in Nat \ {0} /\ Tolerance \in Nat
  /\ Coalesce \in Nat /\ OrphanSpan \in Nat \ {0}
  /\ Windows \subseteq (0..MaxTime) \X (0..MaxTime)
  /\ Spans \subseteq (0..MaxTime) \X (0..MaxTime)

VARIABLES
  now,
  moving,    \* the car is on
  driven,    \* steps it has driven: t is the step from t to t + 1
  reported,  \* instants at which the recorder has an odometer sample
  wired,     \* vehicle_on is configured
  rows,      \* the trips table
  nextId,    \* AUTOINCREMENT
  lastTrip,  \* self.last_trip
  current,   \* self.current, Null while no trip is live
  tasks,     \* the coroutine in flight of each kind, or Idle
  calls,
  raced,     \* a coroutine started beside another, or a recovery was asked
             \* to look into the trip that is live
  stale,     \* lastTrip was assigned from a look at an older table
  swept      \* the window of the last recovery that ran on its own, until
             \* rows are removed, or Null

car == <<now, moving, driven, reported, wired>>
vars == <<car, rows, nextId, lastTrip, current, tasks, calls, raced, stale, swept>>
-----------------------------------------------------------------------------
Null == [none |-> TRUE]
Idle == [pc |-> "idle"]
Instants == 0..MaxTime
Kinds == {"recover", "orphan", "live", "manual", "delete", "purge"}

\* A manual row is entered without odometer readings: from and upto are 0.
Row == [id : 1..MaxRows, start : Instants, end : Instants, from : Instants,
        upto : Instants,
        kind : {"live", "recovered", "manual", "orphan"}]

Ended(r, q) == r.end > q.end \/ (r.end = q.end /\ r.id > q.id)

\* Slip: the trip logged before the removed one is taken for the newest.
NewestId(table) ==
  IF table = {} THEN Null
  ELSE CHOOSE r \in table : \A q \in table : q.id <= r.id

\* _get_last: the newest by ended_at, then by id.
Newest(table) ==
  IF table = {} THEN Null
  ELSE CHOOSE r \in table : \A q \in table \ {r} : Ended(r, q)

\* Slip: only rows inside the segment count.
OverlapsInside(start, end) ==
  \E r \in rows : r.start >= start - Tolerance /\ r.end <= end + Tolerance

\* _trip_overlaps.
Overlaps(start, end) ==
  \E r \in rows : r.start <= end + Tolerance /\ r.end >= start - Tolerance
-----------------------------------------------------------------------------
(* What the recorder knows.                                                *)

On(t) == t \in driven \/ (t = now /\ moving)
Odometer(t) == Cardinality({u \in driven : u < t})

\* The last sample taken at or before t.
Reading(t) == Odometer(Max({r \in reported : r <= t}))

\* The drives of the window: from each on-edge to its off-edge, clipped to
\* the window at both ends.
Drives(since, until) ==
  {d \in [start : since..until, end : since..until] :
     /\ d.start < d.end
     /\ \A t \in d.start..(d.end - 1) : On(t)
     /\ d.start = since \/ ~On(d.start - 1)
     /\ d.end = until \/ ~On(d.end)}

Segment(start, end) ==
  [start |-> start, end |-> end, from |-> Reading(start), upto |-> Reading(end)]

InOrder(segments) ==
  CHOOSE order \in [1..Cardinality(segments) -> segments] :
    \A i, j \in DOMAIN order : i < j => order[i].start < order[j].start

\* Slip: a drive that has not ended in the window is lost.
EdgeSegmentsEnded(since, until) ==
  InOrder({s \in {Segment(d.start, d.end) : d \in Drives(since, until)} :
             s.upto - s.from >= MinDistance /\ ~On(s.end)})

\* _recover_segments_via_vehicle_on.
EdgeSegments(since, until) ==
  InOrder({s \in {Segment(d.start, d.end) : d \in Drives(since, until)} :
             s.upto - s.from >= MinDistance})

\* The odometer walker: the window's samples in order, a segment ending with
\* the last growth before a plateau.
WalkFrom(t, found) ==
  [start |-> t, growth |-> t, from |-> Reading(t), upto |-> Reading(t),
   found |-> found]

Closed(w) ==
  IF w.upto > w.from + MinDistance
  THEN Append(w.found, Segment(w.start, w.growth)) ELSE w.found

Walks(w, t) ==
  CASE t \notin reported -> w
    [] t \in reported /\ Odometer(t) > w.upto ->
         [w EXCEPT !.growth = t, !.upto = Odometer(t)]
    [] t \in reported /\ Odometer(t) <= w.upto /\ t - w.growth > Coalesce ->
         WalkFrom(t, Closed(w))
    [] OTHER -> w

Walked(since, until) ==
  LET walk[t \in since..until] ==
        IF t = since THEN WalkFrom(t, <<>>) ELSE Walks(walk[t - 1], t)
  IN Closed(walk[until])

\* async_recover_missing_trips_service: the edges first, else the odometer.
Segments(since, until) ==
  LET edges == EdgeSegments(since, until)
  IN IF wired /\ edges # <<>> THEN edges ELSE Walked(since, until)
-----------------------------------------------------------------------------
Init ==
  /\ now = 0 /\ moving = FALSE /\ driven = {} /\ reported = {0}
  /\ wired \in BOOLEAN
  /\ rows = {} /\ nextId = 1 /\ lastTrip = Null /\ current = Null
  /\ tasks = [k \in Kinds |-> Idle]
  /\ calls = 0 /\ raced = FALSE /\ stale = FALSE /\ swept = Null

InFlight == {k \in Kinds : tasks[k] # Idle}

Start(k, task) ==
  /\ tasks[k] = Idle
  /\ tasks' = [tasks EXCEPT ![k] = task]

Alone == raced' = (raced \/ InFlight # {})

Called == calls < MaxCalls /\ calls' = calls + 1

\* The tasks that have looked at the table, or built a record they will
\* install unseen, before this change to it.
Outdated(k) ==
  [j \in Kinds |-> IF j # k /\ tasks[j].pc \in {"assign", "adopt", "store"}
                   THEN [tasks[j] EXCEPT !.fresh = FALSE] ELSE tasks[j]]

\* Task k inserts row and goes on as task.  (Slip: the id is handed out
\* again.)
InsertsReusing(k, row, task) ==
  /\ nextId <= MaxRows
  /\ rows' = rows \cup {row} /\ nextId' = nextId
  /\ tasks' = [Outdated(k) EXCEPT ![k] = task]

Inserts(k, row, task) ==
  /\ nextId <= MaxRows
  /\ rows' = rows \cup {row} /\ nextId' = nextId + 1
  /\ tasks' = [Outdated(k) EXCEPT ![k] = task]

NewRow(kind, s) ==
  [id |-> nextId, start |-> s.start, end |-> s.end, from |-> s.from,
   upto |-> s.upto, kind |-> kind]
-----------------------------------------------------------------------------
(* recover_missing_trips, called or started by an opening trip.            *)

Search(since, until, last) ==
  [pc |-> "check", todo |-> Segments(since, until), made |-> 0,
   since |-> since, until |-> until, last |-> last]

Recover(since, until) ==
  /\ Called
  /\ since < until /\ until <= now
  /\ Start("recover", Search(since, until, Null))
  /\ raced' = (raced \/ InFlight # {}
                     \/ (current # Null /\ until > current.start))
  /\ swept' = Null
  /\ UNCHANGED <<car, rows, nextId, lastTrip, current, stale>>

\* Skip the segment if a trip overlaps it, else fetch what its row needs.
Check(k) ==
  /\ tasks[k].pc = "check" /\ tasks[k].todo # <<>>
  /\ LET t == tasks[k]  s == Head(t.todo) IN
     tasks' = [tasks EXCEPT ![k] =
                 IF Overlaps(s.start, s.end)
                 THEN [t EXCEPT !.todo = Tail(t.todo)] ELSE [t EXCEPT !.pc = "insert"]]
  /\ UNCHANGED <<car, rows, nextId, lastTrip, current, calls, raced, stale, swept>>

InsertSegment(k) ==
  /\ tasks[k].pc = "insert"
  /\ LET t == tasks[k] IN
     Inserts(k, NewRow("recovered", Head(t.todo)),
             [t EXCEPT !.pc = "check", !.todo = Tail(t.todo), !.made = t.made + 1])
  /\ UNCHANGED <<car, lastTrip, current, calls, raced, stale, swept>>

\* The loop is over: look the newest trip up if a row was inserted; else
\* leave, or go on to the orphan row.
Searched(k) ==
  /\ tasks[k].pc = "check" /\ tasks[k].todo = <<>>
  /\ LET t == tasks[k] IN
     tasks' = [tasks EXCEPT ![k] =
                 IF t.made > 0 THEN [pc |-> "assign", read |-> Newest(rows), fresh |-> TRUE]
                 ELSE IF k = "orphan" THEN [t EXCEPT !.pc = "orphan"]
                 ELSE Idle]
  /\ swept' = IF k = "recover" /\ ~raced
              THEN [since |-> tasks[k].since, until |-> tasks[k].until] ELSE swept
  /\ UNCHANGED <<car, rows, nextId, lastTrip, current, calls, raced, stale>>

\* Nothing was recovered: one row for the whole gap, shortened where the gap
\* is longer than the drive can have been ...
InsertOrphan ==
  /\ tasks["orphan"].pc = "orphan"
  /\ LET t == tasks["orphan"]
         row == NewRow("orphan",
                  [start |-> Max({t.since, t.until - OrphanSpan}),
                   end |-> t.until, from |-> t.last.upto, upto |-> Reading(t.until)])
     IN Inserts("orphan", row, [pc |-> "adopt", row |-> row, fresh |-> TRUE])
  /\ UNCHANGED <<car, lastTrip, current, calls, raced, stale, swept>>

\* ... or none, when the battery does not fit the distance.
OrphanRejected ==
  /\ tasks["orphan"].pc = "orphan"
  /\ tasks' = [tasks EXCEPT !["orphan"] = Idle]
  /\ UNCHANGED <<car, rows, nextId, lastTrip, current, calls, raced, stale, swept>>
-----------------------------------------------------------------------------
(* self.last_trip.                                                         *)

\* await async_get_last() has returned.
Assign(k) ==
  /\ tasks[k].pc = "assign"
  /\ lastTrip' = tasks[k].read
  /\ stale' = ~tasks[k].fresh
  /\ tasks' = [tasks EXCEPT ![k] = Idle]
  /\ UNCHANGED <<car, rows, nextId, current, calls, raced, swept>>

\* A live close installs its record; the others ask _adopt_last_trip.
Adopted(k, row) ==
  IF k = "live" \/ lastTrip = Null THEN row
  ELSE IF row.end >= lastTrip.end THEN row ELSE lastTrip

Adopt(k) ==
  /\ tasks[k].pc = "adopt"
  /\ lastTrip' = Adopted(k, tasks[k].row)
  /\ stale' = (stale \/ ~tasks[k].fresh)
  /\ tasks' = [tasks EXCEPT ![k] = Idle]
  /\ UNCHANGED <<car, rows, nextId, current, calls, raced, swept>>
-----------------------------------------------------------------------------
(* The live trip.                                                          *)

\* _detect_orphan_gap.
OrphanGap ==
  /\ lastTrip # Null
  /\ lastTrip.kind # "manual"
  /\ now > lastTrip.end
  /\ Reading(now) - lastTrip.upto > MinDistance

\* The detector notices the car, maybe late, maybe never.
TripOpens ==
  /\ moving /\ current = Null
  /\ current' = [start |-> now, from |-> Reading(now)]
  /\ IF OrphanGap
     THEN Start("orphan", Search(lastTrip.end, now, lastTrip)) /\ Alone
     ELSE UNCHANGED <<tasks, raced>>
  /\ UNCHANGED <<car, rows, nextId, lastTrip, calls, stale, swept>>

\* A drive below the minimum is discarded, any other is stored.
TripCloses ==
  /\ current # Null /\ ~moving
  /\ current' = Null
  /\ IF Reading(now) - current.from < MinDistance
     THEN UNCHANGED <<tasks, raced>>
     ELSE /\ Start("live", [pc |-> "store", start |-> current.start, end |-> now,
                            from |-> current.from, upto |-> Reading(now),
                            fresh |-> TRUE])
          /\ Alone
  /\ UNCHANGED <<car, rows, nextId, lastTrip, calls, stale, swept>>

Store(k) ==
  /\ tasks[k].pc = "store"
  /\ LET row == NewRow(k, tasks[k])
     IN Inserts(k, row, [pc |-> "adopt", row |-> row,
                         fresh |-> k # "live" \/ tasks[k].fresh])
  /\ UNCHANGED <<car, lastTrip, current, calls, raced, stale, swept>>
-----------------------------------------------------------------------------
(* The other services.                                                     *)

LogManual(start, end) ==
  /\ Called
  /\ start < end /\ end <= now
  /\ Start("manual", [pc |-> "store", start |-> start, end |-> end,
                      from |-> 0, upto |-> 0, fresh |-> TRUE])
  /\ Alone
  /\ UNCHANGED <<car, rows, nextId, lastTrip, current, stale, swept>>

\* Rows leave the table, then the newest is looked up if there were any.
Removes(k, gone) ==
  /\ tasks[k] = Idle
  /\ rows' = rows \ gone
  /\ tasks' = [Outdated(k) EXCEPT ![k] =
                 IF gone = {} THEN Idle ELSE [pc |-> "look"]]
  /\ Alone
  /\ swept' = Null
  /\ UNCHANGED <<car, nextId, lastTrip, current, stale>>

\* The trip logged last, not the newest.
DeleteLast ==
  Called /\ Removes("delete", {r \in rows : \A q \in rows : q.id <= r.id})

Purge(since, until) ==
  /\ Called /\ since <= until
  /\ Removes("purge", {r \in rows : since <= r.start /\ r.start <= until})

Look(k) ==
  /\ tasks[k].pc = "look"
  /\ tasks' = [tasks EXCEPT ![k] =
                 [pc |-> "assign", read |-> Newest(rows), fresh |-> TRUE]]
  /\ UNCHANGED <<car, rows, nextId, lastTrip, current, calls, raced, stale, swept>>

\* What was in memory is gone; the newest row is read back.
Restart ==
  /\ Called
  /\ tasks' = [k \in Kinds |-> Idle]
  /\ current' = Null
  /\ lastTrip' = Newest(rows)
  /\ stale' = FALSE
  /\ UNCHANGED <<car, rows, nextId, raced, swept>>
-----------------------------------------------------------------------------
(* The car.                                                                *)

TurnsOn ==
  /\ ~moving /\ now - 1 \notin driven
  /\ moving' = TRUE
  /\ UNCHANGED <<now, driven, reported, wired, rows, nextId, lastTrip, current,
                 tasks, calls, raced, stale, swept>>

TurnsOff ==
  /\ moving /\ now - 1 \in driven
  /\ moving' = FALSE
  /\ UNCHANGED <<now, driven, reported, wired, rows, nextId, lastTrip, current,
                 tasks, calls, raced, stale, swept>>

\* An unchanged reading is sampled again when the sensor has been away.
Tick(sampled) ==
  /\ now < MaxTime
  /\ InFlight = {}
  /\ now' = now + 1
  /\ driven' = IF moving THEN driven \cup {now} ELSE driven
  /\ reported' = IF sampled THEN reported \cup {now + 1} ELSE reported
  /\ UNCHANGED <<moving, wired, rows, nextId, lastTrip, current, tasks, calls,
                 raced, stale, swept>>

Next ==
  \/ \E w \in Windows : Recover(w[1], w[2]) \/ Purge(w[1], w[2])
  \/ \E s \in Spans : LogManual(s[1], s[2])
  \/ \E k \in Kinds :
       \/ Check(k) \/ InsertSegment(k) \/ Searched(k) \/ Assign(k) \/ Adopt(k)
       \/ Store(k) \/ Look(k)
  \/ InsertOrphan \/ OrphanRejected \/ TripOpens \/ TripCloses
  \/ DeleteLast \/ Restart \/ TurnsOn \/ TurnsOff
  \/ \E sampled \in BOOLEAN : Tick(sampled)

Spec == Init /\ [][Next]_vars
-----------------------------------------------------------------------------
Fields(f) == [pc : {"check", "insert", "orphan"}, todo : Seq([start : Instants,
                end : Instants, from : Instants, upto : Instants]),
              made : Nat, since : Instants, until : Instants, last : f]

TypeOK ==
  /\ now \in Instants /\ moving \in BOOLEAN
  /\ driven \subseteq 0..(now - 1) /\ reported \subseteq 0..now
  /\ rows \subseteq Row /\ \A r, q \in rows : r.id = q.id => r = q
  /\ lastTrip \in Row \cup {Null}
  /\ current \in [start : Instants, from : Instants] \cup {Null}
  /\ \A r \in rows : r.start <= r.end /\ r.end <= now /\ r.id < nextId
  /\ \A k \in Kinds :
       tasks[k] \in {Idle, [pc |-> "look"]}
         \cup Fields({Null} \cup Row)
         \cup [pc : {"assign"}, read : Row \cup {Null}, fresh : BOOLEAN]
         \cup [pc : {"adopt"}, row : Row, fresh : BOOLEAN]
         \cup [pc : {"store"}, start : Instants, end : Instants,
               from : Instants, upto : Instants, fresh : BOOLEAN]
  /\ swept \in [since : Instants, until : Instants] \cup {Null}

\* No stretch of the odometer is in two rows, as long as the services and the
\* close run one at a time, and no recovery is pointed at the trip being driven.
\* The recovery an opening trip starts, its orphan row, and trips deleted and
\* recovered again are all inside this promise.  Only a recovery called later
\* may write a stretch again that an orphan row stands for.
Beside(r, q) == r.upto <= q.from \/ q.upto <= r.from
RecoveredAgain(r, q) ==
  r.kind = "orphan" /\ q.kind = "recovered" /\ r.id < q.id

RecoveredKilometresOnce ==
  ~raced =>
    \A r, q \in rows :
      \/ r = q \/ Beside(r, q)
      \/ RecoveredAgain(r, q) \/ RecoveredAgain(q, r)

\* The documentation has it without the exception: recovery looks for "odo
\* growth not covered by any existing trip".
RecoversOnlyUncovered ==
  ~raced =>
    \A r, q \in rows : q.kind = "recovered" /\ r.id < q.id => Beside(r, q)

\* self.last_trip, which anchors journeys, orphan gaps and the state of charge
\* of the next trip, is the newest trip of the table whenever no coroutine is
\* between its write and its assignment, whatever order rows were written in:
\* only an assignment from a look the table has outrun can make it another.
LastTripIsNewest ==
  ~stale /\ (\A k \in Kinds : tasks[k].pc \notin {"look", "assign", "adopt"})
         /\ (\A k \in {"recover", "orphan"} : tasks[k] = Idle)
    => lastTrip = Newest(rows)

\* A recovery that has run on its own over the edges of vehicle_on leaves no
\* drive of its window, whose kilometres the recorder saw grow while the car
\* was on, without a row within the tolerance.
RecoveryCovers ==
  wired /\ swept # Null =>
    \A d \in Drives(swept.since, swept.until) :
      Reading(d.end) - Reading(d.start) >= MinDistance => Overlaps(d.start, d.end)

\* The same for every drive the odometer shows by the end of the window, as
\* the comment has it: a sparse odometer does not lose the trip even when no
\* sample falls inside the on-window.
SparseDriveRecovered ==
  wired /\ swept # Null =>
    \A d \in Drives(swept.since, swept.until) :
      /\ ~On(d.start - 1) /\ ~On(d.end)
      /\ Reading(swept.until) - Reading(d.start) >= MinDistance
      => Overlaps(d.start, d.end)
=============================================================================
