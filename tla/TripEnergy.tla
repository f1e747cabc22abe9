----------------------------- MODULE TripEnergy -----------------------------
(***************************************************************************)
(* The energy of a trip row, from its close to its last heal.              *)
(*                                                                         *)
(* A close picks one of several measurements, credits the trip with the    *)
(* charge delivered inside its window and stores the row.  Later the       *)
(* car's own figure may replace it (a timer, or the sweep at start),       *)
(* set_trip may correct it, and heal_history derives every row again from  *)
(* the charges that exist by then, with code of its own.                   *)
(*                                                                         *)
(* Time is in steps, the battery in notches of 3 % or more, each holding   *)
(* one kWh; energies are whole kWh, 0 standing for NULL.  Trips are        *)
(* numbered in the order they were driven and never overlap: a trip opens  *)
(* after the last one ended.  The queries a close awaits are one step with *)
(* its insert; the read and the write of a vehicle heal are two.           *)
(***************************************************************************)
EXTENDS Integers, FiniteSets, FiniteSetsExt

CONSTANTS
  MaxTime,    \* bound: the clock
  MaxTrips,   \* bound: trips driven
  MaxCharges, \* bound: charges stored at a time
  MaxEdits,   \* bound: reports of the car, set_trip, deletions
  FullSoc,    \* notches of a full battery
  Tolerance,  \* _CHARGE_TRIP_BOUNDARY_TOLERANCE_S
  Distances,  \* km of a drive, further apart than the heal tolerates
  Energies,   \* kWh the car may report or the user enter
  TripSocs,   \* first and last state of charge a trip may read
  Meters,     \* kWh of the pack meter and of the power integral, 0 if none
  Charges     \* charge rows that may be logged

Null == -1
Instants == 0..MaxTime
Socs == (0..FullSoc) \cup {Null}

\* A charge row; started_at and the two SoC readings may be missing.
Charge == [start : Instants \cup {Null}, end : Instants, kwh : Nat \ {0},
           socStart : Socs, socEnd : Socs]

\* The share of a session that SoC apportions is a whole number of kWh.
Whole(c) ==
  c.socStart # Null /\ c.socEnd # Null /\ c.socStart < c.socEnd
    => c.kwh % (c.socEnd - c.socStart) = 0

ASSUME ConstantsAssumption ==
  /\ MaxTime \in Nat /\ MaxTrips \in Nat /\ MaxCharges \in Nat
  /\ MaxEdits \in Nat /\ FullSoc \in Nat /\ Tolerance \in Nat
  /\ Distances \subseteq Nat \ {0} /\ Energies \subseteq Nat \ {0}
  /\ TripSocs \subseteq Socs \X Socs /\ Meters \subseteq Nat \X Nat
  /\ Charges \subseteq Charge /\ \A c \in Charges : Whole(c)

VARIABLES
  now,
  trips,     \* the trips table: the row of each trip, or NoRow
  driven,    \* trips closed so far
  charges,   \* the charges table
  sensor,    \* the car's last-trip sensors, and when they last changed
  pending,   \* trips with a vehicle heal still to fire
  healing,   \* vehicle heals suspended between their read and their write
  asClosed,  \* trips whose row and whose charges are as at the close
  byHand,    \* trips whose row set_trip has patched
  edits

vars == <<now, trips, driven, charges, sensor, pending, healing, asClosed,
          byHand, edits>>
-----------------------------------------------------------------------------
Ids == 1..MaxTrips
NoRow == [end |-> Null]
Sources == {"none", "pack_energy", "soc", "power_integration", "estimated",
            "soc_plus_charge", "vehicle"}

\* What a figure of the car is about: a drive (0 for one the logger missed), how
\* long it says that was (0 for not at all), and whether a restart or a drop-out
\* has published it again.
Figure == [of : 0..MaxTrips, km : Distances \cup {0}, again : BOOLEAN]
NoFigure == [of |-> 0, km |-> 0, again |-> FALSE]

\* published: consumption_kwh_100km is not NULL.  figure is the one a vehicle
\* energy came from; which drive it was about the model alone knows.
Row == [start : Instants, end : Instants, socStart : Socs, socEnd : Socs,
        energy : Nat, source : Sources, during : Nat, before : Nat,
        km : Distances, published : BOOLEAN, locked : BOOLEAN, figure : Figure]

Stored == {i \in Ids : trips[i] # NoRow}
LastEnd == Max({trips[i].end : i \in Stored} \cup {Null})
Prev(i) == Max({j \in Stored : j < i} \cup {0})

\* soc_used_pct, which is NULL unless both readings are known.
UsedKnown(r) == r.socStart # Null /\ r.socEnd # Null
Used(r) == r.socStart - r.socEnd

\* started_at, where it is missing, is taken to be ended_at.
Start(c) == IF c.start = Null THEN c.end ELSE c.start

\* _apportion_straddling_charge, for a trip that opened at the reading cut.
Apportioned(c, cut) ==
  LET rose == /\ c.socStart # Null /\ c.socEnd # Null /\ cut # Null
              /\ c.socStart < c.socEnd
  IN CASE rose /\ cut <= c.socStart -> c.kwh
       [] rose /\ c.socStart < cut /\ cut < c.socEnd ->
            (c.kwh * (c.socEnd - cut)) \div (c.socEnd - c.socStart)
       [] OTHER -> 0

\* Slip: every session that overlaps the window counts whole.
CreditedOverlap(c, r) ==
  IF c.end >= r.start /\ Start(c) <= r.end THEN c.kwh ELSE 0

\* What a close credits r with out of c (_charges_attributable_to_trip).
Credited(c, r) ==
  LET inside == r.start <= c.end /\ c.end <= r.end
  IN CASE inside /\ Start(c) >= r.start -> c.kwh
       [] inside /\ Start(c) < r.start /\ c.end > r.start + Tolerance ->
            Apportioned(c, r.socStart)
       [] OTHER -> 0

During(r) == SumFunction([c \in charges |-> Credited(c, r)])

\* Slip: a session that straddled the opening is credited whole.
HealCreditedWhole(c, r) ==
  IF r.start <= c.end /\ c.end <= r.end THEN c.kwh ELSE 0

\* What heal_history credits r with out of c.
HealCredited(c, r) ==
  LET inside == r.start <= c.end /\ c.end <= r.end
      straddles == Start(c) < r.start
  IN CASE inside /\ ~straddles -> c.kwh
       [] inside /\ straddles /\ c.end > r.start + Tolerance ->
            Apportioned(c, r.socStart)
       [] OTHER -> 0

\* Charges that ended since the previous trip did (_charges_in_window).
Before(prevEnd, r) ==
  IF prevEnd = Null \/ prevEnd >= r.start THEN 0
  ELSE SumFunction([c \in {d \in charges : prevEnd <= d.end
                                           /\ d.end <= r.start + Tolerance}
                    |-> c.kwh])
-----------------------------------------------------------------------------
(* The close.                                                              *)

\* Slip: a reading that rose is taken for a drop.
MeasuredSocRose(r, pack, power) ==
  IF UsedKnown(r) THEN [r EXCEPT !.energy = Used(r), !.source = "soc"]
  ELSE [r EXCEPT !.energy = power, !.source = "power_integration"]

\* The ladder: the pack meter, the SoC drop, the power integral, the average
\* of the measured trips; 0 is a meter without a usable reading.
Measured(r, pack, power) ==
  CASE pack > 0 -> [r EXCEPT !.energy = pack, !.source = "pack_energy"]
    [] pack = 0 /\ UsedKnown(r) /\ Used(r) > 0 ->
         [r EXCEPT !.energy = Used(r), !.source = "soc"]
    [] pack = 0 /\ ~(UsedKnown(r) /\ Used(r) > 0) /\ power > 0 ->
         [r EXCEPT !.energy = power, !.source = "power_integration"]
    [] OTHER ->
         IF \E i \in Stored : trips[i].published /\ trips[i].source # "estimated"
         THEN [r EXCEPT !.energy = r.km, !.source = "estimated"] ELSE r

\* A charge inside the window has refilled part of what the drive spent.
Corrected(r) ==
  IF /\ r.during > 0 /\ UsedKnown(r)
     /\ r.source \in {"none", "soc", "estimated"}
     /\ r.during + Used(r) > 0
  THEN [r EXCEPT !.energy = r.during + Used(r), !.source = "soc_plus_charge"]
  ELSE r

\* A charge rise nothing explains leaves no honest figure per km.
Rose(r) == UsedKnown(r) /\ Used(r) < 0 /\ r.during = 0

Published(r) ==
  [r EXCEPT !.published = r.energy > 0
                            /\ ~(Rose(r) /\ r.source = "estimated")]

Opened(start, socs, km) ==
  [start |-> start, end |-> now, socStart |-> socs[1], socEnd |-> socs[2],
   energy |-> 0, source |-> "none", during |-> 0, before |-> 0, km |-> km,
   published |-> FALSE, locked |-> FALSE, figure |-> NoFigure]

Close(start, socs, km, meter) ==
  LET i == driven + 1
      r == Opened(start, socs, km)
      charged == [Measured(r, meter[1], meter[2]) EXCEPT
                    !.during = During(r), !.before = Before(LastEnd, r)]
  IN /\ driven < MaxTrips
     \* No report of the previous drive at the very instant this one ends.
     /\ sensor.kwh > 0 => sensor.changed < now
     /\ start < now /\ \A j \in 1..driven : start > LastEnd
     /\ trips' = [trips EXCEPT ![i] = Published(Corrected(charged))]
     /\ driven' = i
     /\ asClosed' = asClosed \cup {i}
     \* _schedule_vehicle_heal
     /\ pending' = pending \cup {i}
     /\ UNCHANGED <<now, charges, sensor, healing, byHand, edits>>
-----------------------------------------------------------------------------
(* The charges table, by the live sessions or by the services.             *)
Touches(c) ==
  {i \in Stored : c.end <= Max({trips[i].end, trips[i].start + Tolerance})}

LogCharge(c) ==
  /\ c \notin charges /\ c.end <= now
  /\ Cardinality(charges) < MaxCharges
  /\ charges' = charges \cup {c}
  /\ asClosed' = asClosed \ Touches(c)
  /\ UNCHANGED <<now, trips, driven, sensor, pending, healing, byHand, edits>>

DeleteCharge(c) ==
  /\ edits < MaxEdits /\ edits' = edits + 1
  /\ c \in charges
  /\ charges' = charges \ {c}
  /\ asClosed' = asClosed \ Touches(c)
  /\ UNCHANGED <<now, trips, driven, sensor, pending, healing, byHand>>
-----------------------------------------------------------------------------
(* set_trip and the deletions.                                             *)
Patch(i, r) ==
  /\ edits < MaxEdits /\ edits' = edits + 1
  /\ i \in Stored /\ trips[i] # r
  /\ trips' = [trips EXCEPT ![i] = r]
  /\ asClosed' = asClosed \ {i}
  /\ UNCHANGED <<now, driven, charges, sensor, pending, healing>>

\* A new energy is locked, and the row's consumption derived from it.
SetTripEnergy(i, e) ==
  /\ Patch(i, [trips[i] EXCEPT !.energy = e, !.published = TRUE,
                               !.locked = TRUE])
  /\ byHand' = byHand \cup {i}

\* A new reading moves soc_used_pct and leaves the energy.
SetTripSoc(i, soc) ==
  /\ Patch(i, [trips[i] EXCEPT !.socStart = soc])
  /\ byHand' = byHand \cup {i}

DeleteTrip(i) ==
  /\ edits < MaxEdits /\ edits' = edits + 1
  /\ i \in Stored
  /\ trips' = [trips EXCEPT ![i] = NoRow]
  /\ asClosed' = {j \in asClosed : j < i}
  /\ UNCHANGED <<now, driven, charges, sensor, pending, healing, byHand>>
-----------------------------------------------------------------------------
(* The car's own figure.                                                   *)

\* The car reports the drive it ended last: the newest trip, or one the logger
\* missed (0).  Its distance need not be known (0).
CarReports(of, kwh, km) ==
  /\ edits < MaxEdits /\ edits' = edits + 1
  /\ of # 0 => of = driven /\ of \in Stored /\ km \in {0, trips[of].km}
  /\ sensor' = [changed |-> now, kwh |-> kwh,
                figure |-> [of |-> of, km |-> km, again |-> FALSE]]
  /\ UNCHANGED <<now, trips, driven, charges, pending, healing, asClosed,
                 byHand>>

\* The sensor is published again, with the figure it had: Home Assistant restarts
\* or the sensor drops out and comes back.
Republished == [sensor EXCEPT !.changed = now, !.figure.again = TRUE]

CarReturns ==
  /\ sensor.kwh > 0
  /\ sensor' = Republished
  /\ UNCHANGED <<now, trips, driven, charges, pending, healing, asClosed, byHand,
                 edits>>

\* Slip: a figure published before the trip ended is taken for it.
RefersToAny(r) ==
  /\ sensor.kwh > 0
  /\ sensor.figure.km \in {0, r.km}
  /\ UsedKnown(r) /\ Used(r) > 0 =>
       10 * (sensor.kwh - Used(r)) \in -4 * Used(r) .. 4 * Used(r)

\* The guards of _async_heal_from_vehicle: published after the trip ended, of
\* the same distance if that is known, within 40 % of what the battery lost.
RefersTo(r) ==
  /\ sensor.kwh > 0
  /\ sensor.changed >= r.end
  /\ sensor.figure.km \in {0, r.km}
  /\ UsedKnown(r) /\ Used(r) > 0 =>
       10 * (sensor.kwh - Used(r)) \in -4 * Used(r) .. 4 * Used(r)

\* The timer of trip i fires, or the sweep reaches it: the row is read.
HealFires(i) ==
  /\ i \in pending
  /\ pending' = pending \ {i}
  /\ healing' = IF i \in Stored /\ RefersTo(trips[i])
                THEN healing \cup {[id |-> i, kwh |-> sensor.kwh,
                                    figure |-> sensor.figure]}
                ELSE healing
  /\ UNCHANGED <<now, trips, driven, charges, sensor, asClosed, byHand, edits>>

\* _update_trip writes the figure and, as for any energy it is given, the lock.
HealWrites(h) ==
  /\ h \in healing
  /\ healing' = healing \ {h}
  /\ trips' = IF h.id \in Stored
              THEN [trips EXCEPT ![h.id] =
                      [trips[h.id] EXCEPT !.energy = h.kwh,
                                          !.source = "vehicle",
                                          !.published = TRUE,
                                          !.locked = TRUE,
                                          !.figure = h.figure]]
              ELSE trips
  /\ asClosed' = asClosed \ {h.id}
  /\ UNCHANGED <<now, driven, charges, sensor, pending, byHand, edits>>

\* A restart forgets the timers; its sweep takes the rows of the last 24 hours
\* that are not the car's yet.  A restart of Home Assistant, unlike a reload of
\* the entry, publishes the sensor again.
Restart ==
  /\ pending' = {i \in Stored : trips[i].source # "vehicle"}
  /\ healing' = {}
  /\ \/ UNCHANGED sensor
     \/ sensor.kwh > 0 /\ sensor' = Republished
  /\ UNCHANGED <<now, trips, driven, charges, asClosed, byHand, edits>>
-----------------------------------------------------------------------------
(* heal_history.                                                           *)
HealDuring(r) == SumFunction([c \in charges |-> HealCredited(c, r)])

\* A reading above the previous trip's last, with nothing charged in between.
Reanchors(i, r) ==
  /\ r.socStart # Null /\ Prev(i) # 0
  /\ trips[Prev(i)].socEnd # Null
  /\ r.socStart > trips[Prev(i)].socEnd
  /\ r.during = 0 /\ r.before = 0

\* Slip: a label the charges no longer bear out is left.
RederivedLabelKept(r) ==
  CASE r.during > 0 /\ UsedKnown(r) /\ r.during + Used(r) > 0 ->
         [r EXCEPT !.energy = r.during + Used(r), !.source = "soc_plus_charge"]
    [] r.during = 0 /\ UsedKnown(r) /\ Used(r) > 0 ->
         [r EXCEPT !.energy = Used(r), !.source = "soc"]
    [] OTHER -> [r EXCEPT !.published = @ /\ ~Rose(r)]

\* A row's energy from its charges and readings.  Energy that stays the same
\* keeps its label; where nothing can be derived the figure is kept, and its
\* label unless it claims a charge that is not there.
Rederived(r) ==
  LET sum == r.during + Used(r)
      plain == ~(r.during > 0 /\ UsedKnown(r))
  IN CASE ~plain /\ sum > 0 ->
            IF sum = r.energy THEN r
            ELSE [r EXCEPT !.energy = sum, !.source = "soc_plus_charge"]
       [] plain /\ UsedKnown(r) /\ Used(r) > 0 ->
            IF Used(r) = r.energy THEN r
            ELSE [r EXCEPT !.energy = Used(r), !.source = "soc"]
       [] OTHER ->
            [r EXCEPT !.published = r.published /\ ~Rose(r),
                      !.source = IF r.during = 0 /\ r.source = "soc_plus_charge"
                                 THEN "none" ELSE r.source]

Healed(i) ==
  LET r == [trips[i] EXCEPT
              !.during = HealDuring(trips[i]),
              !.before = IF Prev(i) = 0 THEN 0
                         ELSE Before(trips[Prev(i)].end, trips[i])]
      anchored == IF Reanchors(i, r)
                  THEN [r EXCEPT !.socStart = trips[Prev(i)].socEnd] ELSE r
  IN IF r.source \in {"power_integration", "vehicle"} THEN anchored
     ELSE Rederived(anchored)

HealHistory ==
  /\ trips' = [i \in Ids |-> IF i \in Stored THEN Healed(i) ELSE NoRow]
  /\ asClosed' = {i \in asClosed : trips'[i] = trips[i]}
  /\ UNCHANGED <<now, driven, charges, sensor, pending, healing, byHand, edits>>
-----------------------------------------------------------------------------
Tick ==
  /\ now < MaxTime
  /\ now' = now + 1
  /\ UNCHANGED <<trips, driven, charges, sensor, pending, healing, asClosed,
                 byHand, edits>>

Init ==
  /\ now = 0
  /\ trips = [i \in Ids |-> NoRow]
  /\ driven = 0
  /\ charges = {}
  /\ sensor = [changed |-> 0, kwh |-> 0, figure |-> NoFigure]
  /\ pending = {} /\ healing = {}
  /\ asClosed = {} /\ byHand = {}
  /\ edits = 0

Next ==
  \/ Tick
  \/ \E start \in Instants, socs \in TripSocs, km \in Distances,
        meter \in Meters : Close(start, socs, km, meter)
  \/ \E c \in Charges : LogCharge(c) \/ DeleteCharge(c)
  \/ \E i \in Ids :
       \/ \E e \in Energies : SetTripEnergy(i, e)
       \/ \E soc \in 0..FullSoc : SetTripSoc(i, soc)
       \/ DeleteTrip(i)
       \/ HealFires(i)
  \/ \E of \in 0..MaxTrips, kwh \in Energies, km \in Distances \cup {0} :
       CarReports(of, kwh, km)
  \/ CarReturns
  \/ \E h \in healing : HealWrites(h)
  \/ Restart
  \/ HealHistory

Spec == Init /\ [][Next]_vars
-----------------------------------------------------------------------------
Heal == [id : Ids, kwh : Energies, figure : Figure]

TypeOK ==
  /\ now \in Instants /\ driven \in 0..MaxTrips /\ edits \in 0..MaxEdits
  /\ trips \in [Ids -> Row \cup {NoRow}]
  /\ charges \subseteq Charges
  /\ sensor \in [changed : Instants, kwh : Energies \cup {0}, figure : Figure]
  /\ pending \subseteq Ids /\ healing \subseteq Heal
  /\ asClosed \subseteq Stored /\ byHand \subseteq Ids

(***************************************************************************)
(* No charge is credited to the consumption of the trips around it for     *)
(* more than it delivered, whatever heal_history re-anchored and the user  *)
(* corrected (a session that ran on into a trip once gave it all its kWh). *)
(***************************************************************************)
ChargeCreditedOnce ==
  \A c \in charges :
    SumFunction([i \in Stored |-> Credited(c, trips[i])]) <= c.kwh

(***************************************************************************)
(* A row that says its energy holds a charge has one inside its window,    *)
(* through charges deleted, rows healed again and again and figures of the *)
(* car; rows the user patched are left aside.                              *)
(***************************************************************************)
LabelNeedsCharge ==
  \A i \in Stored \ byHand :
    trips[i].source = "soc_plus_charge" => trips[i].during > 0

(***************************************************************************)
(* A figure of the car stored in a row is of an earlier trip only if it    *)
(* was published again after that, and of a later one only if that was as  *)
(* long or its length unknown: the timer, the sweep at start, restarts and *)
(* the drives the logger missed notwithstanding.                           *)
(***************************************************************************)
VehicleFigureFits ==
  \A i \in Stored :
    LET f == trips[i].figure
    IN trips[i].source = "vehicle" /\ f.of # 0 =>
         /\ f.of < i => f.again
         /\ f.of > i /\ f.of \in Stored /\ f.km # 0 =>
              trips[f.of].km = trips[i].km

(***************************************************************************)
(* "The sensor refers to a trip that closed after ours, not a stale value  *)
(* from the PREVIOUS trip."  last_changed moves when Home Assistant        *)
(* restarts, and the sweep at start takes the previous trip's figure.      *)
(***************************************************************************)
VehicleFigureNotStale ==
  \A i \in Stored :
    trips[i].source = "vehicle" /\ trips[i].figure.of # 0 =>
      trips[i].figure.of >= i

(***************************************************************************)
(* heal_history has its own copy of the rules of the close ("same          *)
(* semantics as the close path").  A row no patch has reached, among the   *)
(* charges it was closed among, is what it makes of it again, except for   *)
(* the readings it re-anchors and the pack meter's figures, which it       *)
(* replaces.                                                               *)
(***************************************************************************)
HealRepeatsClose ==
  [][ HealHistory =>
        \A i \in asClosed :
          \/ trips'[i] = trips[i]
          \/ trips[i].source = "pack_energy"
          \/ Reanchors(i, trips[i]) ]_vars

(***************************************************************************)
(* "A hand correction locks what it corrected, so the bulk heals leave it  *)
(* alone."  heal_history does not read the lock.                           *)
(***************************************************************************)
HealLeavesCorrections ==
  [][ HealHistory =>
        \A i \in byHand \cap Stored :
          trips[i].locked => trips'[i].energy = trips[i].energy ]_vars
=============================================================================
