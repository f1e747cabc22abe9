------------------------ MODULE OdometerLedgerProofs ------------------------
(***************************************************************************)
(* The kilometres of live trips and of orphans are in one row, and the     *)
(* idle baseline is not behind the log, for every value of the constants   *)
(* of OdometerLedger and every behaviour of it, up to the moment two rows  *)
(* are in the making at once or the entry is unloaded while one is.  From  *)
(* there on the code counts kilometres twice.                              *)
(*                                                                         *)
(* Until then at most one row is being written, and the log grows at its   *)
(* end: every row ends, on the road and in time, at or after those before  *)
(* it.  So what matters is where the next row may start: a live trip, an   *)
(* orphan and a disconnect orphan past every row the memory knows of, a    *)
(* synthetic trip past every such row that is not a guess.  The memory     *)
(* does not know of a row between its insert and the end of its coroutine, *)
(* nor of one whose coroutine failed there.                                *)
(***************************************************************************)
EXTENDS OdometerLedger, WellFoundedInduction, TLAPS

-----------------------------------------------------------------------------
(***************************************************************************)
(* Type correctness.  A point or a trip that stands for none is recognised *)
(* by one field: where a row starts, there is a reading.                   *)
(***************************************************************************)
Marked ==
  /\ idle = NoPoint \/ idle.odo # Unread
  /\ synth = NoPoint \/ synth.odo # Unread
  /\ trip = NoTrip \/ trip.open

TypeInvariant == TypeOK /\ Marked

LEMMA Readings ==
  ASSUME TypeInvariant
  PROVE  /\ odo \in Nat /\ odo <= MaxOdo /\ clock \in Nat /\ clock <= MaxTime
         /\ OdoRead \in Reading /\ Here \in Point /\ Here.odo # Unread
         /\ NoPoint \in Point /\ NoTrip \in Trip /\ NoRow \in Row
         /\ NoTask \in Task
BY LedgerAssumption
   DEF TypeInvariant, TypeOK, OdoRead, Here, Reading, Unread, Point, NoPoint,
       NoTrip, Trip, NoRow, Row, NoTask, Task

LEMMA SuspendType ==
  ASSUME TypeInvariant, NEW row \in Row, Suspend(row)
  PROVE  tasks' \in [Slots -> Task] /\ crossed' \in BOOLEAN
<1>1. PICK s \in Slots : tasks' = [tasks EXCEPT ![s].row = row]
  BY DEF Suspend
<1>2. tasks[s] \in Task
  BY DEF TypeInvariant, TypeOK
<1>3. [tasks[s] EXCEPT !.row = row] \in Task
  BY <1>2 DEF Task
<1>4. crossed' \in BOOLEAN
  BY DEF Suspend, TypeInvariant, TypeOK, Idle
<1>. QED BY <1>1, <1>3, <1>4 DEF TypeInvariant, TypeOK

LEMMA CheckOdoJumpType ==
  ASSUME TypeInvariant, odo' \in 0..MaxOdo, CheckOdoJump
  PROVE  /\ idle' \in Point /\ synth' \in Point
         /\ finalizeAt' \in 0..(MaxTime + Window)
         /\ tasks' \in [Slots -> Task] /\ crossed' \in BOOLEAN
         /\ idle' = NoPoint \/ idle'.odo # Unread
         /\ synth' = NoPoint \/ synth'.odo # Unread
<1>0. /\ idle \in Point /\ synth \in Point /\ clock \in 0..MaxTime
      /\ finalizeAt \in 0..(MaxTime + Window) /\ tasks \in [Slots -> Task]
      /\ crossed \in BOOLEAN
      /\ idle = NoPoint \/ idle.odo # Unread
      /\ synth = NoPoint \/ synth.odo # Unread
  BY DEF TypeInvariant, TypeOK, Marked
<1>1. CASE NoneStarts /\ UNCHANGED <<idle, synth, finalizeAt>>
  BY <1>0, <1>1 DEF NoneStarts
<1>2. CASE ResetsBaseline
  BY <1>0, <1>2, LedgerAssumption
     DEF ResetsBaseline, NoneStarts, Point, Reading, Unread
<1>3. CASE idle # NoPoint /\ RecordsDisconnect
  <2>1. RowFrom("disconnect", idle) \in Row
    BY <1>0, <1>3, LedgerAssumption DEF RowFrom, Row, Point, Reading, Unread
  <2>. QED BY <1>0, <1>3, <2>1, SuspendType DEF RecordsDisconnect
<1>4. CASE idle # NoPoint /\ RefreshesStamp
  BY <1>0, <1>4 DEF RefreshesStamp, NoneStarts, Point
<1>5. CASE idle # NoPoint /\ ArmsFinalize
  BY <1>0, <1>5, LedgerAssumption DEF ArmsFinalize, NoneStarts
<1>. QED BY <1>1, <1>2, <1>3, <1>4, <1>5 DEF CheckOdoJump

\* The newest of finitely many rows: the last of those that end latest.
LEMMA LeastNat ==
  ASSUME NEW T, T \subseteq Nat, T # {}
  PROVE  \E x \in T : \A y \in T : x <= y
<1>. DEFINE Less == OpToRel(<, Nat)
<1>1. \A x, y \in Nat : x < y => <<x, y>> \in Less
  BY DEF OpToRel
<1>2. IsWellFoundedOn(Less, Nat)
  BY NatLessThanWellFounded
<1>. HIDE DEF Less
<1>3. PICK x \in T : \A y \in T : ~(<<y, x>> \in Less)
  BY <1>2, WFMin
<1>4. \A y \in T : ~(y < x)
  BY <1>1, <1>3
<1>. QED BY <1>4

LEMMA NewestRowType ==
  ASSUME TypeInvariant PROVE NewestRow \in Row
<1>. DEFINE Newest(i) == /\ i \in DOMAIN rows
                         /\ \A j \in DOMAIN rows :
                              \/ rows[j].end < rows[i].end
                              \/ rows[j].end = rows[i].end /\ j <= i
<1>0. /\ DOMAIN rows = 1..Len(rows) /\ Len(rows) \in Nat
      /\ \A i \in DOMAIN rows :
           /\ i \in Nat /\ i <= Len(rows) /\ rows[i] \in Row
           /\ rows[i].end \in Nat /\ rows[i].end <= MaxTime
  <2>1. rows \in Seq(Row)
    BY DEF TypeInvariant, TypeOK
  <2>2. DOMAIN rows = 1..Len(rows) /\ Len(rows) \in Nat
        /\ \A i \in DOMAIN rows : rows[i] \in Row
    BY <2>1
  <2>. QED BY <2>2, LedgerAssumption DEF Row
<1>1. ASSUME rows # <<>> PROVE \E i : Newest(i)
  <2>. DEFINE Ages == {MaxTime - rows[i].end : i \in DOMAIN rows}
  <2>1. Ages \subseteq Nat /\ Ages # {}
    BY <1>0, <1>1, LedgerAssumption DEF TypeInvariant, TypeOK
  <2>2. PICK age \in Ages : \A a \in Ages : age <= a
    BY <2>1, LeastNat
  <2>. DEFINE Latest == {i \in DOMAIN rows : MaxTime - rows[i].end = age}
              Gaps == {Len(rows) - i : i \in Latest}
  <2>3. Gaps \subseteq Nat /\ Gaps # {}
    BY <1>0, <2>2
  <2>4. PICK gap \in Gaps : \A g \in Gaps : gap <= g
    BY <2>3, LeastNat
  <2>5. PICK i \in Latest : Len(rows) - i = gap
    BY <2>4
  <2>6. ASSUME NEW j \in DOMAIN rows
        PROVE  \/ rows[j].end < rows[i].end
               \/ rows[j].end = rows[i].end /\ j <= i
    <3>1. age <= MaxTime - rows[j].end
      BY <2>2
    <3>2. CASE j \in Latest
      <4>1. gap <= Len(rows) - j
        BY <2>4, <3>2
      <4>. QED BY <1>0, <2>5, <3>2, <4>1, LedgerAssumption
    <3>3. CASE j \notin Latest
      <4>1. i \in DOMAIN rows /\ age = MaxTime - rows[i].end
            /\ MaxTime - rows[j].end # age
        BY <3>3
      <4>. HIDE DEF Latest, Ages, Gaps
      <4>. QED BY <1>0, <3>1, <4>1, LedgerAssumption
    <3>. QED BY <3>2, <3>3
  <2>7. Newest(i)
    BY <2>6
  <2>. QED BY <2>7
<1>2. CASE rows = <<>>
  BY <1>2, Readings DEF NewestRow
<1>3. CASE rows # <<>>
  <2>1. PICK i : Newest(i)
    BY <1>1, <1>3
  <2>. DEFINE k == CHOOSE n \in DOMAIN rows : \A j \in DOMAIN rows :
                     \/ rows[j].end < rows[n].end
                     \/ rows[j].end = rows[n].end /\ j <= n
  <2>2. k \in DOMAIN rows
    BY <2>1
  <2>3. NewestRow = rows[k]
    BY <1>3 DEF NewestRow
  <2>. HIDE DEF k
  <2>. QED BY <1>0, <2>2, <2>3
<1>. QED BY <1>2, <1>3
-----------------------------------------------------------------------------
LEMMA InitType == ASSUME Init PROVE TypeInvariant
<1>1. /\ NoPoint \in Point /\ NoTrip \in Trip /\ NoRow \in Row
      /\ NoTask \in Task
  BY LedgerAssumption
     DEF Reading, Unread, Point, NoPoint, NoTrip, Trip, NoRow, Row, NoTask, Task
<1>2. tasks \in [Slots -> Task] /\ rows \in Seq(Row)
  BY <1>1 DEF Init
<1>3. /\ 0 \in 0..MaxOdo /\ 0 \in 0..MaxTime /\ 0 \in 0..(MaxTime + Window)
      /\ 0 \in 0..MaxRestarts /\ 0 \in 0..MaxFailures
  BY LedgerAssumption
<1>. QED BY <1>1, <1>2, <1>3 DEF Init, TypeInvariant, TypeOK, Marked

LEMMA SensorsType ==
  ASSUME TypeInvariant, Sensors PROVE TypeInvariant'
<1>. USE DEF TypeInvariant, TypeOK, Marked
<1>1. ASSUME NEW now \in 0..MaxOdo, OdometerReports(now) PROVE TypeInvariant'
  <2>1. odo' = now /\ odo' \in 0..MaxOdo /\ now \in Reading
    BY <1>1 DEF OdometerReports, Reading, Unread
  <2>2. /\ idle' \in Point /\ synth' \in Point
        /\ finalizeAt' \in 0..(MaxTime + Window)
        /\ tasks' \in [Slots -> Task] /\ crossed' \in BOOLEAN
        /\ idle' = NoPoint \/ idle'.odo # Unread
        /\ synth' = NoPoint \/ synth'.odo # Unread
    BY <1>1, <2>1, CheckOdoJumpType DEF OdometerReports, NoneStarts
  <2>3. trip' \in Trip /\ (trip' = NoTrip \/ trip'.open)
    BY <1>1, <2>1 DEF OdometerReports, Trip
  <2>. QED BY <1>1, <2>1, <2>2, <2>3 DEF OdometerReports, counters
<1>2. CASE BatteryReports
  BY <1>2, CheckOdoJumpType DEF BatteryReports, sensors, counters
<1>3. CASE OdometerDropsOut
  BY <1>3 DEF OdometerDropsOut, NoneStarts, memory, counters
<1>4. ASSUME NEW on \in BOOLEAN, VehicleReports(on) PROVE TypeInvariant'
  BY <1>4, Readings, LedgerAssumption
     DEF VehicleReports, CancelsFinalize, NoneStarts, counters
<1>. QED BY <1>1, <1>2, <1>3, <1>4 DEF Sensors

LEMMA TickType == ASSUME TypeInvariant, Tick PROVE TypeInvariant'
BY LedgerAssumption
   DEF TypeInvariant, TypeOK, Marked, Tick, NoneStarts, sensors, memory,
       counters

LEMMA FinalizeType ==
  ASSUME TypeInvariant, Finalize PROVE TypeInvariant'
<1>. DEFINE row == [kind |-> "synth", start |-> synth.odo, stop |-> odo,
                    begin |-> synth.t, end |-> clock]
<1>1. tasks' \in [Slots -> Task] /\ crossed' \in BOOLEAN
  <2>1. CASE NoneStarts
    BY <2>1 DEF NoneStarts, TypeInvariant, TypeOK
  <2>2. CASE synth # NoPoint /\ Suspend(row)
    <3>1. row \in Row
      BY <2>2, LedgerAssumption
         DEF TypeInvariant, TypeOK, Marked, Row, Point, Reading, Unread
    <3>. QED BY <2>2, <3>1, SuspendType
  <2>. QED BY <2>1, <2>2 DEF Finalize
<1>2. /\ idle' \in {idle, Here} /\ synth' \in {synth, NoPoint}
      /\ finalizeAt' = 0
      /\ UNCHANGED <<sensors, clock, up, trip, lastTrip, rows, half, counters>>
  BY DEF Finalize
<1>. QED BY <1>1, <1>2, Readings, LedgerAssumption
         DEF TypeInvariant, TypeOK, Marked, sensors, counters

LEMMA TripsType ==
  ASSUME TypeInvariant, Trips PROVE TypeInvariant'
<1>. USE DEF TypeInvariant, TypeOK, Marked
<1>1. OdoEnd \in Reading /\ OdoRead \in Reading
  BY Readings DEF OdoEnd, Trip, Reading, Unread
<1>2. CASE TripOpens
  <2>. DEFINE row == [kind |-> "orphan", start |-> lastTrip.stop, stop |-> odo,
                      begin |-> lastTrip.end, end |-> clock]
  <2>1. row \in Row
    BY DEF Row
  <2>2. tasks' \in [Slots -> Task] /\ crossed' \in BOOLEAN
    BY <1>2, <2>1, SuspendType DEF TripOpens, NoneStarts
  <2>3. trip' \in Trip /\ trip'.open
    BY <1>1, <1>2 DEF TripOpens, Trip
  <2>4. synth' = NoPoint /\ finalizeAt' = 0
        /\ UNCHANGED <<sensors, clock, up, idle, lastTrip, rows, half, counters>>
    BY <1>2 DEF TripOpens, DropsBaseline
  <2>. QED BY <2>2, <2>3, <2>4, Readings, LedgerAssumption
           DEF sensors, counters
<1>3. CASE TripDiscarded
  <2>1. idle' \in Point /\ (idle' = NoPoint \/ idle'.odo # Unread)
    BY <1>1, <1>3 DEF TripDiscarded, AdvancesIdle, Point
  <2>. QED BY <1>3, <2>1, Readings
           DEF TripDiscarded, NoneStarts, sensors, counters
<1>4. CASE TripCloses
  <2>. DEFINE row == [kind |-> "live", start |-> trip.start, stop |-> OdoEnd,
                      begin |-> trip.begin, end |-> clock]
  <2>1. trip.start \in 0..MaxOdo /\ OdoEnd \in 0..MaxOdo
    BY <1>1, <1>4, LedgerAssumption
       DEF TripCloses, TooShort, Trip, Reading, Unread
  <2>2. row \in Row
    BY <2>1 DEF Row, Trip
  <2>3. tasks' \in [Slots -> Task] /\ crossed' \in BOOLEAN
    BY <1>4, <2>2, SuspendType DEF TripCloses
  <2>. QED BY <1>4, <2>3 DEF TripCloses, sensors, memory, counters
<1>. QED BY <1>2, <1>3, <1>4 DEF Trips

\* Where a row ends is a point with a reading.
LEMMA EndPoint ==
  ASSUME NEW r \in Row
  PROVE  [t |-> r.end, odo |-> r.stop] \in Point /\ r.stop # Unread
<1>1. r.end \in 0..MaxTime /\ r.stop \in 0..MaxOdo
  BY DEF Row
<1>2. r.stop \in Reading /\ r.stop # Unread
  BY <1>1, LedgerAssumption DEF Reading, Unread
<1>. QED BY <1>1, <1>2 DEF Point

LEMMA TasksType ==
  ASSUME TypeInvariant, Tasks PROVE TypeInvariant'
<1>. USE DEF TypeInvariant, TypeOK, Marked
<1>0. PICK s \in Slots : \/ Insert(s) \/ Finish(s) \/ OrphanRejected(s)
                         \/ InsertFails(s) \/ FinishFails(s)
  BY DEF Tasks
<1>. DEFINE row == tasks[s].row
<1>1. /\ tasks[s] \in Task /\ row \in Row
      /\ [t |-> row.end, odo |-> row.stop] \in Point
      /\ row.stop # Unread
  <2>1. tasks[s] \in Task
    OBVIOUS
  <2>2. row \in Row
    BY <2>1 DEF Task
  <2>. QED BY <2>1, <2>2, EndPoint
<1>2. CASE Insert(s)
  <2>1. [tasks[s] EXCEPT !.stored = Len(rows) + 1] \in Task
    BY <1>1 DEF Task
  <2>. QED BY <1>1, <1>2, <2>1 DEF Insert, sensors, memory, counters
<1>3. tasks' = [tasks EXCEPT ![s] = NoTask] => tasks' \in [Slots -> Task]
  BY Readings
<1>4. CASE Finish(s)
  <2>1. /\ trip' \in {trip, NoTrip} /\ lastTrip' \in {lastTrip, row}
        /\ idle' \in {idle, [t |-> row.end, odo |-> row.stop]}
    BY <1>4 DEF Finish, After, AfterDisconnect, Adopts
  <2>. QED BY <1>1, <1>3, <1>4, <2>1, Readings
           DEF Finish, sensors, counters
<1>5. CASE OrphanRejected(s)
  BY <1>3, <1>5 DEF OrphanRejected, sensors, memory, counters
<1>6. CASE InsertFails(s)
  BY <1>1, <1>3, <1>6, LedgerAssumption DEF InsertFails, Fails, sensors
<1>7. CASE FinishFails(s)
  <2>1. half' \subseteq Nat
    <3>1. tasks[s].stored \in Nat
      BY <1>1 DEF Task
    <3>. QED BY <1>7, <3>1 DEF FinishFails
  <2>2. failures' \in 0..MaxFailures
    BY <1>7, LedgerAssumption DEF FinishFails, Fails
  <2>. QED BY <1>3, <1>7, <2>1, <2>2 DEF FinishFails, Fails, sensors
<1>. QED BY <1>0, <1>2, <1>4, <1>5, <1>6, <1>7

LEMMA EntryType ==
  ASSUME TypeInvariant, (\E crash \in BOOLEAN : Stop(crash)) \/ Start
  PROVE  TypeInvariant'
<1>. USE DEF TypeInvariant, TypeOK, Marked
<1>1. ASSUME NEW crash \in BOOLEAN, Stop(crash) PROVE TypeInvariant'
  <2>1. \A s \in Slots : [tasks[s] EXCEPT !.detached = TRUE] \in Task
    BY DEF Task
  <2>2. tasks' \in [Slots -> Task]
    <3>1. \A s \in Slots : tasks'[s] \in Task
      BY <1>1, <2>1, Readings DEF Stop
    <3>2. tasks' = [s \in Slots |-> tasks'[s]]
      BY <1>1 DEF Stop
    <3>. QED BY <3>1, <3>2
  <2>3. restarts' \in 0..MaxRestarts
    <3>1. restarts' = restarts + 1 /\ restarts < MaxRestarts
      BY <1>1 DEF Stop
    <3>. QED BY <3>1, LedgerAssumption
  <2>4. up' = FALSE /\ trip' = NoTrip /\ synth' = NoPoint /\ finalizeAt' = 0
        /\ UNCHANGED <<sensors, clock, idle, lastTrip, rows, half, failures>>
        /\ crossed' \in BOOLEAN
    BY <1>1 DEF Stop, Idle
  <2>5. NoTrip \in Trip /\ NoPoint \in Point /\ 0 \in 0..(MaxTime + Window)
    BY Readings, LedgerAssumption
  <2>. QED BY <2>2, <2>3, <2>4, <2>5 DEF sensors
<1>2. CASE Start
  <2>1. NewestRow \in Row
    BY NewestRowType
  <2>2. idle' \in Point /\ (idle' = NoPoint \/ idle'.odo # Unread)
    <3>1. [t |-> NewestRow.end, odo |-> NewestRow.stop] \in Point
          /\ NewestRow.stop # Unread
      BY <2>1, EndPoint
    <3>2. idle' \in {NoPoint, [t |-> NewestRow.end, odo |-> NewestRow.stop]}
      BY <1>2 DEF Start
    <3>. QED BY <3>1, <3>2, Readings
  <2>3. /\ up' = TRUE /\ lastTrip' = NewestRow
        /\ UNCHANGED <<sensors, clock, trip, synth, finalizeAt, tasks, rows,
                       crossed, half, counters>>
    BY <1>2 DEF Start, NoneStarts
  <2>. QED BY <2>1, <2>2, <2>3 DEF sensors, counters
<1>. QED BY <1>1, <1>2

LEMMA NextType == ASSUME TypeInvariant, [Next]_vars PROVE TypeInvariant'
<1>1. CASE UNCHANGED vars
  BY <1>1
     DEF TypeInvariant, TypeOK, Marked, vars, sensors, memory, counters
<1>. QED BY <1>1, SensorsType, TickType, FinalizeType, TripsType, TasksType,
            EntryType DEF Next

\* The state is well typed whatever the constants: a row starts and ends at
\* readings of the odometer, never at a reading there was not.
THEOREM LedgerTypes == Spec => []TypeOK
<1>1. TypeInvariant => TypeOK
  BY DEF TypeInvariant
<1>. QED BY <1>1, InitType, NextType, PTL DEF Spec
-----------------------------------------------------------------------------
(***************************************************************************)
(* While no two rows were in the making at once.                           *)
(***************************************************************************)
Writing(s) == tasks[s] # NoTask

\* The rows the memory knows of: those no coroutine still has to finish, nor
\* failed to.
Known(i) ==
  i \in DOMAIN rows /\ i \notin half /\ \A s \in Slots : tasks[s].stored # i

\* No known row ends past km.  No known row that was measured does.
Past(km) == \A i \in DOMAIN rows : Known(i) => rows[i].stop <= km
PastMeasured(km) ==
  \A i \in DOMAIN rows : Known(i) => Guessed(rows[i]) \/ rows[i].stop <= km

\* The log grows at its end.
LogGrows ==
  /\ \A i \in DOMAIN rows : rows[i].stop <= odo /\ rows[i].end <= clock
  /\ \A i, j \in DOMAIN rows :
       i < j => rows[i].stop <= rows[j].stop /\ rows[i].end <= rows[j].end

LastRow == IF rows = <<>> THEN NoRow ELSE rows[Len(rows)]

\* The row being written goes to the end of the log, or is there.
AtTheEnd(row, stored) ==
  /\ row.end = clock /\ row.stop <= odo
  /\ \A i \in DOMAIN rows : rows[i].stop <= row.stop
  /\ stored = 0 =>
       IF Guessed(row) THEN PastMeasured(row.start) ELSE Past(row.start)
  /\ stored # 0 => stored = Len(rows) /\ LastRow = row

\* Whatever starts from the memory starts past the row being written.
BeforeMemory(row) ==
  /\ row.kind = "live" => trip.open /\ row.start <= row.stop
  /\ trip.open /\ row.kind # "live" =>
       /\ trip.start # Unread => row.stop <= trip.start
       /\ trip.seen # Unread => row.stop <= trip.seen
  /\ row.kind = "orphan" /\ synth # NoPoint => row.stop <= synth.odo
  /\ /\ row.kind \in {"synth", "orphan"}
     /\ idle # NoPoint /\ (trip.open => trip.seen = Unread)
     => row.stop <= idle.odo

OneRowAtATime ==
  /\ \A s1, s2 \in Slots : Writing(s1) /\ Writing(s2) => s1 = s2
  /\ \A s \in Slots : Writing(s) =>
       /\ up /\ ~tasks[s].detached /\ tasks[s].row.kind # "none"
       /\ AtTheEnd(tasks[s].row, tasks[s].stored)
       /\ BeforeMemory(tasks[s].row)

Unloaded == ~up => ~trip.open /\ synth = NoPoint /\ finalizeAt = 0

\* What the next rows start from.
LastTripAhead ==
  /\ lastTrip.end <= clock
  /\ up /\ lastTrip # NoRow => Past(lastTrip.stop)
TripAhead ==
  trip.open =>
    /\ trip.seen # Unread => trip.seen = odo
    /\ trip.start # Unread => trip.seen # Unread /\ trip.start <= trip.seen
                              /\ Past(trip.start)
SynthAhead == synth # NoPoint => ~trip.open /\ PastMeasured(synth.odo)
IdleAhead ==
  up /\ idle # NoPoint /\ (trip.open => trip.seen = Unread) => Past(idle.odo)

OneByOne ==
  /\ LogGrows /\ LiveKilometresOnce
  /\ OneRowAtATime /\ Unloaded
  /\ LastTripAhead /\ TripAhead /\ SynthAhead /\ IdleAhead

LedgerInvariant == TypeInvariant /\ (~crossed => OneByOne)
-----------------------------------------------------------------------------
LEMMA Types ==
  ASSUME TypeInvariant
  PROVE  /\ rows \in Seq(Row) /\ DOMAIN rows = 1..Len(rows) /\ Len(rows) \in Nat
         /\ \A i \in DOMAIN rows :
              /\ i \in Nat /\ rows[i] \in Row
              /\ rows[i].start \in Nat /\ rows[i].stop \in Nat
              /\ rows[i].end \in Nat
         /\ odo \in Nat /\ clock \in Nat /\ lastTrip.end \in Nat
         /\ lastTrip.stop \in Nat
         /\ tasks \in [Slots -> Task]
         /\ trip.start \in Int /\ trip.seen \in Int
         /\ idle.odo \in Int /\ synth.odo \in Int
<1>1. rows \in Seq(Row)
  BY DEF TypeInvariant, TypeOK
<1>2. DOMAIN rows = 1..Len(rows) /\ Len(rows) \in Nat
      /\ \A i \in DOMAIN rows : i \in Nat /\ rows[i] \in Row
  BY <1>1
<1>3. \A r \in Row : r.start \in Nat /\ r.stop \in Nat /\ r.end \in Nat
  BY LedgerAssumption DEF Row
<1>4. lastTrip \in Row /\ trip \in Trip /\ idle \in Point /\ synth \in Point
  BY DEF TypeInvariant, TypeOK
<1>5. trip.start \in Int /\ trip.seen \in Int /\ idle.odo \in Int
      /\ synth.odo \in Int
  BY <1>4, LedgerAssumption DEF Trip, Point, Reading, Unread
<1>. QED BY <1>1, <1>2, <1>3, <1>4, <1>5, LedgerAssumption
         DEF TypeInvariant, TypeOK

LEMMA TaskTypes ==
  ASSUME TypeInvariant, NEW s \in Slots
  PROVE  /\ tasks[s] \in Task /\ tasks[s].row \in Row /\ tasks[s].stored \in Nat
         /\ tasks[s].row.start \in Nat /\ tasks[s].row.stop \in Nat
         /\ tasks[s].row.end \in Nat
<1>1. tasks[s] \in Task
  BY DEF TypeInvariant, TypeOK
<1>2. tasks[s].row \in Row /\ tasks[s].stored \in Nat
  BY <1>1 DEF Task
<1>. QED BY <1>1, <1>2, LedgerAssumption DEF Row

\* What one coroutine at a time leaves the others.
LEMMA TheOnlyRow ==
  ASSUME TypeInvariant, OneByOne, NEW s \in Slots, Writing(s)
  PROVE  /\ up /\ ~tasks[s].detached /\ tasks[s].row.kind # "none"
         /\ AtTheEnd(tasks[s].row, tasks[s].stored)
         /\ BeforeMemory(tasks[s].row)
         /\ \A q \in Slots \ {s} : tasks[q] = NoTask
BY DEF OneByOne, OneRowAtATime, Writing

\* With the rows and the clock where they are, the log is as it was.
LEMMA SameLog ==
  ASSUME TypeInvariant, TypeInvariant', OneByOne,
         UNCHANGED <<rows, half, clock>>, odo <= odo', crossed' = crossed
  PROVE  LogGrows' /\ LiveKilometresOnce' /\ LastRow' = LastRow
<1>1. LastRow' = LastRow
  BY DEF LastRow
<1>2. LiveKilometresOnce'
  BY DEF OneByOne, LiveKilometresOnce, Guessed, Overlap
<1>3. odo' \in Nat
  BY LedgerAssumption DEF TypeInvariant, TypeOK
<1>4. LogGrows'
  BY <1>3, Types DEF OneByOne, LogGrows
<1>. QED BY <1>1, <1>2, <1>4

LEMMA SameRow ==
  ASSUME TypeInvariant, TypeInvariant', OneByOne,
         UNCHANGED <<rows, half, tasks, clock, up>>, odo <= odo',
         \A s \in Slots : Writing(s) => BeforeMemory(tasks[s].row)'
  PROVE  OneRowAtATime'
<1>1. odo' \in Nat
  BY LedgerAssumption DEF TypeInvariant, TypeOK
<1>2. ASSUME NEW s \in Slots, Writing(s)
      PROVE  AtTheEnd(tasks[s].row, tasks[s].stored)'
  <2>1. AtTheEnd(tasks[s].row, tasks[s].stored) /\ tasks[s].row.stop \in Nat
    BY <1>2, TaskTypes DEF OneByOne, OneRowAtATime
  <2>2. LastRow' = LastRow /\ tasks'[s] = tasks[s]
    BY DEF LastRow
  <2>3. tasks[s].row.stop <= odo'
    BY <1>1, <2>1, Types DEF AtTheEnd
  <2>4. tasks[s].stored = 0 =>
          IF Guessed(tasks[s].row) THEN PastMeasured(tasks[s].row.start)'
                                   ELSE Past(tasks[s].row.start)'
    BY <2>1 DEF AtTheEnd, Past, PastMeasured, Known
  <2>. QED BY <2>1, <2>2, <2>3, <2>4 DEF AtTheEnd, Guessed
<1>3. \A s \in Slots : Writing(s)' <=> Writing(s)
  BY DEF Writing
<1>. QED BY <1>2, <1>3 DEF OneByOne, OneRowAtATime

\* Readings are past everything.
LEMMA PastOdo ==
  ASSUME OneByOne PROVE Past(odo)
BY DEF OneByOne, LogGrows, Past

LEMMA PastGrows ==
  ASSUME TypeInvariant, NEW a \in Int, NEW b \in Int, Past(a), a <= b
  PROVE  Past(b)
BY Types DEF Past

LEMMA PastBoth == ASSUME NEW a, Past(a) PROVE PastMeasured(a)
BY DEF Past, PastMeasured
-----------------------------------------------------------------------------
LEMMA InitLedger == ASSUME Init PROVE LedgerInvariant
<1>1. TypeInvariant
  BY InitType
<1>2. DOMAIN rows = {} /\ \A s \in Slots : ~Writing(s)
  BY DEF Init, Writing
<1>. QED BY <1>1, <1>2, LedgerAssumption
         DEF Init, LedgerInvariant, OneByOne, LogGrows, LiveKilometresOnce,
             OneRowAtATime, Unloaded, LastTripAhead, TripAhead, SynthAhead,
             IdleAhead, NoTrip, NoPoint, NoRow, Past
-----------------------------------------------------------------------------
(* A coroutine starts: no other is suspended, and every row is known but    *)
(* for those half written.                                                  *)
LEMMA StartsRow ==
  ASSUME TypeInvariant, OneByOne, NEW row, Suspend(row), ~crossed',
         up, UNCHANGED <<rows, half, clock, up>>, row.kind # "none",
         row.end = clock, row.stop <= odo',
         \A i \in DOMAIN rows : rows[i].stop <= row.stop,
         IF Guessed(row) THEN PastMeasured(row.start) ELSE Past(row.start),
         row.kind = "live" => trip'.open /\ row.start <= row.stop,
         trip'.open /\ row.kind # "live" =>
           /\ trip'.start # Unread => row.stop <= trip'.start
           /\ trip'.seen # Unread => row.stop <= trip'.seen,
         row.kind = "orphan" => synth' = NoPoint,
         /\ row.kind \in {"synth", "orphan"} /\ idle' # NoPoint
         /\ trip'.open => trip'.seen = Unread
         => row.stop <= idle'.odo
  PROVE  OneRowAtATime' /\ \A i : Known(i)' <=> Known(i)
<1>1. PICK s \in Slots : /\ tasks[s] = NoTask
                         /\ tasks' = [tasks EXCEPT ![s].row = row]
  BY DEF Suspend
<1>2. tasks \in [Slots -> Task] /\ \A q \in Slots : tasks[q] = NoTask
  BY DEF Suspend, Idle, TypeInvariant, TypeOK
<1>3. tasks'[s] = [NoTask EXCEPT !.row = row]
  BY <1>1, <1>2
<1>4. \A q \in Slots \ {s} : tasks'[q] = NoTask
  BY <1>1, <1>2
<1>5. tasks'[s] = [row |-> row, stored |-> 0, detached |-> FALSE]
  BY <1>3 DEF NoTask
<1>6. \A i : Known(i)' <=> Known(i)
  <2>1. \A q \in Slots : tasks'[q].stored = tasks[q].stored
    BY <1>2, <1>4, <1>5 DEF NoTask
  <2>. QED BY <2>1 DEF Known
<1>7. IF Guessed(row) THEN PastMeasured(row.start)' ELSE Past(row.start)'
  BY <1>6 DEF Past, PastMeasured, Guessed
<1>8. AtTheEnd(row, 0)'
  BY <1>7 DEF AtTheEnd, Guessed
<1>9. BeforeMemory(row)'
  BY DEF BeforeMemory
<1>10. /\ up' /\ ~tasks'[s].detached /\ tasks'[s].row = row
       /\ tasks'[s].stored = 0
  BY <1>5
<1>11. AtTheEnd(tasks[s].row, tasks[s].stored)' /\ BeforeMemory(tasks[s].row)'
  BY <1>8, <1>9, <1>10 DEF AtTheEnd, BeforeMemory, Guessed
<1>. QED BY <1>4, <1>6, <1>10, <1>11 DEF OneRowAtATime, Writing

\* The baseline is past a row being written once the car is parked.
LEMMA CheckLedger ==
  ASSUME TypeInvariant, TypeInvariant', OneByOne, ~crossed', ~crossed,
         ~trip.open, up, odo <= odo',
         UNCHANGED <<clock, up, lastTrip, rows, half, trip>>, CheckOdoJump
  PROVE  OneByOne'
<1>0. LogGrows' /\ LiveKilometresOnce' /\ LastRow' = LastRow
  <2>1. crossed' = crossed
    BY Zenon DEF TypeInvariant, TypeOK
  <2>. QED BY <2>1, SameLog
<1>1. /\ odo \in Nat /\ odo' \in Nat /\ Past(odo')
      /\ \A i \in DOMAIN rows : rows[i].stop <= odo'
  <2>1. odo \in Nat /\ odo' \in Nat
    BY LedgerAssumption DEF TypeInvariant, TypeOK
  <2>2. \A i \in DOMAIN rows : rows[i].stop <= odo'
    BY <2>1, Types DEF OneByOne, LogGrows
  <2>. QED BY <2>1, <2>2 DEF Past
<1>2. /\ idle # NoPoint => Past(idle.odo)
      /\ synth # NoPoint => PastMeasured(synth.odo)
  BY DEF OneByOne, IdleAhead, SynthAhead
<1>3. \A s \in Slots : Writing(s) =>
        /\ BeforeMemory(tasks[s].row) /\ tasks[s].row.kind # "live"
        /\ tasks[s].row.stop \in Nat /\ tasks[s].row.stop <= odo'
  <2>1. \A s \in Slots : Writing(s) =>
          /\ BeforeMemory(tasks[s].row) /\ tasks[s].row.stop \in Nat
          /\ tasks[s].row.stop <= odo
    BY TaskTypes DEF OneByOne, OneRowAtATime, AtTheEnd
  <2>. QED BY <1>1, <2>1 DEF BeforeMemory
<1>4. ASSUME UNCHANGED tasks, idle' # NoPoint => Past(idle'.odo),
             synth' # NoPoint => PastMeasured(synth'.odo),
             \A s \in Slots : Writing(s) => BeforeMemory(tasks[s].row)'
      PROVE  OneByOne'
  <2>1. OneRowAtATime'
    BY <1>4, SameRow
  <2>2. LastTripAhead' /\ TripAhead' /\ SynthAhead' /\ IdleAhead' /\ Unloaded'
    BY <1>4
       DEF OneByOne, LastTripAhead, TripAhead, SynthAhead, IdleAhead, Unloaded,
           Past, PastMeasured, Known
  <2>. QED BY <1>0, <2>1, <2>2 DEF OneByOne
<1>5. CASE NoneStarts /\ UNCHANGED <<idle, synth, finalizeAt>>
  <2>1. \A s \in Slots : Writing(s) => BeforeMemory(tasks[s].row)'
    BY <1>3, <1>5 DEF BeforeMemory, NoneStarts
  <2>. QED BY <1>2, <1>4, <1>5, <2>1 DEF NoneStarts
<1>6. CASE ResetsBaseline
  <2>1. idle'.odo = odo' /\ synth' = synth /\ tasks' = tasks
    BY <1>6 DEF ResetsBaseline, NoneStarts
  <2>2. \A s \in Slots : Writing(s) => BeforeMemory(tasks[s].row)'
    BY <1>3, <2>1 DEF BeforeMemory
  <2>3. idle' # NoPoint => Past(idle'.odo)
    BY <1>1, <2>1
  <2>. QED BY <1>2, <1>4, <2>1, <2>2, <2>3
<1>7. CASE idle # NoPoint /\ RefreshesStamp
  <2>1. idle'.odo = idle.odo /\ synth' = synth /\ tasks' = tasks
    BY <1>7 DEF RefreshesStamp, NoneStarts, TypeInvariant, TypeOK, Point
  <2>2. \A s \in Slots : Writing(s) => BeforeMemory(tasks[s].row)'
    BY <1>3, <1>7, <2>1 DEF BeforeMemory
  <2>. QED BY <1>2, <1>4, <1>7, <2>1, <2>2
<1>8. CASE idle # NoPoint /\ ArmsFinalize
  <2>1. idle' = idle /\ synth' \in {synth, idle} /\ tasks' = tasks
        /\ (synth # NoPoint => synth' = synth) /\ (synth = NoPoint => synth' = idle)
    BY <1>8 DEF ArmsFinalize, NoneStarts
  <2>2. \A s \in Slots : Writing(s) => BeforeMemory(tasks[s].row)'
    BY <1>3, <1>8, <2>1 DEF BeforeMemory
  <2>3. synth' # NoPoint => PastMeasured(synth'.odo)
    BY <1>2, <1>8, <2>1, PastBoth
  <2>. QED BY <1>2, <1>4, <1>8, <2>1, <2>2, <2>3
<1>9. CASE idle # NoPoint /\ RecordsDisconnect
  <2>. DEFINE row == RowFrom("disconnect", idle)
  <2>1. /\ row.kind = "disconnect" /\ row.start = idle.odo /\ row.stop = odo'
        /\ row.end = clock /\ Guessed(row)
    BY DEF RowFrom, Guessed
  <2>2. Suspend(row) /\ UNCHANGED <<idle, synth, finalizeAt>>
    BY <1>9 DEF RecordsDisconnect
  <2>3. PastMeasured(row.start)
    BY <1>2, <1>9, <2>1, PastBoth
  <2>. HIDE DEF row
  <2>4. OneRowAtATime' /\ \A i : Known(i)' <=> Known(i)
    BY <1>1, <2>1, <2>2, <2>3, StartsRow
  <2>5. LastTripAhead' /\ TripAhead' /\ SynthAhead' /\ IdleAhead' /\ Unloaded'
    BY <1>1, <1>2, <2>2, <2>4
       DEF OneByOne, LastTripAhead, TripAhead, SynthAhead, IdleAhead, Unloaded,
           Past, PastMeasured
  <2>. QED BY <1>0, <2>4, <2>5 DEF OneByOne
<1>. QED BY <1>5, <1>6, <1>7, <1>8, <1>9 DEF CheckOdoJump

LEMMA SensorsLedger ==
  ASSUME TypeInvariant, TypeInvariant', OneByOne, ~crossed, ~crossed', Sensors
  PROVE  OneByOne'
<1>1. ASSUME NEW now \in 0..MaxOdo, OdometerReports(now) PROVE OneByOne'
  <2>0. /\ odo' = now /\ odo <= odo' /\ odo \in Nat /\ now \in Nat
        /\ UNCHANGED <<clock, up, lastTrip, rows, half>>
    BY <1>1, LedgerAssumption DEF OdometerReports, TypeInvariant, TypeOK
  <2>1. CASE up /\ ~trip.open
    <3>1. trip' = trip /\ CheckOdoJump
      BY <1>1, <2>1 DEF OdometerReports
    <3>. QED BY <2>0, <2>1, <3>1, CheckLedger
  <2>2. CASE ~(up /\ ~trip.open)
    <3>1. UNCHANGED <<idle, synth, finalizeAt, tasks>> /\ crossed' = crossed
      BY <1>1, <2>2 DEF OdometerReports, NoneStarts
    <3>2. LogGrows' /\ LiveKilometresOnce' /\ LastRow' = LastRow
      BY <2>0, <3>1, SameLog
    <3>3. CASE ~up
      <4>1. trip' = trip /\ ~trip.open /\ \A s \in Slots : ~Writing(s)
        BY <1>1, <3>3 DEF OdometerReports, OneByOne, Unloaded, OneRowAtATime
      <4>2. OneRowAtATime'
        BY <2>0, <3>1, <4>1, SameRow
      <4>. QED BY <2>0, <3>1, <3>2, <3>3, <4>1, <4>2
               DEF OneByOne, LastTripAhead, TripAhead, SynthAhead, IdleAhead,
                   Unloaded, PastMeasured, Known
    <3>4. CASE up /\ trip.open
      <4>1. trip'.open /\ trip'.start = trip.start /\ trip'.seen = now
        BY <1>1, <3>4 DEF OdometerReports, TypeInvariant, TypeOK, Trip
      <4>2. now # Unread
        BY <2>0 DEF Unread
      <4>3. \A s \in Slots : Writing(s) => BeforeMemory(tasks[s].row)'
        <5>1. ASSUME NEW s \in Slots, Writing(s)
              PROVE  BeforeMemory(tasks[s].row)'
          <6>1. BeforeMemory(tasks[s].row) /\ tasks[s].row.stop \in Nat
                /\ tasks[s].row.stop <= odo /\ tasks'[s] = tasks[s]
            BY <3>1, <5>1, TaskTypes, TheOnlyRow DEF AtTheEnd
          <6>. QED BY <2>0, <3>1, <3>4, <4>1, <4>2, <6>1 DEF BeforeMemory
        <5>. QED BY <5>1
      <4>4. OneRowAtATime'
        BY <2>0, <3>1, <4>3, SameRow
      <4>5. TripAhead'
        <5>1. trip.start # Unread => trip.start <= now /\ Past(trip.start)
          BY <2>0, <3>4, Types DEF OneByOne, TripAhead
        <5>. QED BY <2>0, <3>1, <4>1, <4>2, <5>1 DEF TripAhead, Past, Known
      <4>. QED BY <2>0, <3>1, <3>2, <3>4, <4>1, <4>2, <4>4, <4>5
               DEF OneByOne, LastTripAhead, SynthAhead, IdleAhead, Unloaded,
                   Past, Known
    <3>. QED BY <2>2, <3>3, <3>4
  <2>. QED BY <2>1, <2>2
<1>2. CASE BatteryReports
  <2>1. up /\ ~trip.open /\ CheckOdoJump /\ odo' = odo
        /\ UNCHANGED <<clock, up, lastTrip, rows, half, trip>>
    BY <1>2 DEF BatteryReports, sensors
  <2>2. odo <= odo'
    BY <2>1, Types
  <2>. QED BY <2>1, <2>2, CheckLedger
<1>3. ASSUME UNCHANGED <<odo, clock, up, trip, idle, lastTrip, tasks, rows, half,
                         crossed>>,
             synth' \in {synth, NoPoint}, finalizeAt' \in {finalizeAt, 0}
      PROVE  OneByOne'
  <2>1. odo <= odo'
    BY <1>3, Types
  <2>2. \A s \in Slots : Writing(s) => BeforeMemory(tasks[s].row)'
    <3>1. \A s \in Slots : Writing(s) => BeforeMemory(tasks[s].row)
      BY DEF OneByOne, OneRowAtATime
    <3>. QED BY <1>3, <3>1 DEF BeforeMemory
  <2>3. OneRowAtATime'
    BY <1>3, <2>1, <2>2, SameRow
  <2>4. LogGrows' /\ LiveKilometresOnce'
    BY <1>3, <2>1, SameLog
  <2>. QED BY <1>3, <2>3, <2>4
           DEF OneByOne, LastTripAhead, TripAhead, SynthAhead, IdleAhead,
               Unloaded, Past, PastMeasured, Known
<1>4. CASE OdometerDropsOut \/ \E on \in BOOLEAN : VehicleReports(on)
  BY <1>3, <1>4
     DEF OdometerDropsOut, VehicleReports, CancelsFinalize, NoneStarts, memory
<1>. QED BY <1>1, <1>2, <1>4 DEF Sensors

LEMMA TickLedger ==
  ASSUME TypeInvariant, TypeInvariant', OneByOne, Tick PROVE OneByOne'
<1>1. /\ Idle /\ clock' = clock + 1
      /\ UNCHANGED <<odo, up, trip, idle, synth, finalizeAt, lastTrip, tasks, rows,
                     half, crossed>>
  BY DEF Tick, NoneStarts, sensors, memory
<1>2. \A s \in Slots : ~Writing(s)'
  BY <1>1 DEF Idle, Writing
<1>3. LogGrows' /\ lastTrip'.end <= clock'
  BY <1>1, Types DEF OneByOne, LogGrows, LastTripAhead
<1>. QED BY <1>1, <1>2, <1>3
         DEF OneByOne, LiveKilometresOnce, Guessed, Overlap, OneRowAtATime,
             Unloaded, LastTripAhead, TripAhead, SynthAhead, IdleAhead, Past,
             PastMeasured, Known

\* A synthetic trip starts past every known row that was measured.
LEMMA FinalizeLedger ==
  ASSUME TypeInvariant, TypeInvariant', OneByOne, ~crossed, ~crossed', Finalize
  PROVE  OneByOne'
<1>0. /\ up /\ UNCHANGED <<odo, clock, up, trip, lastTrip, rows, half>>
      /\ odo <= odo' /\ finalizeAt' = 0 /\ crossed' = crossed
  BY Types DEF Finalize, OneByOne, Unloaded, sensors, TypeInvariant, TypeOK
<1>1. LogGrows' /\ LiveKilometresOnce'
  BY <1>0, SameLog
<1>2. ASSUME UNCHANGED tasks, synth' \in {synth, NoPoint}, idle' \in {idle, Here},
             ~trip.open \/ idle' = idle
      PROVE  OneByOne'
  <2>1. Here.odo = odo /\ Past(odo)
    BY PastOdo DEF Here
  <2>2. ASSUME NEW s \in Slots, Writing(s) PROVE BeforeMemory(tasks[s].row)'
    <3>1. BeforeMemory(tasks[s].row) /\ tasks[s].row.stop <= odo
      BY <2>2, TheOnlyRow DEF AtTheEnd
    <3>. QED BY <1>0, <1>2, <2>1, <3>1 DEF BeforeMemory
  <2>3. OneRowAtATime'
    BY <1>0, <1>2, <2>2, SameRow
  <2>4. IdleAhead'
    BY <1>0, <1>2, <2>1 DEF OneByOne, IdleAhead, Past, Known
  <2>. QED BY <1>0, <1>1, <1>2, <2>3, <2>4
           DEF OneByOne, LastTripAhead, TripAhead, SynthAhead, Unloaded, Past,
               PastMeasured, Known
<1>. DEFINE row == [kind |-> "synth", start |-> synth.odo, stop |-> odo,
                    begin |-> synth.t, end |-> clock]
<1>3. CASE /\ synth # NoPoint /\ ~trip.open /\ synth' = NoPoint
           /\ idle' = Here /\ Suspend(row)
  <2>1. /\ row.kind = "synth" /\ row.start = synth.odo /\ row.stop = odo
        /\ row.end = clock /\ Guessed(row)
    BY DEF Guessed
  <2>. HIDE DEF row
  <2>2. PastMeasured(row.start) /\ idle'.odo = odo
        /\ \A i \in DOMAIN rows : rows[i].stop <= odo
    BY <1>3, <2>1 DEF OneByOne, SynthAhead, LogGrows, Here
  <2>3. OneRowAtATime' /\ \A i : Known(i)' <=> Known(i)
    BY <1>0, <1>3, <2>1, <2>2, StartsRow
  <2>. QED BY <1>0, <1>1, <1>3, <2>2, <2>3
           DEF OneByOne, LastTripAhead, TripAhead, SynthAhead, IdleAhead,
               Unloaded, Past, Known
<1>. HIDE DEF row
<1>4. \/ UNCHANGED tasks /\ synth' \in {synth, NoPoint} /\ idle' = idle
      \/ /\ synth # NoPoint /\ ~trip.open /\ synth' = NoPoint /\ idle' = Here
         /\ UNCHANGED tasks \/ Suspend(row)
  BY DEF Finalize, NoneStarts, row
<1>. QED BY <1>2, <1>3, <1>4

\* A live trip starts past every known row, and so does the orphan before it.
LEMMA OpensLedger ==
  ASSUME TypeInvariant, TypeInvariant', OneByOne, ~crossed, ~crossed', TripOpens
  PROVE  OneByOne'
<1>0. /\ up /\ ~trip.open
      /\ UNCHANGED <<odo, clock, up, idle, lastTrip, rows, half>>
      /\ synth' = NoPoint /\ trip'.open /\ trip'.start = OdoRead
      /\ trip'.seen = OdoRead
  BY DEF TripOpens, DropsBaseline, sensors
<1>1. /\ odo \in Nat /\ odo <= odo' /\ Past(odo) /\ odo # Unread
      /\ OdoRead = IF readable THEN odo ELSE Unread
      /\ \A i \in DOMAIN rows : rows[i].stop <= odo
  BY <1>0, PastOdo, Types DEF OdoRead, Unread, OneByOne, LogGrows
<1>2. LogGrows' /\ LiveKilometresOnce'
  <2>1. crossed' = crossed
    BY Zenon DEF TypeInvariant, TypeOK
  <2>. QED BY <1>0, <1>1, <2>1, SameLog
<1>3. ASSUME \A i : Known(i)' <=> Known(i), OneRowAtATime' PROVE OneByOne'
  <2>1. TripAhead'
    BY <1>0, <1>1, <1>3 DEF TripAhead, Past
  <2>2. SynthAhead' /\ IdleAhead' /\ LastTripAhead' /\ Unloaded'
    BY <1>0, <1>3
       DEF OneByOne, SynthAhead, IdleAhead, LastTripAhead, Unloaded, Past
  <2>. QED BY <1>2, <1>3, <2>1, <2>2 DEF OneByOne
<1>4. CASE NoneStarts
  <2>1. tasks' = tasks
    BY <1>4 DEF NoneStarts
  <2>2. ASSUME NEW s \in Slots, Writing(s) PROVE BeforeMemory(tasks[s].row)'
    <3>1. BeforeMemory(tasks[s].row) /\ tasks[s].row.stop <= odo
      BY <2>2, TheOnlyRow DEF AtTheEnd
    <3>. QED BY <1>0, <1>1, <2>1, <3>1 DEF BeforeMemory
  <2>3. OneRowAtATime'
    BY <1>0, <1>1, <2>1, <2>2, SameRow
  <2>4. \A i : Known(i)' <=> Known(i)
    BY <1>0, <2>1 DEF Known
  <2>. QED BY <1>3, <2>3, <2>4
<1>. DEFINE row == [kind |-> "orphan", start |-> lastTrip.stop, stop |-> odo,
                    begin |-> lastTrip.end, end |-> clock]
<1>5. CASE OrphanGap /\ Suspend(row)
  <2>1. /\ row.kind = "orphan" /\ row.start = lastTrip.stop /\ row.stop = odo
        /\ row.end = clock /\ ~Guessed(row)
    BY DEF Guessed
  <2>. HIDE DEF row
  <2>2. Past(row.start)
    BY <1>0, <1>5, <2>1 DEF OneByOne, LastTripAhead, OrphanGap
  <2>3. OdoRead = odo
    BY <1>1, <1>5 DEF OrphanGap
  <2>4. OneRowAtATime' /\ \A i : Known(i)' <=> Known(i)
    BY <1>0, <1>1, <1>5, <2>1, <2>2, <2>3, StartsRow
  <2>. QED BY <1>3, <2>4
<1>. QED BY <1>4, <1>5 DEF TripOpens

LEMMA DiscardLedger ==
  ASSUME TypeInvariant, TypeInvariant', OneByOne, ~crossed, TripDiscarded
  PROVE  OneByOne'
<1>0. /\ ~Closing /\ trip.open /\ trip' = NoTrip /\ ~trip'.open /\ AdvancesIdle
      /\ UNCHANGED <<odo, clock, up, synth, finalizeAt, lastTrip, tasks, rows,
                     half, crossed>>
  BY DEF TripDiscarded, NoneStarts, sensors, NoTrip
<1>1. odo \in Nat /\ odo <= odo' /\ Past(odo) /\ odo # Unread /\ synth = NoPoint
      /\ (trip.seen # Unread => trip.seen = odo) /\ up
  BY <1>0, PastOdo, Types
     DEF Unread, OneByOne, TripAhead, SynthAhead, Unloaded
<1>2. LogGrows' /\ LiveKilometresOnce'
  BY <1>0, <1>1, SameLog
<1>3. \/ idle' = idle /\ trip.seen = Unread
      \/ idle'.odo = odo
  BY <1>0, <1>1 DEF AdvancesIdle, OdoEnd
<1>4. ASSUME NEW s \in Slots, Writing(s) PROVE BeforeMemory(tasks[s].row)'
  <2>1. BeforeMemory(tasks[s].row) /\ tasks[s].row.stop <= odo
        /\ ~tasks[s].detached
    BY <1>4, TheOnlyRow DEF AtTheEnd
  <2>2. tasks[s].row.kind # "live"
    BY <1>0, <2>1 DEF Closing
  <2>. QED BY <1>0, <1>1, <1>3, <2>1, <2>2 DEF BeforeMemory
<1>5. OneRowAtATime'
  BY <1>0, <1>1, <1>4, SameRow
<1>6. IdleAhead'
  BY <1>0, <1>1, <1>3 DEF OneByOne, IdleAhead, Past, Known
<1>. QED BY <1>0, <1>1, <1>2, <1>5, <1>6
         DEF OneByOne, LastTripAhead, TripAhead, SynthAhead, Unloaded, Past,
             Known

LEMMA ClosesLedger ==
  ASSUME TypeInvariant, TypeInvariant', OneByOne, ~crossed, ~crossed', TripCloses
  PROVE  OneByOne'
<1>. DEFINE row == [kind |-> "live", start |-> trip.start, stop |-> OdoEnd,
                    begin |-> trip.begin, end |-> clock]
<1>0. /\ trip.open /\ ~TooShort /\ Suspend(row)
      /\ UNCHANGED <<odo, clock, up, trip, idle, synth, finalizeAt, lastTrip,
                     rows, half>>
  BY DEF TripCloses, sensors, memory
<1>1. /\ trip.start # Unread /\ trip.start <= odo /\ OdoEnd = odo /\ up
      /\ Past(trip.start) /\ odo \in Nat /\ odo <= odo'
      /\ \A i \in DOMAIN rows : rows[i].stop <= odo
  BY <1>0, Types
     DEF OneByOne, TripAhead, TooShort, OdoEnd, Unloaded, LogGrows
<1>2. LogGrows' /\ LiveKilometresOnce'
  <2>1. crossed' = crossed
    BY Zenon DEF TypeInvariant, TypeOK
  <2>. QED BY <1>0, <1>1, <2>1, SameLog
<1>3. /\ row.kind = "live" /\ row.start = trip.start /\ row.stop = odo
      /\ row.end = clock /\ ~Guessed(row)
  BY <1>1 DEF Guessed
<1>. HIDE DEF row
<1>4. OneRowAtATime' /\ \A i : Known(i)' <=> Known(i)
  BY <1>0, <1>1, <1>3, StartsRow
<1>. QED BY <1>0, <1>2, <1>4
         DEF OneByOne, LastTripAhead, TripAhead, SynthAhead, IdleAhead, Unloaded,
             Past, PastMeasured
-----------------------------------------------------------------------------
\* The row goes to the end of the log; the memory does not know it yet.
LEMMA InsertLedger ==
  ASSUME TypeInvariant, TypeInvariant', OneByOne, ~crossed, NEW s \in Slots,
         Insert(s)
  PROVE  OneByOne'
<1>. DEFINE row == tasks[s].row
            n == Len(rows) + 1
<1>0. /\ Writing(s) /\ tasks[s].stored = 0 /\ rows' = Append(rows, row)
      /\ tasks' = [tasks EXCEPT ![s].stored = n]
      /\ UNCHANGED <<odo, clock, up, trip, idle, synth, finalizeAt, lastTrip, half,
                     crossed>>
  BY DEF Insert, Writing, sensors, memory
<1>1. /\ up /\ ~tasks[s].detached /\ row.kind # "none"
      /\ AtTheEnd(row, 0) /\ BeforeMemory(row)
      /\ row \in Row /\ row.start \in Nat /\ row.stop \in Nat /\ row.end \in Nat
      /\ \A q \in Slots \ {s} : tasks[q] = NoTask
  BY <1>0, TheOnlyRow, TaskTypes
<1>2. /\ Len(rows) \in Nat /\ DOMAIN rows = 1..Len(rows)
      /\ DOMAIN rows' = 1..n /\ rows'[n] = row /\ Len(rows') = n /\ rows' # <<>>
      /\ \A i \in DOMAIN rows : rows'[i] = rows[i] /\ i < n
  <2>1. rows \in Seq(Row)
    BY DEF TypeInvariant, TypeOK
  <2>. QED BY <1>0, <1>1, <2>1
<1>3. \A i \in DOMAIN rows' : i \in DOMAIN rows \/ i = n
  BY <1>2
<1>4. /\ tasks'[s] = [tasks[s] EXCEPT !.stored = n]
      /\ tasks'[s].row = row /\ tasks'[s].stored = n
      /\ tasks'[s].detached = tasks[s].detached
      /\ \A q \in Slots \ {s} : tasks'[q] = NoTask
  <2>1. tasks \in [Slots -> Task] /\ tasks[s] \in Task
    BY Types, TaskTypes
  <2>. QED BY <1>0, <1>1, <2>1 DEF Task
<1>5. \A i : Known(i)' <=> Known(i)
  <2>1. \A i \in DOMAIN rows : i # n /\ i # 0
    BY <1>2
  <2>2. \A q \in Slots \ {s} : tasks'[q] = tasks[q]
    BY <1>1, <1>4
  <2>. QED BY <1>0, <1>2, <1>3, <1>4, <2>1, <2>2 DEF Known
<1>6. LogGrows'
  <2>1. \A i \in DOMAIN rows :
          rows[i].stop <= row.stop /\ rows[i].end <= row.end
    BY <1>1 DEF OneByOne, LogGrows, AtTheEnd
  <2>2. \A i \in DOMAIN rows' : rows'[i].stop <= odo' /\ rows'[i].end <= clock'
    <3>1. row.stop <= odo /\ row.end <= clock
      BY <1>1, Types DEF AtTheEnd
    <3>. QED BY <1>0, <1>2, <1>3, <3>1 DEF OneByOne, LogGrows
  <2>3. ASSUME NEW i \in DOMAIN rows', NEW j \in DOMAIN rows', i < j
        PROVE  rows'[i].stop <= rows'[j].stop /\ rows'[i].end <= rows'[j].end
    <3>1. i \in DOMAIN rows
      BY <1>2, <2>3
    <3>2. CASE j \in DOMAIN rows
      BY <1>2, <2>3, <3>1, <3>2 DEF OneByOne, LogGrows
    <3>3. CASE j = n
      BY <1>2, <2>1, <3>1, <3>3
    <3>. QED BY <1>3, <3>2, <3>3
  <2>. QED BY <2>2, <2>3 DEF LogGrows
<1>7. LiveKilometresOnce'
  <2>. SUFFICES ASSUME NEW i \in DOMAIN rows', NEW j \in DOMAIN rows', i < j,
                       i \notin half,
                       ~(Guessed(rows'[i]) /\ Guessed(rows'[j]))
                PROVE  ~Overlap(rows'[i], rows'[j])
    BY <1>0 DEF LiveKilometresOnce, Guessed, Overlap
  <2>1. i \in DOMAIN rows
    BY <1>2
  <2>2. CASE j \in DOMAIN rows
    BY <1>0, <1>2, <2>1, <2>2 DEF OneByOne, LiveKilometresOnce
  <2>3. CASE j = n
    <3>1. Known(i)
      <4>1. i \in Nat /\ i # 0
        BY <1>2, <2>1
      <4>2. \A q \in Slots : tasks[q].stored = 0
        BY <1>0, <1>1 DEF NoTask
      <4>. QED BY <1>0, <2>1, <4>1, <4>2 DEF Known
    <3>2. rows[i].stop <= row.start
      BY <1>1, <1>2, <2>1, <2>3, <3>1 DEF AtTheEnd, Past, PastMeasured
    <3>3. rows[i].stop \in Nat /\ rows'[i] = rows[i] /\ rows'[j] = row
      BY <1>2, <2>1, <2>3, Types
    <3>. QED BY <1>1, <3>2, <3>3 DEF Overlap
  <2>. QED BY <1>3, <2>2, <2>3
<1>8. OneRowAtATime'
  <2>1. AtTheEnd(tasks[s].row, tasks[s].stored)'
    <3>1. \A i \in DOMAIN rows' : rows'[i].stop <= row.stop
      BY <1>1, <1>2, <1>3 DEF AtTheEnd
    <3>2. n # 0 /\ LastRow' = row
      BY <1>2 DEF LastRow
    <3>. QED BY <1>0, <1>1, <1>2, <1>4, <3>1, <3>2 DEF AtTheEnd
  <2>2. BeforeMemory(tasks[s].row)'
    BY <1>0, <1>1, <1>4 DEF BeforeMemory
  <2>. QED BY <1>0, <1>1, <1>4, <2>1, <2>2 DEF OneRowAtATime, Writing
<1>9. LastTripAhead' /\ TripAhead' /\ SynthAhead' /\ IdleAhead' /\ Unloaded'
  <2>1. /\ up /\ lastTrip # NoRow => Past(lastTrip.stop)'
        /\ trip.open /\ trip.start # Unread => Past(trip.start)'
        /\ synth # NoPoint => PastMeasured(synth.odo)'
        /\ up /\ idle # NoPoint /\ (trip.open => trip.seen = Unread)
             => Past(idle.odo)'
    <3>1. \A i \in DOMAIN rows' : Known(i)' => i \in DOMAIN rows /\ Known(i)
                                               /\ rows'[i] = rows[i]
      BY <1>2, <1>5 DEF Known
    <3>2. UNCHANGED <<lastTrip, trip, synth, idle>>
      BY <1>0
    <3>. QED BY <3>1, <3>2
             DEF OneByOne, LastTripAhead, TripAhead, SynthAhead, IdleAhead, Past,
                 PastMeasured
  <2>. QED BY <1>0, <2>1
           DEF OneByOne, LastTripAhead, TripAhead, SynthAhead, IdleAhead,
               Unloaded
<1>. QED BY <1>6, <1>7, <1>8, <1>9 DEF OneByOne

\* The slot becomes free: nothing is being written, and every row the memory
\* did not know of it knows now, but for half written ones.
LEMMA FreesSlot ==
  ASSUME TypeInvariant, OneByOne, NEW s \in Slots, Writing(s),
         tasks' = [tasks EXCEPT ![s] = NoTask], UNCHANGED <<rows, up>>,
         half \subseteq half'
  PROVE  /\ OneRowAtATime'
         /\ \A i \in DOMAIN rows' : Known(i)' => Known(i) \/ i = tasks[s].stored
<1>1. \A q \in Slots \ {s} : tasks[q] = NoTask
  BY TheOnlyRow
<1>2. \A q \in Slots : tasks'[q] = NoTask
  BY <1>1, Types
<1>3. ASSUME NEW i \in DOMAIN rows', Known(i)', i # tasks[s].stored
      PROVE  Known(i)
  <2>1. i \in Nat /\ i # 0
    BY Types
  <2>. QED BY <1>1, <1>3, <2>1 DEF Known, NoTask
<1>. QED BY <1>2, <1>3 DEF OneRowAtATime, Writing

\* The memory learns of the row: it is the last one, and ends furthest.
LEMMA FinishLedger ==
  ASSUME TypeInvariant, TypeInvariant', OneByOne, ~crossed, NEW s \in Slots,
         Finish(s)
  PROVE  OneByOne'
<1>. DEFINE row == tasks[s].row
            n == tasks[s].stored
<1>0. /\ n # 0 /\ tasks' = [tasks EXCEPT ![s] = NoTask] /\ Writing(s)
      /\ UNCHANGED <<odo, clock, up, synth, finalizeAt, rows, half, crossed>>
  BY DEF Finish, Writing, NoTask, sensors
<1>1. /\ up /\ ~tasks[s].detached /\ row.kind # "none" /\ row \in Row
      /\ AtTheEnd(row, n) /\ BeforeMemory(row)
      /\ row.start \in Nat /\ row.stop \in Nat /\ row.end \in Nat
  BY <1>0, TheOnlyRow, TaskTypes
<1>2. After(row)
  BY <1>1 DEF Finish
<1>3. /\ row.end = clock /\ row.stop <= odo /\ rows[n] = row
      /\ \A i \in DOMAIN rows : rows[i].stop <= row.stop
  <2>1. n = Len(rows) /\ LastRow = row
    BY <1>0, <1>1 DEF AtTheEnd
  <2>2. row # NoRow
    BY <1>1 DEF NoRow
  <2>. QED BY <1>1, <2>1, <2>2 DEF AtTheEnd, LastRow
<1>4. LogGrows' /\ LiveKilometresOnce'
  BY <1>0, Types, SameLog
<1>5. OneRowAtATime' /\ \A i \in DOMAIN rows : Known(i)' => Known(i) \/ i = n
  BY <1>0, FreesSlot
<1>6. ASSUME NEW km \in Int, row.stop <= km
      PROVE  \A i \in DOMAIN rows : Known(i)' => rows[i].stop <= km
  BY <1>1, <1>3, <1>6, Types
<1>7. lastTrip' = row
  <2>1. lastTrip.end <= row.end
    BY <1>3 DEF OneByOne, LastTripAhead
  <2>. QED BY <1>2, <2>1 DEF After, AfterDisconnect, Adopts
<1>8. LastTripAhead'
  BY <1>0, <1>1, <1>3, <1>6, <1>7, Types DEF LastTripAhead, Past
<1>9. Unloaded'
  BY <1>0, <1>1 DEF Unloaded
<1>10. CASE row.kind = "live"
  <2>1. trip' = NoTrip /\ ~trip'.open /\ idle'.odo = row.stop
    BY <1>2, <1>10 DEF After, NoTrip
  <2>2. synth' = NoPoint
    BY <1>0, <1>1, <1>10 DEF BeforeMemory, OneByOne, SynthAhead
  <2>3. IdleAhead'
    BY <1>0, <1>1, <1>6, <2>1 DEF IdleAhead, Past
  <2>. QED BY <1>4, <1>5, <1>8, <1>9, <2>1, <2>2, <2>3
           DEF OneByOne, TripAhead, SynthAhead
<1>11. CASE row.kind # "live"
  <2>1. trip' = trip
    BY <1>2, <1>11 DEF After
  <2>2. TripAhead'
    <3>1. ASSUME trip.open, trip.start # Unread
          PROVE  \A i \in DOMAIN rows : Known(i)' => rows[i].stop <= trip.start
      BY <1>1, <1>6, <1>11, <3>1, Types DEF BeforeMemory
    <3>. QED BY <1>0, <2>1, <3>1 DEF OneByOne, TripAhead, Past
  <2>3. SynthAhead'
    <3>1. CASE Guessed(row)
      BY <1>0, <1>3, <1>5, <3>1, <2>1
         DEF OneByOne, SynthAhead, PastMeasured, Guessed
    <3>2. CASE ~Guessed(row)
      <4>1. row.kind = "orphan"
        BY <1>1, <1>11, <3>2 DEF Guessed, Row
      <4>2. ASSUME synth # NoPoint
            PROVE  \A i \in DOMAIN rows : Known(i)' => rows[i].stop <= synth.odo
        BY <1>1, <1>6, <4>1, <4>2, Types DEF BeforeMemory
      <4>. QED BY <1>0, <2>1, <4>2 DEF OneByOne, SynthAhead, PastMeasured
    <3>. QED BY <3>1, <3>2
  <2>4. IdleAhead'
    <3>1. CASE row.kind = "disconnect"
      <4>1. idle'.odo = row.stop
        BY <1>2, <3>1 DEF After, AfterDisconnect
      <4>. QED BY <1>0, <1>1, <1>6, <4>1 DEF IdleAhead, Past
    <3>2. CASE row.kind # "disconnect"
      <4>1. idle' = idle /\ row.kind \in {"synth", "orphan"}
        BY <1>1, <1>2, <1>11, <3>2 DEF After, Row
      <4>2. ASSUME idle # NoPoint, trip.open => trip.seen = Unread
            PROVE  \A i \in DOMAIN rows : Known(i)' => rows[i].stop <= idle.odo
        BY <1>1, <1>6, <4>1, <4>2, Types DEF BeforeMemory
      <4>. QED BY <1>0, <2>1, <4>1, <4>2 DEF IdleAhead, Past
    <3>. QED BY <3>1, <3>2
  <2>. QED BY <1>4, <1>5, <1>8, <1>9, <2>2, <2>3, <2>4 DEF OneByOne
<1>. QED BY <1>10, <1>11

\* The coroutine ends without the memory learning of a row.  A disconnect's
\* baseline may have moved to the end of the row that is not in.
LEMMA GivesUpLedger ==
  ASSUME TypeInvariant, TypeInvariant', OneByOne, ~crossed, NEW s \in Slots,
         OrphanRejected(s) \/ InsertFails(s) \/ FinishFails(s)
  PROVE  OneByOne'
<1>. DEFINE row == tasks[s].row
            n == tasks[s].stored
<1>0. /\ Writing(s) /\ tasks' = [tasks EXCEPT ![s] = NoTask]
      /\ UNCHANGED <<odo, clock, up, trip, synth, finalizeAt, lastTrip, rows,
                     crossed>>
      /\ half \subseteq half' /\ (n = 0 \/ n \in half')
      /\ \/ idle' = idle
         \/ idle' = [t |-> row.end, odo |-> row.stop]
  BY DEF OrphanRejected, InsertFails, FinishFails, Fails, Writing, NoTask, NoRow,
         sensors, memory
<1>1. \A i \in DOMAIN rows : rows[i].stop <= row.stop
  BY <1>0, TheOnlyRow DEF AtTheEnd
<1>2. OneRowAtATime' /\ \A i \in DOMAIN rows : Known(i)' => Known(i)
  <2>1. OneRowAtATime'
        /\ \A i \in DOMAIN rows' : Known(i)' => Known(i) \/ i = n
    BY <1>0, FreesSlot
  <2>2. \A i \in DOMAIN rows : i # 0
    BY Types
  <2>. QED BY <1>0, <2>1, <2>2 DEF Known
<1>3. LogGrows' /\ LiveKilometresOnce'
  BY <1>0, Types
     DEF OneByOne, LogGrows, LiveKilometresOnce, Guessed, Overlap
<1>4. IdleAhead'
  <2>1. CASE idle' = idle
    BY <1>0, <1>2, <2>1 DEF OneByOne, IdleAhead, Past
  <2>2. CASE idle' = [t |-> row.end, odo |-> row.stop]
    BY <1>0, <1>1, <2>2 DEF IdleAhead, Past
  <2>. QED BY <1>0, <2>1, <2>2
<1>. QED BY <1>0, <1>2, <1>3, <1>4
         DEF OneByOne, Unloaded, LastTripAhead, TripAhead, SynthAhead, Past,
             PastMeasured

\* The entry stops with nothing suspended, but for what a crash takes.
LEMMA StopLedger ==
  ASSUME TypeInvariant, TypeInvariant', OneByOne, ~crossed',
         NEW crash \in BOOLEAN, Stop(crash)
  PROVE  OneByOne'
<1>0. /\ up' = FALSE /\ trip' = NoTrip /\ ~trip'.open /\ synth' = NoPoint
      /\ finalizeAt' = 0 /\ ~crossed /\ crossed' = crossed
      /\ UNCHANGED <<odo, clock, idle, lastTrip, rows, half>>
  BY DEF Stop, NoTrip, sensors, TypeInvariant, TypeOK
<1>1. \A s \in Slots : ~Writing(s)'
  BY DEF Stop, Idle, Writing
<1>2. LogGrows' /\ LiveKilometresOnce'
  BY <1>0, Types, SameLog
<1>. QED BY <1>0, <1>1, <1>2
         DEF OneByOne, OneRowAtATime, Unloaded, LastTripAhead, TripAhead,
             SynthAhead, IdleAhead

\* The last row of the log is the newest one, and ends furthest.
LEMMA LastIsNewest ==
  ASSUME TypeInvariant, OneByOne
  PROVE  NewestRow = LastRow
         /\ \A i \in DOMAIN rows : rows[i].stop <= LastRow.stop
                                   /\ LastRow.end <= clock
<1>. DEFINE Newest(i) == \A j \in DOMAIN rows :
                            \/ rows[j].end < rows[i].end
                            \/ rows[j].end = rows[i].end /\ j <= i
            n == Len(rows)
<1>1. CASE rows = <<>>
  BY <1>1 DEF NewestRow, LastRow
<1>2. CASE rows # <<>>
  <2>1. n \in DOMAIN rows /\ LastRow = rows[n]
    BY <1>2, Types DEF LastRow
  <2>2. \A j \in DOMAIN rows :
          j <= n /\ rows[j].end <= rows[n].end /\ rows[j].stop <= rows[n].stop
    <3>1. \A j \in DOMAIN rows : j <= n /\ (j = n \/ j < n)
      BY Types
    <3>. QED BY <2>1, <3>1, Types DEF OneByOne, LogGrows
  <2>0. \A j \in DOMAIN rows : j \in Nat /\ rows[j].end \in Nat
    BY Types
  <2>3. Newest(n)
    BY <2>1, <2>2, <2>0
  <2>4. ASSUME NEW i \in DOMAIN rows, Newest(i) PROVE i = n
    <3>1. i <= n /\ rows[i].end <= rows[n].end
      BY <2>2
    <3>2. rows[n].end < rows[i].end \/ n <= i
      BY <2>1, <2>4
    <3>. QED BY <2>1, <2>0, <3>1, <3>2
  <2>5. (CHOOSE i \in DOMAIN rows : Newest(i)) = n
    BY <2>1, <2>3, <2>4
  <2>6. NewestRow = rows[n]
    BY <1>2, <2>5 DEF NewestRow
  <2>7. rows[n].end <= clock
    BY <2>1 DEF OneByOne, LogGrows
  <2>. QED BY <2>1, <2>2, <2>6, <2>7
<1>. QED BY <1>1, <1>2

\* The entry starts again where the log ends.
LEMMA StartLedger ==
  ASSUME TypeInvariant, TypeInvariant', OneByOne, Start PROVE OneByOne'
<1>0. /\ ~up /\ up' = TRUE /\ lastTrip' = LastRow
      /\ idle' = IF LastRow = NoRow THEN NoPoint
                 ELSE [t |-> LastRow.end, odo |-> LastRow.stop]
      /\ UNCHANGED <<odo, clock, trip, synth, finalizeAt, tasks, rows, half,
                     crossed>>
  BY LastIsNewest DEF Start, NoneStarts, sensors
<1>1. /\ ~trip.open /\ synth = NoPoint /\ \A s \in Slots : ~Writing(s)
  BY <1>0 DEF OneByOne, Unloaded, OneRowAtATime
<1>2. LogGrows' /\ LiveKilometresOnce'
  BY <1>0, Types
     DEF OneByOne, LogGrows, LiveKilometresOnce, Guessed, Overlap
<1>3. OneRowAtATime'
  BY <1>0, <1>1 DEF OneRowAtATime, Writing
<1>4. \A i \in DOMAIN rows : rows[i].stop <= LastRow.stop /\ LastRow.end <= clock
  BY LastIsNewest
<1>5. LastTripAhead'
  <2>1. LastRow.end <= clock
    <3>1. CASE rows = <<>>
      BY <3>1, Types DEF LastRow, NoRow
    <3>2. CASE rows # <<>>
      <4>1. Len(rows) \in DOMAIN rows
        BY <3>2, Types
      <4>. QED BY <1>4, <4>1
    <3>. QED BY <3>1, <3>2
  <2>. QED BY <1>0, <1>4, <2>1 DEF LastTripAhead, Past
<1>6. IdleAhead'
  <2>1. idle' # NoPoint => idle'.odo = LastRow.stop
    BY <1>0
  <2>. QED BY <1>0, <1>4, <2>1 DEF IdleAhead, Past
<1>. QED BY <1>0, <1>1, <1>2, <1>3, <1>5, <1>6
         DEF OneByOne, Unloaded, TripAhead, SynthAhead

\* A step that crosses nothing comes from a state where nothing crossed.
LEMMA NeverUncrosses ==
  ASSUME TypeInvariant, [Next]_vars, crossed PROVE crossed'
<1>1. CASE CheckOdoJump \/ NoneStarts \/ \E row : Suspend(row)
  BY <1>1
     DEF CheckOdoJump, ResetsBaseline, RecordsDisconnect, RefreshesStamp,
         ArmsFinalize, NoneStarts, Suspend
<1>2. CASE Sensors
  BY <1>1, <1>2
     DEF Sensors, OdometerReports, BatteryReports, OdometerDropsOut,
         VehicleReports
<1>3. CASE Tick \/ Start
  BY <1>1, <1>3 DEF Tick, Start
<1>4. CASE Finalize
  BY <1>1, <1>4 DEF Finalize
<1>5. CASE Trips
  BY <1>1, <1>5 DEF Trips, TripOpens, TripDiscarded, TripCloses
<1>6. CASE Tasks
  BY <1>6 DEF Tasks, Insert, Finish, OrphanRejected, InsertFails, FinishFails, Fails
<1>7. CASE \E crash \in BOOLEAN : Stop(crash)
  BY <1>7 DEF Stop
<1>8. CASE UNCHANGED vars
  BY <1>8 DEF vars
<1>. QED BY <1>2, <1>3, <1>4, <1>5, <1>6, <1>7, <1>8 DEF Next

LEMMA NextLedger ==
  ASSUME LedgerInvariant, [Next]_vars PROVE LedgerInvariant'
<1>0. TypeInvariant /\ TypeInvariant'
  BY NextType DEF LedgerInvariant
<1>. SUFFICES ASSUME ~crossed' PROVE OneByOne'
  BY <1>0 DEF LedgerInvariant
<1>1. ~crossed /\ OneByOne
  BY <1>0, NeverUncrosses DEF LedgerInvariant
<1>2. CASE UNCHANGED vars
  BY <1>1, <1>2
     DEF OneByOne, LogGrows, LiveKilometresOnce, Guessed, Overlap,
         OneRowAtATime, AtTheEnd, BeforeMemory, Writing, Unloaded, LastTripAhead,
         TripAhead, SynthAhead, IdleAhead, LastRow, Past, PastMeasured, Known,
         vars, sensors, memory, counters
<1>3. CASE Trips
  BY <1>0, <1>1, <1>3, OpensLedger, DiscardLedger, ClosesLedger DEF Trips
<1>4. CASE Tasks
  BY <1>0, <1>1, <1>4, InsertLedger, FinishLedger, GivesUpLedger DEF Tasks
<1>5. CASE \E crash \in BOOLEAN : Stop(crash)
  BY <1>0, <1>1, <1>5, StopLedger
<1>6. CASE Sensors \/ Tick
  BY <1>0, <1>1, <1>6, SensorsLedger, TickLedger
<1>7. CASE Finalize \/ Start
  BY <1>0, <1>1, <1>7, FinalizeLedger, StartLedger
<1>. QED BY <1>2, <1>3, <1>4, <1>5, <1>6, <1>7 DEF Next

\* The kilometres of a live trip, and those an opening trip finds missing, are
\* in no other row of the log up to the moment two rows are in the making at
\* once, rows left half written apart: whatever fails, crashes or restarts.
THEOREM LedgerLiveKilometresOnce ==
  Spec => []LiveKilometresOnce
<1>1. LedgerInvariant => LiveKilometresOnce
  BY DEF LedgerInvariant, OneByOne, LiveKilometresOnce
<1>. QED BY <1>1, InitLedger, NextLedger, PTL DEF Spec

\* Under the same conditions the idle baseline of a parked car is at or past
\* the end of every row, after a restart too.
THEOREM LedgerBaselineAhead ==
  Spec => []BaselineAhead
<1>1. LedgerInvariant => BaselineAhead
  <2>. SUFFICES ASSUME LedgerInvariant, ~crossed, Idle, up, idle # NoPoint,
                       ~trip.open, NEW i \in DOMAIN rows \ half
                PROVE  rows[i].stop <= idle.odo
    BY DEF BaselineAhead
  <2>1. Past(idle.odo) /\ TypeInvariant
    BY DEF LedgerInvariant, OneByOne, IdleAhead
  <2>2. i # 0 /\ \A s \in Slots : tasks[s].stored = 0
    BY <2>1, Types DEF Idle, NoTask
  <2>. QED BY <2>1, <2>2 DEF Past, Known
<1>. QED BY <1>1, InitLedger, NextLedger, PTL DEF Spec
=============================================================================
