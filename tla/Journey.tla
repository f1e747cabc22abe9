------------------------------- MODULE Journey -------------------------------
(***************************************************************************)
(* Journeys: which trips of the log belong together from one departure     *)
(* from home to the next arrival.  current_journey_id lives in memory and  *)
(* is derived again from the log after a restart and after set_trip.       *)
(*                                                                         *)
(* A coroutine that writes a row decides its journey, may mint an id       *)
(* (MAX + 1, an await), inserts the row, absorbs earlier rows and updates  *)
(* the journey in memory, with a suspension between any two of these.      *)
(* Trips are only their two ends: home, or anywhere else.  What the        *)
(* tracker says of either end may be wrong, so both are free.              *)
(*                                                                         *)
(* disturbed tells when memory and log may differ: the log was rewritten   *)
(* without deriving the journey from it, a coroutine started while another *)
(* was suspended, or a drive was logged behind newer ones.  Deriving the   *)
(* journey again, when nothing else is suspended, clears it.               *)
(***************************************************************************)
EXTENDS Integers, Sequences, FiniteSets

CONSTANTS
  Slots,     \* suspended coroutines the loop can hold
  MaxRows,   \* bound: rows ever written
  MaxEdits,  \* bound: services that rewrite the log
  MaxCrashes,  \* bound: restarts
  MaxFailures,  \* bound: inserts ended by a database error
  Edits      \* services that rewrite the log

ASSUME JourneyAssumption ==
  /\ IsFiniteSet(Slots)
  /\ MaxRows \in Nat /\ MaxEdits \in Nat /\ MaxCrashes \in Nat
  /\ MaxFailures \in Nat

VARIABLES
  driving,    \* self.current is not None
  rows,       \* the trips table: the row with id i is rows[i]
  current,    \* self.current_journey_id, 0 for None
  completed,  \* self.last_completed_journey_id, 0 for None
  lastTrip,   \* self.last_trip: its id and its destination
  tasks,      \* suspended coroutines
  up,         \* the entry is loaded
  disturbed,  \* what the journey in memory was derived from no longer holds
  edits, crashes, failures   \* bookkeeping of the model

memory == <<driving, current, completed, lastTrip>>
counters == <<edits, crashes, failures>>
vars == <<driving, rows, current, completed, lastTrip, tasks, up, disturbed,
          counters>>
-----------------------------------------------------------------------------
Writers == {"live", "synth", "orphan", "manual"}
Services == {"set", "delete", "purge", "recover"}

NoTask == [kind |-> "none", pc |-> "idle", fromHome |-> FALSE, toHome |-> FALSE,
           old |-> FALSE, stitched |-> FALSE, journey |-> 0, row |-> 0]
NoTrip == [row |-> 0, home |-> FALSE]

\* old: the row ended before every row that is not old (a drive logged late).
Row == [home : BOOLEAN, journey : 0..MaxRows, old : BOOLEAN, gone : BOOLEAN]
Task == [kind : Writers \cup {"late", "none"} \cup Services,
         pc : {"idle", "decide", "mint", "insert", "absorb", "amend", "finish"},
         fromHome : BOOLEAN, toHome : BOOLEAN,
         old : BOOLEAN, stitched : BOOLEAN,
         journey : 0..MaxRows, row : 0..MaxRows]

TypeOK ==
  /\ driving \in BOOLEAN
  /\ rows \in Seq(Row) /\ Len(rows) <= MaxRows
  /\ current \in 0..MaxRows /\ completed \in 0..MaxRows
  /\ lastTrip \in [row : 0..MaxRows, home : BOOLEAN]
  /\ tasks \in [Slots -> Task]
  /\ up \in BOOLEAN /\ disturbed \in BOOLEAN
  /\ edits \in 0..MaxEdits /\ crashes \in 0..MaxCrashes
  /\ failures \in 0..MaxFailures

Init ==
  /\ driving = FALSE /\ rows = <<>>
  /\ current = 0 /\ completed = 0 /\ lastTrip = NoTrip
  /\ tasks = [s \in Slots |-> NoTask]
  /\ up = TRUE /\ disturbed = FALSE
  /\ edits = 0 /\ crashes = 0 /\ failures = 0
-----------------------------------------------------------------------------
(***************************************************************************)
(* The queries of the log.                                                 *)
(***************************************************************************)
Ids == {i \in DOMAIN rows : ~rows[i].gone}
Latest(S) == IF S = {} THEN 0 ELSE CHOOSE i \in S : \A j \in S : j <= i

\* By time: old rows come first, rows alike by id.
NewestOf(S) ==
  LET recent == {i \in S : ~rows[i].old}
  IN  IF recent # {} THEN Latest(recent) ELSE Latest(S)

JourneyOf(i) == IF i = 0 THEN 0 ELSE rows[i].journey

LastHome == Latest({i \in Ids : rows[i].home})

\* _resolve_open_journey_id.
OpenInLog == JourneyOf(Latest({i \in Ids : rows[i].journey # 0 /\ i > LastHome}))

\* _last_completed_journey_id.  (Mutant: the open journey is not left out.)
NewestJourneyInLog(open) ==
  JourneyOf(NewestOf({i \in Ids : rows[i].journey # 0}))
CompletedInLog(open) ==
  JourneyOf(NewestOf({i \in Ids : rows[i].journey \notin {0, open}}))

\* _get_last.
LastInLog ==
  LET i == NewestOf(Ids) IN [row |-> i, home |-> i # 0 /\ rows[i].home]

\* _next_journey_id.  (Mutant: an id is skipped.)
SkippingId == 2 + Latest({rows[i].journey : i \in Ids})
NextId == 1 + Latest({rows[i].journey : i \in Ids})
-----------------------------------------------------------------------------
(***************************************************************************)
(* Coroutines start.                                                       *)
(***************************************************************************)
Settled == \A s \in Slots : tasks[s] = NoTask

Crowded ==
  \E s, r \in Slots : s # r /\ tasks[s] # NoTask /\ tasks[r] # NoTask

Starts(task) ==
  /\ \E s \in Slots : tasks[s] = NoTask /\ tasks' = [tasks EXCEPT ![s] = task]
  /\ disturbed' = (disturbed \/ ~Settled)

Room == Len(rows) + Cardinality({s \in Slots : tasks[s] # NoTask}) < MaxRows

StartsWriter(kind, fromHome, toHome, old) ==
  /\ up /\ Room
  /\ Starts([NoTask EXCEPT !.kind = kind, !.pc = "decide", !.old = old,
                           !.fromHome = fromHome, !.toHome = toHome])
  /\ UNCHANGED <<driving, rows, current, completed, lastTrip, up, counters>>

Closing == \E s \in Slots : tasks[s].kind = "live"

TripOpens ==
  /\ up /\ ~driving
  /\ driving' = TRUE
  /\ UNCHANGED <<rows, current, completed, lastTrip, tasks, up, disturbed,
                 counters>>

\* _async_close_trip: a trip under the minimum leaves no row.
TripDiscarded ==
  /\ up /\ driving /\ ~Closing
  /\ driving' = FALSE
  /\ UNCHANGED <<rows, current, completed, lastTrip, tasks, up, disturbed,
                 counters>>

TripCloses(fromHome, toHome) ==
  driving /\ ~Closing /\ StartsWriter("live", fromHome, toHome, FALSE)

SynthStarts(fromHome, toHome) ==
  ~driving /\ StartsWriter("synth", fromHome, toHome, FALSE)

\* An orphan, and a disconnect orphan, starts where the last trip ended.
OrphanStarts(toHome) == StartsWriter("orphan", lastTrip.home, toHome, FALSE)

ManualStarts(fromHome, toHome, old) ==
  /\ old => "backfill" \in Edits
  /\ StartsWriter("manual", fromHome, toHome, old)

\* _async_handle_late_zone_arrival, when there is a destination to amend.
LateArrival(toHome) ==
  /\ up /\ ~driving
  /\ lastTrip.row # 0 /\ lastTrip.home # toHome
  /\ Starts([NoTask EXCEPT !.kind = "late", !.pc = "amend",
                           !.toHome = toHome, !.row = lastTrip.row])
  /\ UNCHANGED <<driving, rows, current, completed, lastTrip, up, counters>>

ServiceCalled(kind) ==
  /\ up /\ Ids # {}
  /\ kind \in Edits /\ edits < MaxEdits
  /\ kind = "recover" => Room
  /\ edits' = edits + 1
  /\ Starts([NoTask EXCEPT !.kind = kind, !.pc = "amend"])
  /\ UNCHANGED <<driving, rows, current, completed, lastTrip, up, crashes,
                 failures>>
-----------------------------------------------------------------------------
(***************************************************************************)
(* A coroutine that writes a row.                                          *)
(***************************************************************************)
\* With no journey open, a departure from home begins one; so does an arrival
\* whose departure was missed, but not for a synthetic trip.
Mints(t) == t.fromHome \/ (t.toHome /\ t.kind # "synth")

\* (Mutant: where the trip started is asked before whether a journey is open.)
DecideFromHomeFirst(s) ==
  LET t == tasks[s]
  IN  /\ t.pc = "decide"
      /\ tasks' = [tasks EXCEPT
                     ![s].journey = current,
                     ![s].pc = IF Mints(t) THEN "mint" ELSE "insert"]
      /\ UNCHANGED <<driving, rows, current, completed, lastTrip, up, disturbed,
                     counters>>
Decide(s) ==
  LET t == tasks[s]
  IN  /\ t.pc = "decide"
      /\ tasks' = [tasks EXCEPT
                     ![s].journey = current,
                     ![s].pc = IF current = 0 /\ Mints(t) THEN "mint" ELSE "insert"]
      /\ UNCHANGED <<driving, rows, current, completed, lastTrip, up, disturbed,
                     counters>>

\* Only live and manual trips absorb the rows before a missed departure.
Mint(s) ==
  /\ tasks[s].pc = "mint"
  /\ tasks' = [tasks EXCEPT
                 ![s].journey = NextId,
                 ![s].stitched = ~tasks[s].fromHome /\ tasks[s].kind # "orphan",
                 ![s].pc = "insert"]
  /\ UNCHANGED <<driving, rows, current, completed, lastTrip, up, disturbed,
                 counters>>

Insert(s) ==
  /\ tasks[s].pc = "insert"
  /\ rows' = Append(rows, [home |-> tasks[s].toHome, journey |-> tasks[s].journey,
                           old |-> tasks[s].old, gone |-> FALSE])
  /\ tasks' = [tasks EXCEPT
                 ![s].row = Len(rows) + 1,
                 ![s].pc = IF tasks[s].stitched THEN "absorb" ELSE "finish"]
  /\ disturbed' = (disturbed \/ tasks[s].old)
  /\ UNCHANGED <<driving, current, completed, lastTrip, up, counters>>

\* _absorb_orphans_into_journey: what lies between the arrival before a journey
\* and the journey.
Absorb(s) ==
  LET j == tasks[s].journey
      mine == {i \in Ids : rows[i].journey = j}
      first == IF mine = {} THEN 0 ELSE CHOOSE i \in mine : \A k \in mine : i <= k
      anchor == Latest({i \in Ids : rows[i].home /\ i < first})
  IN  /\ tasks[s].pc = "absorb"
      /\ rows' = [i \in DOMAIN rows |->
                    IF i \in Ids /\ rows[i].journey = 0 /\ anchor < i /\ i < first
                      THEN [rows[i] EXCEPT !.journey = j] ELSE rows[i]]
      /\ tasks' = [tasks EXCEPT ![s].pc = "finish"]
      /\ UNCHANGED <<driving, current, completed, lastTrip, up, disturbed,
                     counters>>

\* The journey in memory follows the row.  (Mutant: an arrival home that began
\* its own journey leaves it open.)
FollowsRowOpen(t) ==
  IF t.toHome /\ t.journey = current
    THEN completed' = t.journey /\ current' = 0
    ELSE completed' = completed /\ current' = t.journey
FollowsRow(t) ==
  IF t.toHome /\ t.journey # 0
    THEN completed' = t.journey /\ current' = 0
    ELSE completed' = completed /\ current' = t.journey

\* _adopt_last_trip, for all but live trips.
Adopts(t) ==
  lastTrip' = IF t.old /\ lastTrip.row # 0 /\ ~rows[lastTrip.row].old
                THEN lastTrip
                ELSE [row |-> t.row, home |-> t.toHome]

FinishWriter(s) ==
  /\ tasks[s].pc = "finish" /\ tasks[s].kind \in Writers
  /\ FollowsRow(tasks[s]) /\ Adopts(tasks[s])
  /\ driving' = (driving /\ tasks[s].kind # "live")
  /\ tasks' = [tasks EXCEPT ![s] = NoTask]
  /\ UNCHANGED <<rows, up, disturbed, counters>>

\* A database error ends the coroutine: before the insert there is no row,
\* after it the journey in memory does not follow.
WriterFails(s) ==
  /\ tasks[s].kind \in Writers /\ tasks[s].pc # "decide"
  /\ failures < MaxFailures
  /\ failures' = failures + 1
  /\ disturbed' = (disturbed \/ tasks[s].pc \in {"absorb", "finish"})
  /\ tasks' = [tasks EXCEPT ![s] = NoTask]
  /\ UNCHANGED <<driving, rows, current, completed, lastTrip, up, edits, crashes>>
-----------------------------------------------------------------------------
(***************************************************************************)
(* Late arrivals.                                                          *)
(***************************************************************************)
AmendLate(s) ==
  /\ tasks[s].kind = "late" /\ tasks[s].pc = "amend"
  /\ rows' = [rows EXCEPT ![tasks[s].row].home = tasks[s].toHome]
  /\ tasks' = [tasks EXCEPT ![s].pc = "finish"]
  /\ disturbed' = (disturbed \/ ~tasks[s].toHome)
  /\ UNCHANGED <<driving, current, completed, lastTrip, up, counters>>

FinishLate(s) ==
  /\ tasks[s].kind = "late" /\ tasks[s].pc = "finish"
  /\ lastTrip' = [lastTrip EXCEPT !.home = tasks[s].toHome]
  /\ IF tasks[s].toHome /\ current # 0
       THEN completed' = current /\ current' = 0
       ELSE UNCHANGED <<completed, current>>
  /\ tasks' = [tasks EXCEPT ![s] = NoTask]
  /\ UNCHANGED <<driving, rows, up, disturbed, counters>>
-----------------------------------------------------------------------------
(***************************************************************************)
(* Services that rewrite the log.                                          *)
(***************************************************************************)
Earlier(i, j) == IF rows[i].old = rows[j].old THEN i <= j ELSE rows[i].old

Rewrites(s, kind) ==
  /\ tasks[s].kind = kind /\ tasks[s].pc = "amend"
  /\ tasks' = [tasks EXCEPT ![s].pc = "finish"]
  /\ disturbed' = TRUE
  /\ UNCHANGED <<driving, current, completed, lastTrip, up, counters>>

Sets(s) ==
  /\ Rewrites(s, "set")
  /\ \E i \in Ids :
       \/ rows' = [rows EXCEPT ![i].home = ~rows[i].home]
       \/ \E k \in Ids : /\ rows[k].journey # 0
                          /\ rows' = [rows EXCEPT ![i].journey = rows[k].journey]

\* _delete_last takes the highest id, not the newest row.
Deletes(s) ==
  /\ Rewrites(s, "delete")
  /\ rows' = IF Ids = {} THEN rows ELSE [rows EXCEPT ![Latest(Ids)].gone = TRUE]

Purges(s) ==
  /\ Rewrites(s, "purge")
  /\ \E from, to \in Ids :
       rows' = [i \in DOMAIN rows |->
                 IF i \in Ids /\ Earlier(from, i) /\ Earlier(i, to)
                   THEN [rows[i] EXCEPT !.gone = TRUE] ELSE rows[i]]

\* A recovered drive has no journey.
Recovers(s) ==
  /\ Rewrites(s, "recover")
  /\ \E home, old \in BOOLEAN :
       rows' = Append(rows, [home |-> home, journey |-> 0, old |-> old,
                             gone |-> FALSE])

\* What is derived again from the log: by set_trip and at start everything, by
\* the others less.
DerivesJourney ==
  /\ current' = OpenInLog
  /\ completed' = CompletedInLog(OpenInLog)
  /\ lastTrip' = LastInLog
  /\ disturbed' = (Crowded \/ \E i \in Ids : rows[i].old)

DropsGhost ==
  /\ lastTrip' = LastInLog
  /\ current' = IF LastInLog.row = 0 \/ JourneyOf(LastInLog.row) # current
                  THEN 0 ELSE current
  /\ completed' = CompletedInLog(current')
  /\ UNCHANGED disturbed

RefreshesLast ==
  /\ lastTrip' = LastInLog
  /\ UNCHANGED <<current, completed, disturbed>>

FinishService(s) ==
  /\ tasks[s].pc = "finish"
  /\ \/ tasks[s].kind = "set" /\ DerivesJourney
     \/ tasks[s].kind = "purge" /\ DropsGhost
     \/ tasks[s].kind \in {"delete", "recover"} /\ RefreshesLast
  /\ tasks' = [tasks EXCEPT ![s] = NoTask]
  /\ UNCHANGED <<driving, rows, up, counters>>
-----------------------------------------------------------------------------
Crash ==
  /\ up /\ crashes < MaxCrashes
  /\ crashes' = crashes + 1
  /\ up' = FALSE /\ driving' = FALSE
  /\ tasks' = [s \in Slots |-> NoTask]
  /\ UNCHANGED <<rows, current, completed, lastTrip, disturbed, edits, failures>>

\* async_start.
Start ==
  /\ ~up
  /\ up' = TRUE
  /\ DerivesJourney
  /\ UNCHANGED <<driving, rows, tasks, counters>>

Begin ==
  \/ TripOpens \/ TripDiscarded
  \/ \E fromHome, toHome \in BOOLEAN :
       \/ TripCloses(fromHome, toHome) \/ SynthStarts(fromHome, toHome)
       \/ \E old \in BOOLEAN : ManualStarts(fromHome, toHome, old)
  \/ \E toHome \in BOOLEAN : OrphanStarts(toHome) \/ LateArrival(toHome)
  \/ \E kind \in Services : ServiceCalled(kind)

Resume ==
  \E s \in Slots :
    \/ Decide(s) \/ Mint(s) \/ Insert(s) \/ Absorb(s) \/ FinishWriter(s)
    \/ WriterFails(s) \/ AmendLate(s) \/ FinishLate(s)
    \/ Sets(s) \/ Deletes(s) \/ Purges(s) \/ Recovers(s) \/ FinishService(s)

Next == Begin \/ Resume \/ Crash \/ Start

Spec == Init /\ [][Next]_vars
-----------------------------------------------------------------------------
\* A restart (_resolve_open_journey_id) finds the journey the coordinator had
\* open, and opens none that was not, unless the log was rewritten behind it,
\* coroutines overlapped or a drive was logged behind newer ones.
ResumeFindsJourney ==
  up /\ Settled /\ ~disturbed => current = OpenInLog

\* last_completed_journey_id, which the sensors show, is not the journey under
\* way, whichever of arrivals, late arrivals, services and restarts set it.
CompletedIsOver ==
  up /\ Settled /\ ~disturbed /\ completed # 0 => completed # current

\* A reload never loses the open journey while the car is away: what
\* _resolve_open_journey_id would answer now is the journey under way.
ReloadKeepsJourney ==
  up /\ Settled /\ current # 0 /\ ~lastTrip.home => OpenInLog = current

\* The log keeps the contract of journeys: at most one is open, an arrival home
\* ends it and an ended one is never continued, across crashes of coroutines
\* between the row and the journey in memory.
Ended == {rows[i].journey : i \in Ids} \ {0, OpenInLog}
Contract ==
  INSTANCE JourneyContract WITH
    Journeys <- 1..MaxRows, open <- OpenInLog, ended <- Ended
FulfilsContract == [][disturbed' \/ Contract!Next]_<<OpenInLog, Ended>>
=============================================================================
