----------------------------- MODULE ChargeLog -----------------------------
(***************************************************************************)
(* The charge log: what becomes of a charge session once it ends, and the  *)
(* services that edit the log beside it.                                   *)
(*                                                                         *)
(* A session that ends is merged into the previous row, written as a row   *)
(* of its own, or discarded because the user logged it by hand.  The       *)
(* decision is taken on self.last_charge, the coordinator's copy of the    *)
(* newest row, and carried out on the database one or two suspensions      *)
(* later.  Every database call is one step and the code that runs when it  *)
(* returns is another, so the copy and the log may part in between.        *)
(*                                                                         *)
(* Time is in steps of which DedupWindow make the two hours of the         *)
(* time-based dedup, and no database call takes one; the battery is in     *)
(* notches of more than 1 %, so a session counts from one notch on and a   *)
(* fall is one notch.  An unloaded coordinator whose coroutines still run  *)
(* keeps its own memory: gen is the coordinator now loaded, and memory is  *)
(* indexed by it.  What the plug sensor reads and what the recorder        *)
(* answers about it is arbitrary.                                          *)
(***************************************************************************)
EXTENDS Integers, FiniteSets

CONSTANTS
  Slots,        \* suspended coroutines the loop can hold
  MaxTime,      \* bound: the clock
  MaxSoc,       \* the battery's top notch
  MaxSessions,  \* bound: sessions opened
  MaxCalls,     \* bound: services called
  MaxFaults,    \* bound: coroutines ended by a database error, reloads
                \* and crashes of the entry
  DedupWindow,  \* the 7200 s of _async_close_auto_charge
  Corrections,  \* what the user may enter with set_charge
  HasPlug,      \* CONF_PLUG_SENSOR is configured
  HasEvse,      \* CONF_EVSE_POWER_SENSOR is configured
  Services      \* the charge services the user may call

Unknown == -1
Same == -2      \* a field of set_charge that the user leaves alone

\* The fields of set_charge the log depends on.  None can be emptied.
Correction == [start : Nat \cup {Same}, end : Nat \cup {Same},
               socEnd : Nat \cup {Same}]

ASSUME ConstantsAssumption ==
  /\ MaxTime \in Nat /\ MaxSoc \in Nat /\ MaxSessions \in Nat
  /\ MaxCalls \in Nat
  /\ MaxFaults \in Nat
  /\ DedupWindow \in Nat
  /\ Corrections \subseteq Correction
  /\ HasPlug \in BOOLEAN /\ HasEvse \in BOOLEAN
  /\ Services \subseteq {"log", "price", "price_by_id", "set", "delete",
                         "backfill"}

VARIABLES
  \* the car and the clock
  now, soc,
  \* the coordinators
  gen,          \* the coordinator now loaded
  session,      \* its self.current_charge
  lastCharge,   \* self.last_charge of every coordinator
  pending,      \* self._pending_evse_backfills: timers armed
  tasks,        \* suspended coroutines
  \* the database
  rows, nextId, \* the charges table and its AUTOINCREMENT counter
  \* bookkeeping of the model
  sessions,     \* sessions opened so far
  gone,         \* sessions that ended without a row, or with a row deleted
  disturbed,    \* coroutines overlapped, or the user moved a row in the log
                \* or named an old one
  calls, failures

car == <<now, soc>>
database == <<rows, nextId>>
counters == <<sessions, gone, calls, failures>>
vars == <<car, gen, session, lastCharge, pending, tasks, database, counters,
          disturbed>>
-----------------------------------------------------------------------------
Gens == 0..MaxFaults

\* A ChargeRecord as the coordinator holds it.
NoCopy == [id |-> 0, start |-> Unknown, end |-> 0, socEnd |-> 0]
Copy == [id : Nat, start : Nat \cup {Unknown}, end : Nat, socEnd : Nat]

\* A row of the charges table: energy is the sessions whose kWh it holds.
Row == [copy : Copy, energy : SUBSET Nat, evse : BOOLEAN]

NoSession == [id |-> 0, start |-> 0, soc |-> 0]
SessionRecord == [id : Nat, start : Nat, soc : Nat]

\* The session a close has taken out of self.current_charge.
NoPulse == [of |-> 0, start |-> 0, soc |-> 0, at |-> 0, socEnd |-> 0,
            dropped |-> FALSE, evse |-> FALSE]
Pulse == [of : Nat, start : Nat, soc : Nat, at : Nat, socEnd : Nat,
          dropped : BOOLEAN, evse : BOOLEAN]

\* row is the row a coroutine names by id, copy the record it carries, arm
\* whether it schedules an EVSE backfill when it is through.
NoTask == [kind |-> "none", pc |-> "done", gen |-> 0, pulse |-> NoPulse,
           row |-> 0, copy |-> NoCopy, arm |-> FALSE]
Kinds == {"none", "close", "log", "price", "set", "delete", "backfill"}
Steps == {"done", "plug", "extend", "insert", "replay", "price", "patch",
          "delete", "refresh", "read", "adopt"}
Task == [kind : Kinds, pc : Steps, gen : Gens, pulse : Pulse, row : Nat,
         copy : Copy, arm : BOOLEAN]
Timer == [row : Nat, gen : Gens, of : Nat]

TypeOK ==
  /\ now \in Nat /\ soc \in Nat
  /\ gen \in Gens /\ session \in SessionRecord
  /\ lastCharge \in [Gens -> Copy]
  /\ pending \subseteq Timer
  /\ tasks \in [Slots -> Task]
  /\ rows \subseteq Row /\ nextId \in Nat \ {0}
  /\ sessions \in Nat /\ gone \subseteq Nat
  /\ disturbed \in BOOLEAN /\ calls \in Nat /\ failures \in Nat

Init ==
  /\ now = 0 /\ soc = 0
  /\ gen = 0 /\ session = NoSession
  /\ lastCharge = [g \in Gens |-> NoCopy]
  /\ pending = {}
  /\ tasks = [s \in Slots |-> NoTask]
  /\ rows = {} /\ nextId = 1
  /\ sessions = 0 /\ gone = {}
  /\ disturbed = FALSE /\ calls = 0 /\ failures = 0
-----------------------------------------------------------------------------
\* ORDER BY ended_at DESC, id DESC LIMIT 1, with the table given.
IsNewest(r, table) ==
  /\ r \in table
  /\ \A q \in table : \/ q.copy.end < r.copy.end
                      \/ q.copy.end = r.copy.end /\ q.copy.id <= r.copy.id
Newest(table) == CHOOSE r \in table : IsNewest(r, table)

\* _get_last_charge.
LastChargeIn(table) == IF table = {} THEN NoCopy ELSE Newest(table).copy
RowsOf(id) == {r \in rows : r.copy.id = id}

\* The coroutine in slot s waits for a database call that decides something.
Busy(s) == tasks[s].kind # "none" /\ tasks[s].pc # "replay"

Suspend(task) ==
  \E s \in Slots : /\ tasks[s] = NoTask
                   /\ tasks' = [tasks EXCEPT ![s] = task]
                   /\ disturbed' = (disturbed \/ \E q \in Slots : Busy(q))
Goes(s, task) == tasks' = [tasks EXCEPT ![s] = task]
Ends(s) == Goes(s, NoTask)
-----------------------------------------------------------------------------
\* What the sensors and the recorder may say: the plug is in, the wallbox
\* delivered power during the session, its history still holds some.
PlugReadings == IF HasPlug THEN BOOLEAN ELSE {FALSE}
EvseReadings == IF HasEvse THEN BOOLEAN ELSE {FALSE}
EvseHistory == BOOLEAN

\* async_log_charge_service up to its insert.  The row ends now, whenever
\* the session did, and with the battery as it reads now.  (Mutant: it ends
\* a step early.)
NewCopyEarly(start, reading) ==
  [id |-> 0, start |-> start, end |-> now - 1, socEnd |-> reading]
NewCopy(start, reading) ==
  [id |-> 0, start |-> start, end |-> now, socEnd |-> reading]

(***************************************************************************)
(* What a close does with its pulse: canMerge when the plug is in and the  *)
(* recorder shows it never left since the last charge.  Without that       *)
(* proof, a last charge that began less than two hours ago (ended, when    *)
(* its start is not known) takes the pulse in, unless the battery fell in  *)
(* between; one that overlaps the pulse is the same session, logged by     *)
(* hand.  (Mutant: the dedup throws every such pulse away, as it did       *)
(* before v0.8.17.)                                                        *)
(***************************************************************************)
Began(last) == IF last.start = Unknown THEN last.end ELSE last.start
Overlaps(last, pulse) == last.start = Unknown \/ last.end > pulse.start
Recent(last, pulse) == last # NoCopy /\ pulse.at - Began(last) < DedupWindow

OutcomeDiscardsRecent(last, pulse, canMerge) ==
  CASE canMerge -> "extend"
    [] ~canMerge /\ ~Recent(last, pulse) -> "insert"
    [] ~canMerge /\ Recent(last, pulse) -> "discard"
OutcomeIgnoresFall(last, pulse, canMerge) ==
  CASE canMerge -> "extend"
    [] ~canMerge /\ ~Recent(last, pulse) -> "insert"
    [] ~canMerge /\ Recent(last, pulse) /\ Overlaps(last, pulse) -> "discard"
    [] ~canMerge /\ Recent(last, pulse) /\ ~Overlaps(last, pulse) -> "extend"
Outcome(last, pulse, canMerge) ==
  CASE canMerge -> "extend"
    [] ~canMerge /\ ~Recent(last, pulse) -> "insert"
    [] ~canMerge /\ Recent(last, pulse) /\ Overlaps(last, pulse) -> "discard"
    [] ~canMerge /\ Recent(last, pulse) /\ ~Overlaps(last, pulse) ->
         IF pulse.dropped THEN "insert" ELSE "extend"

\* The task that carries the outcome out.
Carries(g, pulse, outcome, reading) ==
  [NoTask EXCEPT !.kind = "close", !.gen = g, !.pulse = pulse,
                 !.pc = outcome,
                 !.copy = IF outcome = "insert"
                            THEN NewCopy(pulse.start, reading)
                            ELSE NoCopy]

\* soc_dropped_since_last.
Dropped(last, socStart) == last # NoCopy /\ socStart < last.socEnd

(***************************************************************************)
(* _async_close_auto_charge up to its first suspension, with the battery   *)
(* risen to socEnd.  A session of less than a notch is discarded.          *)
(***************************************************************************)
SessionEnds ==
  /\ session # NoSession
  /\ session' = NoSession
  /\ \E socEnd \in soc..MaxSoc, evse \in EvseReadings, plugged \in PlugReadings :
       LET last == lastCharge[gen]
           pulse == [of |-> session.id, start |-> session.start,
                     soc |-> session.soc, at |-> now, socEnd |-> socEnd,
                     dropped |-> Dropped(last, session.soc), evse |-> evse]
           asks == plugged /\ last # NoCopy /\ ~pulse.dropped
           outcome == Outcome(last, pulse, FALSE)
       IN /\ soc' = socEnd
          /\ IF socEnd = session.soc \/ (~asks /\ outcome = "discard")
               THEN /\ gone' = gone \cup {session.id}
                    /\ UNCHANGED <<tasks, disturbed>>
               ELSE /\ Suspend(IF asks
                                 THEN Carries(gen, pulse, "plug", socEnd)
                                 ELSE Carries(gen, pulse, outcome, socEnd))
                    /\ UNCHANGED gone
  /\ UNCHANGED <<now, gen, lastCharge, pending, database, sessions, calls,
                 failures>>

(***************************************************************************)
(* _async_plug_stayed_connected_since, asked about the ended_at the copy   *)
(* had: FALSE when the recorder cannot answer.  The rest of the decision   *)
(* reads self.last_charge again, but not whether the battery had fallen.   *)
(***************************************************************************)
PlugAnswers(s) ==
  LET t == tasks[s]
      last == lastCharge[t.gen]
  IN /\ t.pc = "plug"
     /\ \E stayed \in BOOLEAN :
          LET outcome == Outcome(last, t.pulse, stayed)
          IN IF outcome = "discard"
               THEN Ends(s) /\ gone' = gone \cup {t.pulse.of}
               ELSE /\ Goes(s, Carries(t.gen, t.pulse, outcome, soc))
                    /\ UNCHANGED gone
     /\ UNCHANGED <<car, gen, session, lastCharge, pending, database,
                    sessions, disturbed, calls, failures>>

(***************************************************************************)
(* _extend_last_charge: the pulse's energy goes to the row that is the     *)
(* newest now.  With no row left the close inserts one.  (Mutant: it gives *)
(* up.)                                                                    *)
(***************************************************************************)
Extended(r, pulse) ==
  [r EXCEPT !.energy = @ \cup {pulse.of}, !.evse = @ \/ pulse.evse,
            !.copy.end = pulse.at, !.copy.socEnd = pulse.socEnd]

NothingToExtendEnds(t) == NoTask
NothingToExtend(t) == Carries(t.gen, t.pulse, "insert", soc)

Extend(s) ==
  LET t == tasks[s]
      r == Newest(rows)
      merged == Extended(r, t.pulse)
  IN /\ t.pc = "extend"
     /\ IF rows = {}
          THEN Goes(s, NothingToExtend(t)) /\ UNCHANGED rows
          ELSE /\ rows' = (rows \ {r}) \cup {merged}
               /\ Goes(s, [t EXCEPT !.pc = "adopt", !.row = r.copy.id,
                                    !.copy = merged.copy,
                                    !.arm = HasEvse /\ ~merged.evse])
     /\ UNCHANGED <<car, gen, session, lastCharge, pending, nextId, counters,
                    disturbed>>

(***************************************************************************)
(* _insert_charge.  atHome: the car charges at home, or has no tracker.    *)
(* (Mutant: the id is the smallest one free, as without AUTOINCREMENT.)    *)
(***************************************************************************)
ReusedId == 1 + Cardinality(rows)
FreshId == nextId

Insert(s) ==
  LET t == tasks[s]
      copy == [t.copy EXCEPT !.id = FreshId]
  IN /\ t.pc = "insert"
     /\ rows' = rows \cup {[copy |-> copy,
                            energy |-> IF t.kind = "close" THEN {t.pulse.of}
                                                           ELSE {},
                            evse |-> t.pulse.evse]}
     /\ nextId' = FreshId + 1
     /\ \E atHome \in BOOLEAN :
          Goes(s, [t EXCEPT !.pc = "adopt", !.copy = copy,
                            !.arm = /\ HasEvse /\ t.kind = "close" /\ atHome
                                    /\ ~t.pulse.evse])
     /\ UNCHANGED <<car, gen, session, lastCharge, pending, counters,
                    disturbed>>

\* The call returns: the record becomes self.last_charge.  set_charge reads
\* the newest row instead when the row it patched is not the one held, and an
\* EVSE backfill leaves another row alone.  A close that schedules a backfill
\* does so after the replay of the trip costs.
Adopt(s) ==
  LET t == tasks[s]
      keeps == lastCharge[t.gen].id # t.row
  IN /\ t.pc = "adopt"
     /\ lastCharge' = IF t.kind \in {"set", "backfill"} /\ keeps
                        THEN lastCharge
                        ELSE [lastCharge EXCEPT ![t.gen] = t.copy]
     /\ CASE t.arm -> Goes(s, [t EXCEPT !.pc = "replay"])
          [] t.kind = "set" /\ keeps -> Goes(s, [t EXCEPT !.pc = "refresh"])
          [] OTHER -> Ends(s)
     /\ UNCHANGED <<car, gen, session, pending, database, counters, disturbed>>

\* _schedule_evse_backfill: one timer per row, the later one replaces the
\* earlier.
Arms(t) == {b \in pending : b.row # t.copy.id \/ b.gen # t.gen}
             \cup {[row |-> t.copy.id, gen |-> t.gen, of |-> t.pulse.of]}

\* The replay of the trip costs is over.
Replayed(s) ==
  LET t == tasks[s]
  IN /\ t.pc = "replay"
     /\ pending' = Arms(t)
     /\ Ends(s)
     /\ UNCHANGED <<car, gen, session, lastCharge, database, counters,
                    disturbed>>
-----------------------------------------------------------------------------
(***************************************************************************)
(* The services.  Each runs to its first database call at once.            *)
(***************************************************************************)
Call(service, task) ==
  /\ service \in Services /\ calls < MaxCalls
  /\ calls' = calls + 1
  /\ Suspend([task EXCEPT !.gen = gen])
  /\ UNCHANGED <<car, gen, session, lastCharge, pending, database, sessions,
                 gone, failures>>

Ids == 1..nextId - 1

LogCharge ==
  Call("log", [NoTask EXCEPT !.kind = "log", !.pc = "insert",
                             !.copy = NewCopy(Unknown, soc)])
SetLastChargePrice ==
  Call("price", [NoTask EXCEPT !.kind = "price", !.pc = "price"])
SetChargePriceById ==
  \E id \in Ids :
    Call("price_by_id",
         [NoTask EXCEPT !.kind = "price", !.pc = "price", !.row = id])
SetCharge ==
  \E id \in Ids :
    Call("set", [NoTask EXCEPT !.kind = "set", !.pc = "patch", !.row = id])
DeleteLastCharge ==
  Call("delete", [NoTask EXCEPT !.kind = "delete", !.pc = "delete"])
BackfillChargeEvse ==
  \E id \in Ids :
    Call("backfill",
         [NoTask EXCEPT !.kind = "backfill", !.pc = "read", !.row = id])

\* The timer of _schedule_evse_backfill fires.
EvseBackfillFires ==
  \E b \in pending :
    /\ pending' = pending \ {b}
    /\ Suspend([NoTask EXCEPT !.kind = "backfill", !.pc = "read",
                              !.gen = b.gen, !.row = b.row,
                              !.pulse.of = b.of])
    /\ UNCHANGED <<car, gen, session, lastCharge, database, counters>>

\* The row set_last_charge_price updates: the newest, or the one the user
\* named.  The price is not modelled, the row that is returned is.
UpdateLastCharge == {r \in rows : IsNewest(r, rows)}
UpdateChargeById(id) == RowsOf(id)

Price(s) ==
  LET t == tasks[s]
      targets == IF t.row = 0 THEN UpdateLastCharge ELSE UpdateChargeById(t.row)
  IN /\ t.pc = "price"
     /\ \/ targets = {} /\ Ends(s) /\ UNCHANGED disturbed
        \/ \E r \in targets :
             /\ Goes(s, [t EXCEPT !.pc = "adopt", !.copy = r.copy])
             /\ disturbed' = (disturbed \/ ~IsNewest(r, rows))
     /\ UNCHANGED <<car, gen, session, lastCharge, pending, database, counters>>

\* _patch_charge, for set_charge (the fields entered, whatever they are: an
\* end after now is taken too) and for the backfill (the AC energy).  A
\* set_charge that names nothing to correct ends.
Entered(field, old) == IF field = Same THEN old ELSE field
Edited(copy, edit) ==
  [id |-> copy.id, start |-> Entered(edit.start, copy.start),
   end |-> Entered(edit.end, copy.end),
   socEnd |-> Entered(edit.socEnd, copy.socEnd)]
Patched(r, t) ==
  IF t.kind = "set" THEN {[r EXCEPT !.copy = Edited(r.copy, edit)] :
                            edit \in Corrections}
                    ELSE {[r EXCEPT !.evse = TRUE]}

\* The user has moved a row: the coordinator keeps the row it holds although
\* it is no longer the newest, or a row ends after now and will stay the
\* newest when others are added.
Moves(r, g, table) ==
  \/ r.copy.id = lastCharge[g].id /\ ~IsNewest(r, table)
  \/ r.copy.end > now

Patch(s) ==
  LET t == tasks[s]
  IN /\ t.pc = "patch"
     /\ \/ /\ RowsOf(t.row) = {} \/ t.kind = "set"
           /\ Ends(s) /\ UNCHANGED <<rows, disturbed>>
        \/ \E r \in RowsOf(t.row) : \E p \in Patched(r, t) :
             /\ rows' = (rows \ {r}) \cup {p}
             /\ Goes(s, [t EXCEPT !.pc = "adopt", !.copy = p.copy])
             /\ disturbed' = (disturbed \/ (t.kind = "set" /\ Moves(p, t.gen, rows')))
     /\ UNCHANGED <<car, gen, session, lastCharge, pending, nextId, counters>>

\* The backfill reads the row, then the recorder: it stops at a row that is
\* gone, that log_charge left without a start, or without power samples.
Read(s) ==
  LET t == tasks[s]
      timed == \E r \in RowsOf(t.row) : r.copy.start # Unknown
  IN /\ t.pc = "read"
     /\ \E powered \in EvseHistory :
          IF timed /\ powered THEN Goes(s, [t EXCEPT !.pc = "patch"]) ELSE Ends(s)
     /\ UNCHANGED <<car, gen, session, lastCharge, pending, database, counters,
                    disturbed>>

\* _delete_last_charge, and the read of the row that is then the last.
\* (Mutant: the read is left out.)
DeletedKeepsCopy(s) == Ends(s)
Deleted(s) == Goes(s, [tasks[s] EXCEPT !.pc = "refresh"])

Delete(s) ==
  /\ tasks[s].pc = "delete"
  /\ IF rows = {}
       THEN Ends(s) /\ UNCHANGED <<rows, gone>>
       ELSE /\ rows' = rows \ {Newest(rows)}
            /\ gone' = gone \cup Newest(rows).energy
            /\ Deleted(s)
  /\ UNCHANGED <<car, gen, session, lastCharge, pending, nextId, sessions,
                 calls, failures, disturbed>>

Refresh(s) ==
  /\ tasks[s].pc = "refresh"
  /\ Goes(s, [tasks[s] EXCEPT !.kind = "delete", !.pc = "adopt",
                              !.copy = LastChargeIn(rows)])
  /\ UNCHANGED <<car, gen, session, lastCharge, pending, database, counters,
                 disturbed>>
-----------------------------------------------------------------------------
\* The coroutine in slot s holds a session that is in no row yet.
Holds(s) == tasks[s].kind = "close" /\ tasks[s].pc \in {"plug", "extend", "insert"}
Held == {tasks[s].pulse.of : s \in {q \in Slots : Holds(q)}}

\* A database call raises.  The replay after a merge is guarded, the one
\* after an insert is not.
TaskFails(s) ==
  LET t == tasks[s]
  IN /\ failures + gen < MaxFaults
     /\ t.pc \in {"extend", "insert", "replay", "price", "patch", "delete",
                  "refresh", "read"}
     /\ t.pc = "replay" => t.row = 0
     /\ failures' = failures + 1
     /\ gone' = IF Holds(s) THEN gone \cup {t.pulse.of} ELSE gone
     /\ disturbed' = (disturbed \/ t.pc = "refresh")
     /\ Ends(s)
     /\ UNCHANGED <<car, gen, session, lastCharge, pending, database, sessions,
                    calls>>

(***************************************************************************)
(* The entry is unloaded and set up again (async_stop, async_start): the   *)
(* new coordinator reads the last charge from the log and resumes a charge *)
(* the sensor shows.  Its predecessor's coroutines go on, its timers are   *)
(* cancelled.                                                              *)
(***************************************************************************)
Seed == LastChargeIn(rows)

\* Sessions a crash takes from the coroutines that held them.
Cut == Held \ {tasks'[s].pulse.of : s \in Slots}

Resumes ==
  \/ /\ session' = NoSession
     /\ gone' = gone \cup ({session.id} \ {0}) \cup Cut
  \/ /\ session # NoSession
     /\ \E start \in {session.start, now} :
          session' = [session EXCEPT !.start = start]
     /\ gone' = gone \cup Cut

Restarts ==
  /\ failures + gen < MaxFaults
  /\ gen' = gen + 1
  /\ lastCharge' = [lastCharge EXCEPT ![gen + 1] = Seed]
  /\ Resumes
  /\ disturbed' = \/ \E s \in Slots : tasks'[s].kind # "none"
                                       /\ tasks'[s].pc # "replay"
                  \/ \E r \in rows : r.copy.end > now
  /\ UNCHANGED <<car, database, sessions, calls, failures>>

Reload ==
  /\ tasks' = tasks
  /\ pending' = {b \in pending : b.gen # gen}
  /\ Restarts

Crash ==
  /\ tasks' = [s \in Slots |-> NoTask]
  /\ pending' = {}
  /\ Restarts
-----------------------------------------------------------------------------
Tick ==
  /\ now < MaxTime
  /\ \A s \in Slots : tasks[s] = NoTask
  /\ now' = now + 1
  /\ UNCHANGED <<soc, gen, session, lastCharge, pending,
                 tasks, database, counters, disturbed>>

Drive ==
  /\ session = NoSession /\ soc > 0
  /\ soc' = soc - 1
  /\ UNCHANGED <<now, gen, session, lastCharge, pending,
                 tasks, database, counters, disturbed>>

\* The charge sensor reads charging (TripLifecycle says when that opens a
\* session).
SessionOpens ==
  /\ session = NoSession /\ sessions < MaxSessions
  /\ sessions' = sessions + 1
  /\ session' = [id |-> sessions + 1, start |-> now, soc |-> soc]
  /\ UNCHANGED <<car, gen, lastCharge, pending, tasks, database, gone,
                 disturbed, calls, failures>>

Next ==
  \/ Tick \/ Drive \/ SessionOpens \/ SessionEnds
  \/ LogCharge \/ SetLastChargePrice \/ SetChargePriceById \/ SetCharge
  \/ DeleteLastCharge \/ BackfillChargeEvse \/ EvseBackfillFires
  \/ Reload \/ Crash
  \/ \E s \in Slots :
       \/ PlugAnswers(s) \/ Extend(s) \/ Insert(s) \/ Adopt(s) \/ Replayed(s)
       \/ Price(s) \/ Patch(s) \/ Read(s) \/ Delete(s) \/ Refresh(s)
       \/ TaskFails(s)

Spec == Init /\ [][Next]_vars
-----------------------------------------------------------------------------
Booked == UNION {r.energy : r \in rows}

\* The energy of a session is accounted for exactly once: it is being
\* measured, held by one coroutine that has not written it, in one row, or
\* given up (discarded, deleted with its row, lost to an error or a crash).
\* Closing takes a session out of memory before it knows what becomes of it
\* (_async_close_auto_charge, _extend_last_charge, _insert_charge).
OneRowEach ==
  \A r1, r2 \in rows : r1 # r2 => r1.energy \cap r2.energy = {}
OneHolderEach ==
  \A s1, s2 \in Slots :
    Holds(s1) /\ Holds(s2) /\ s1 # s2 => tasks[s1].pulse.of # tasks[s2].pulse.of
EnergyBookedOnce ==
  /\ OneRowEach /\ OneHolderEach
  /\ Held \cap Booked = {} /\ Booked \cap gone = {} /\ gone \cap Held = {}
  /\ session.id \notin Held \cup Booked \cup gone
  /\ 1..sessions \subseteq {session.id} \cup Held \cup Booked \cup gone

\* self.last_charge, which decides what the next session becomes and anchors
\* the next trip's SoC, is the newest row of the log whenever no coroutine is
\* between the log and the copy: after merges, inserts, hand-logged charges,
\* deletions, restarts, and corrections of any row's start, end or SoC.  Two
\* services break it, and then disturbed is set: set_last_charge_price by id
\* makes an older row the copy, and set_charge keeps the copy of a row whose
\* end it moved behind another's (async_set_charge_service), or puts an end
\* after now, so that the rows added later are not the newest.
LastChargeIsNewest ==
  (~disturbed /\ \A s \in Slots : ~Busy(s)) =>
    lastCharge[gen] = LastChargeIn(rows)

\* A deferred EVSE backfill writes the meter's figure to the row of the
\* session it was scheduled for, if that row still exists: it knows the row
\* only by its id, while rows are merged and deleted under it.
BackfillsOwnRow ==
  /\ \A b \in pending : \A r \in RowsOf(b.row) : b.of \in r.energy
  /\ \A s \in Slots :
       tasks[s].kind = "backfill" /\ tasks[s].pulse.of # 0 =>
         \A r \in RowsOf(tasks[s].row) : tasks[s].pulse.of \in r.energy

\* A row is one charging session: a pulse is merged only into a row that the
\* battery has not fallen below since ("the car was driven, so this is
\* unambiguously a new session", coordinator.py:4182).  The fall is measured
\* on the copy and the merge is carried out on the newest row, so this holds
\* while the two are one row: not once disturbed is set.
MergesIntoSameSession ==
  \A s \in Slots : tasks[s].pc = "extend" /\ tasks'[s].pc = "adopt" =>
    Newest(rows).copy.socEnd <= tasks[s].pulse.soc
MergesOneSession == [][~disturbed => MergesIntoSameSession]_vars

\* A session that gained a notch is thrown away only for a row that is in the
\* log, began (or, hand-logged, ended) less than two hours before, and whose
\* window covers the session's start: the decision is taken on the copy.  (A
\* session that ends while another coroutine is between the log and the copy
\* may be discarded for a row that a delete has just removed.)
Covers(r, pulse) == Recent(r.copy, pulse) /\ Overlaps(r.copy, pulse)
DiscardsPulse(s) == tasks[s].pc = "plug" /\ tasks'[s] = NoTask /\ gen' = gen
DiscardsSession ==
  session # NoSession /\ session.id \in gone' /\ soc' > session.soc /\ gen' = gen
DiscardsOnlyCovered ==
  [][~disturbed =>
       /\ \A s \in Slots :
            DiscardsPulse(s) => \E r \in rows : Covers(r, tasks[s].pulse)
       /\ DiscardsSession /\ (\A s \in Slots : ~Busy(s)) =>
            \E r \in rows : Covers(r, [start |-> session.start, at |-> now])]_vars
=============================================================================
