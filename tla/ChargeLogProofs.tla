-------------------------- MODULE ChargeLogProofs --------------------------
(***************************************************************************)
(* Theorems about ChargeLog, for every value of its constants.             *)
(***************************************************************************)
EXTENDS ChargeLog, WellFoundedInduction, TLAPS

-----------------------------------------------------------------------------
(***************************************************************************)
(* The newest row.  No row of the log ends after some latest time, though  *)
(* set_charge may put that after now, and ids stay below nextId.  So the   *)
(* latest row is the one that ends the shortest time before it, and the    *)
(* newest of those that end then is the one closest to nextId.             *)
(***************************************************************************)
EndsBy(table, latest) == \A r \in table : r.copy.end <= latest
Bounded(table, limit) ==
  /\ \A r \in table : r.copy.id < limit
  /\ \E latest \in Nat : EndsBy(table, latest)

LEMMA LeastNat ==
  ASSUME NEW T, T \subseteq Nat, T # {}
  PROVE  \E x \in T : \A y \in T : x <= y
<1>. DEFINE Less == OpToRel(<, Nat)
<1>1. \A x, y \in Nat : x < y => <<x, y>> \in Less
  BY DEF OpToRel
<1>2. IsWellFoundedOn(Less, Nat)
  BY NatLessThanWellFounded
<1>. HIDE DEF Less
<1>3. PICK x \in T : \A y \in T : ~(<<y, x>> \in Less)
  BY <1>2, WFMin
<1>4. ASSUME NEW y \in T PROVE x <= y
  <2>1. ~(y < x)
    BY <1>1, <1>3
  <2>. QED BY <2>1
<1>. QED BY <1>4

LEMMA NewestExists ==
  ASSUME NEW table, table \subseteq Row, table # {}, Bounded(table, nextId),
         nextId \in Nat
  PROVE  Newest(table) \in table /\ IsNewest(Newest(table), table)
<1>. PICK latest \in Nat : EndsBy(table, latest)
  BY DEF Bounded
<1>0. \A r \in table :
        /\ r.copy.end \in Nat /\ r.copy.id \in Nat
        /\ latest - r.copy.end \in Nat /\ nextId - r.copy.id \in Nat
  BY DEF Row, Copy, Bounded, EndsBy
<1>. DEFINE Ages == {latest - r.copy.end : r \in table}
<1>1. PICK age \in Ages : \A a \in Ages : age <= a
  BY <1>0, LeastNat
<1>. DEFINE Latest == {r \in table : latest - r.copy.end = age}
            Gaps == {nextId - r.copy.id : r \in Latest}
<1>2. Gaps \subseteq Nat /\ Gaps # {}
  BY <1>0, <1>1
<1>3. PICK gap \in Gaps : \A g \in Gaps : gap <= g
  BY <1>2, LeastNat
<1>4. PICK r \in Latest : nextId - r.copy.id = gap
  BY <1>3
<1>5. ASSUME NEW q \in table
      PROVE  \/ q.copy.end < r.copy.end
             \/ q.copy.end = r.copy.end /\ q.copy.id <= r.copy.id
  <2>1. age <= latest - q.copy.end
    BY <1>1
  <2>2. CASE q \in Latest
    <3>1. gap <= nextId - q.copy.id
      BY <1>3, <2>2
    <3>. QED BY <1>0, <1>4, <2>2, <3>1
  <2>3. CASE q \notin Latest
    <3>1. r \in table /\ age = latest - r.copy.end /\ latest - q.copy.end # age
      BY <2>3
    <3>2. q.copy.end \in Int /\ r.copy.end \in Int /\ latest \in Int
      BY <1>0, <3>1
    <3>. HIDE DEF Latest, Ages, Gaps
    <3>. QED BY <2>1, <3>1, <3>2
  <2>. QED BY <2>2, <2>3
<1>6. IsNewest(r, table)
  BY <1>4, <1>5 DEF IsNewest
<1>. QED BY <1>6 DEF Newest, IsNewest
-----------------------------------------------------------------------------
(***************************************************************************)
(* Type correctness.  It is not inductive alone: the newest row is a row   *)
(* only because the ends of the rows and their ids are bounded.            *)
(***************************************************************************)
TypeInvariant == TypeOK /\ Bounded(rows, nextId)

\* A row more, or one in place of another.
LEMMA BoundedGrows ==
  ASSUME NEW table, table \subseteq Row, NEW limit \in Nat,
         Bounded(table, limit), NEW r \in Row, NEW further \in Nat,
         r.copy.id < further, limit <= further, NEW rest, rest \subseteq table
  PROVE  Bounded(rest \cup {r}, further)
<1>1. PICK latest \in Nat : EndsBy(table, latest)
  BY DEF Bounded
<1>2. \A q \in table \cup {r} : q.copy.end \in Nat /\ q.copy.id \in Nat
  BY DEF Row, Copy
<1>3. EndsBy(rest \cup {r}, latest + r.copy.end) /\ latest + r.copy.end \in Nat
  BY <1>1, <1>2 DEF EndsBy
<1>4. \A q \in rest \cup {r} : q.copy.id < further
  BY <1>2 DEF Bounded
<1>. QED BY <1>3, <1>4 DEF Bounded

LEMMA EmptyTypes ==
  /\ NoCopy \in Copy /\ NoSession \in SessionRecord /\ NoPulse \in Pulse
  /\ NoTask \in Task
BY ConstantsAssumption
   DEF NoCopy, NoSession, NoPulse, NoTask, Copy, SessionRecord, Pulse, Task,
       Kinds, Steps, Gens, Unknown

LEMMA LastChargeInType ==
  ASSUME TypeInvariant
  PROVE  LastChargeIn(rows) \in Copy
<1>1. CASE rows = {}
  BY <1>1, EmptyTypes DEF LastChargeIn, NoCopy, TypeInvariant, TypeOK
<1>2. CASE rows # {}
  <2>1. Newest(rows) \in rows
    BY <1>2, NewestExists DEF TypeInvariant, TypeOK
  <2>. QED BY <1>2, <2>1 DEF LastChargeIn, TypeInvariant, TypeOK, Bounded, Row
<1>. QED BY <1>1, <1>2

\* Setting one slot.
LEMMA GoesType ==
  ASSUME TypeInvariant, NEW s \in Slots, NEW task \in Task,
         tasks' = [tasks EXCEPT ![s] = task]
  PROVE  tasks' \in [Slots -> Task]
BY DEF TypeInvariant, TypeOK

LEMMA SuspendType ==
  ASSUME TypeInvariant, NEW task \in Task, Suspend(task)
  PROVE  tasks' \in [Slots -> Task] /\ disturbed' \in BOOLEAN
<1>1. PICK s \in Slots : tasks' = [tasks EXCEPT ![s] = task]
  BY DEF Suspend
<1>2. disturbed' \in BOOLEAN
  BY DEF Suspend, TypeInvariant, TypeOK
<1>. QED BY <1>1, <1>2, GoesType

\* A step that leaves the rows alone.
LEMMA SameRows ==
  ASSUME TypeInvariant, UNCHANGED <<rows, nextId>>, TypeOK'
  PROVE  TypeInvariant'
BY DEF TypeInvariant, Bounded, EndsBy

LEMMA InitType == ASSUME Init PROVE TypeInvariant
<1>1. 0 \in Gens
  BY ConstantsAssumption DEF Gens
<1>2. lastCharge \in [Gens -> Copy] /\ tasks \in [Slots -> Task]
  BY EmptyTypes DEF Init
<1>3. TypeOK
  <2>1. disturbed \in BOOLEAN
    BY DEF Init
  <2>2. session \in SessionRecord /\ nextId \in Nat \ {0}
    BY EmptyTypes DEF Init
  <2>3. /\ now \in Nat /\ soc \in Nat /\ sessions \in Nat
        /\ calls \in Nat /\ failures \in Nat
    BY DEF Init
  <2>4. pending \subseteq Timer /\ rows \subseteq Row /\ gone \subseteq Nat
    BY DEF Init
  <2>. QED BY <1>1, <1>2, <2>1, <2>2, <2>3, <2>4 DEF Init, TypeOK
<1>. QED BY <1>3 DEF Init, TypeInvariant, Bounded, EndsBy

LEMMA CarriesType ==
  ASSUME TypeInvariant, NEW g \in Gens, NEW pulse \in Pulse,
         NEW outcome \in {"extend", "insert", "plug"}, NEW reading \in Nat
  PROVE  Carries(g, pulse, outcome, reading) \in Task
<1>1. NewCopy(pulse.start, reading) \in Copy /\ NoCopy \in Copy
  BY EmptyTypes DEF NewCopy, Copy, Pulse, TypeInvariant, TypeOK, NoCopy
<1>. DEFINE copy == IF outcome = "insert" THEN NewCopy(pulse.start, reading)
                                          ELSE NoCopy
<1>2. copy \in Copy
  BY <1>1
<1>3. Carries(g, pulse, outcome, reading) =
        [kind |-> "close", pc |-> outcome, gen |-> g, pulse |-> pulse,
         row |-> 0, copy |-> copy, arm |-> FALSE]
  <2>1. Carries(g, pulse, outcome, reading) =
          [NoTask EXCEPT !.kind = "close", !.gen = g, !.pulse = pulse,
                         !.pc = outcome, !.copy = copy]
    BY DEF Carries
  <2>. HIDE DEF copy
  <2>. QED BY <2>1 DEF NoTask
<1>. HIDE DEF copy
<1>. QED BY <1>2, <1>3 DEF Task, Kinds, Steps

LEMMA OutcomeType ==
  ASSUME NEW last, NEW pulse \in Pulse, NEW canMerge \in BOOLEAN
  PROVE  Outcome(last, pulse, canMerge) \in {"extend", "insert", "discard"}
<1>1. Recent(last, pulse) \in BOOLEAN /\ Overlaps(last, pulse) \in BOOLEAN
      /\ pulse.dropped \in BOOLEAN
  BY DEF Recent, Overlaps, Pulse
<1>. QED BY <1>1 DEF Outcome

LEMMA SessionEndsType ==
  ASSUME TypeInvariant, SessionEnds PROVE TypeInvariant'
<1>. PICK socEnd \in soc..MaxSoc, evse \in EvseReadings, plugged \in PlugReadings :
       LET last == lastCharge[gen]
           pulse == [of |-> session.id, start |-> session.start,
                     soc |-> session.soc, at |-> now, socEnd |-> socEnd,
                     dropped |-> Dropped(last, session.soc), evse |-> evse]
           asks == plugged /\ last # NoCopy /\ ~pulse.dropped
           outcome == Outcome(last, pulse, FALSE)
       IN /\ soc' = socEnd
          /\ IF socEnd = session.soc \/ (~asks /\ outcome = "discard")
               THEN /\ gone' = gone \cup {session.id}
                    /\ UNCHANGED <<tasks, disturbed>>
               ELSE /\ Suspend(IF asks
                                 THEN Carries(gen, pulse, "plug", socEnd)
                                 ELSE Carries(gen, pulse, outcome, socEnd))
                    /\ UNCHANGED gone
  BY DEF SessionEnds
<1>. DEFINE last == lastCharge[gen]
            pulse == [of |-> session.id, start |-> session.start,
                      soc |-> session.soc, at |-> now, socEnd |-> socEnd,
                      dropped |-> Dropped(last, session.soc), evse |-> evse]
            asks == plugged /\ last # NoCopy /\ ~pulse.dropped
            outcome == Outcome(last, pulse, FALSE)
            task == IF asks THEN Carries(gen, pulse, "plug", socEnd)
                            ELSE Carries(gen, pulse, outcome, socEnd)
<1>1. /\ socEnd \in Nat /\ now \in Nat /\ gen \in Gens /\ evse \in BOOLEAN
      /\ session \in SessionRecord /\ MaxSoc \in Nat
  <2>1. evse \in BOOLEAN
    BY DEF EvseReadings
  <2>2. /\ soc \in Nat /\ now \in Nat /\ gen \in Gens
        /\ session \in SessionRecord /\ MaxSoc \in Nat
    BY ConstantsAssumption DEF TypeInvariant, TypeOK
  <2>. QED BY <2>1, <2>2
<1>2. pulse \in Pulse
  BY <1>1 DEF Pulse, SessionRecord, Dropped
<1>3. outcome \in {"extend", "insert", "discard"}
  BY <1>2, OutcomeType
<1>4. /\ now' = now /\ gen' = gen /\ session' = NoSession /\ soc' \in Nat
      /\ UNCHANGED <<lastCharge, pending, database, sessions, calls, failures>>
  BY <1>1 DEF SessionEnds
<1>5. CASE /\ gone' = gone \cup {session.id} /\ UNCHANGED <<tasks, disturbed>>
  <2>1. TypeOK'
    BY <1>1, <1>4, <1>5, EmptyTypes
       DEF TypeInvariant, TypeOK, database, SessionRecord
  <2>. QED BY <1>1, <1>4, <1>5, <2>1, SameRows DEF database
<1>6. CASE /\ Suspend(task) /\ UNCHANGED gone
           /\ ~(~asks /\ outcome = "discard")
  <2>1. task \in Task
    <3>. HIDE DEF pulse, asks, outcome
    <3>1. CASE asks
      BY <1>1, <1>2, <3>1, CarriesType
    <3>2. CASE ~asks
      BY <1>1, <1>2, <1>3, <1>6, <3>2, CarriesType
    <3>. QED BY <3>1, <3>2
  <2>. HIDE DEF task
  <2>2. tasks' \in [Slots -> Task] /\ disturbed' \in BOOLEAN
    BY <1>4, <1>6, <2>1, SuspendType
  <2>. QED BY <1>4, <1>6, <2>2, EmptyTypes
           DEF TypeInvariant, TypeOK, Bounded, database
<1>. QED BY <1>5, <1>6

LEMMA TaskType ==
  ASSUME TypeInvariant, NEW s \in Slots
  PROVE  /\ tasks[s] \in Task /\ tasks[s] \in Task
         /\ tasks[s].pulse \in Pulse /\ tasks[s].gen \in Gens
         /\ tasks[s].copy \in Copy /\ tasks[s].row \in Nat
         /\ tasks[s].pulse.of \in Nat /\ tasks[s].arm \in BOOLEAN
BY DEF TypeInvariant, TypeOK, Task, Pulse

LEMMA EndsType ==
  ASSUME TypeInvariant, NEW s \in Slots, Ends(s)
  PROVE  tasks' \in [Slots -> Task]
BY EmptyTypes, GoesType DEF Ends, Goes, TypeInvariant, TypeOK

LEMMA PlugAnswersType ==
  ASSUME TypeInvariant, NEW s \in Slots, PlugAnswers(s) PROVE TypeInvariant'
<1>. DEFINE t == tasks[s]
<1>1. PICK stayed \in BOOLEAN :
        LET outcome == Outcome(lastCharge[t.gen], t.pulse, stayed)
        IN IF outcome = "discard"
             THEN Ends(s) /\ gone' = gone \cup {t.pulse.of}
             ELSE /\ Goes(s, Carries(t.gen, t.pulse, outcome, soc))
                  /\ UNCHANGED gone
  BY DEF PlugAnswers
<1>. DEFINE outcome == Outcome(lastCharge[t.gen], t.pulse, stayed)
<1>2. outcome \in {"extend", "insert", "discard"}
  BY TaskType, OutcomeType
<1>3. UNCHANGED <<car, gen, session, lastCharge, pending, database,
                  sessions, disturbed, calls, failures>>
  BY DEF PlugAnswers
<1>4. soc \in Nat
  BY DEF TypeInvariant, TypeOK
<1>5. CASE Ends(s) /\ gone' = gone \cup {t.pulse.of}
  BY <1>3, <1>5, TaskType, EndsType, SameRows
     DEF car, database, TypeInvariant, TypeOK
<1>6. CASE /\ outcome # "discard" /\ UNCHANGED gone
           /\ Goes(s, Carries(t.gen, t.pulse, outcome, soc))
  <2>1. Carries(t.gen, t.pulse, outcome, soc) \in Task
    <3>. HIDE DEF outcome
    <3>. QED BY <1>2, <1>4, <1>6, TaskType, CarriesType
  <2>2. tasks' \in [Slots -> Task]
    BY <1>3, <1>6, <2>1, GoesType DEF Goes, car
  <2>. QED BY <1>3, <1>6, <2>2, SameRows
           DEF car, database, TypeInvariant, TypeOK
<1>. QED BY <1>1, <1>5, <1>6

LEMMA ExtendType ==
  ASSUME TypeInvariant, NEW s \in Slots, Extend(s) PROVE TypeInvariant'
<1>. DEFINE t == tasks[s]
            r == Newest(rows)
            merged == Extended(r, t.pulse)
            task == [t EXCEPT !.pc = "adopt", !.row = r.copy.id,
                              !.copy = merged.copy,
                              !.arm = HasEvse /\ ~merged.evse]
<1>1. UNCHANGED <<car, gen, session, lastCharge, pending, nextId, counters,
                  disturbed>>
  BY DEF Extend
<1>2. CASE rows = {}
  <2>1. Goes(s, Carries(t.gen, t.pulse, "insert", soc)) /\ UNCHANGED rows
    BY <1>2 DEF Extend, NothingToExtend
  <2>2. Carries(t.gen, t.pulse, "insert", soc) \in Task
    BY TaskType, CarriesType DEF TypeInvariant, TypeOK
  <2>3. tasks' \in [Slots -> Task]
    BY <1>1, <2>1, <2>2, GoesType DEF Goes, car
  <2>. QED BY <1>1, <2>1, <2>3, SameRows
           DEF car, counters, TypeInvariant, TypeOK
<1>3. CASE rows # {}
  <2>1. rows' = (rows \ {r}) \cup {merged} /\ Goes(s, task)
    BY <1>3 DEF Extend
  <2>2. r \in rows /\ r \in Row /\ r.copy.id < nextId
    BY <1>3, NewestExists DEF TypeInvariant, TypeOK, Bounded
  <2>3. /\ merged \in Row /\ merged.copy.id = r.copy.id
        /\ merged.copy.end = t.pulse.at
    <3>1. t.pulse \in Pulse /\ r \in Row
      BY <2>2, TaskType
    <3>. HIDE DEF t, r
    <3>. QED BY <3>1 DEF Extended, Row, Copy, Pulse
  <2>4. task \in Task
    <3>1. merged.copy \in Copy /\ r.copy.id \in Nat /\ t \in Task
      BY <2>2, <2>3, TaskType DEF Row, Copy
    <3>2. (HasEvse /\ ~merged.evse) \in BOOLEAN
      OBVIOUS
    <3>. HIDE DEF t, r, merged
    <3>. QED BY <3>1, <3>2 DEF Task, Steps
  <2>5. tasks' \in [Slots -> Task]
    <3>. HIDE DEF task
    <3>. QED BY <1>1, <2>1, <2>4, GoesType DEF Goes, car
  <2>6. rows' \subseteq Row /\ Bounded(rows', nextId')
    <3>1. /\ merged.copy.id < nextId /\ nextId \in Nat /\ nextId' = nextId
          /\ nextId <= nextId
      BY <1>1, <2>2, <2>3 DEF TypeInvariant, TypeOK
    <3>2. rows \subseteq Row /\ Bounded(rows, nextId) /\ rows \ {r} \subseteq rows
      BY DEF TypeInvariant, TypeOK
    <3>. HIDE DEF merged, r
    <3>3. Bounded((rows \ {r}) \cup {merged}, nextId)
      BY <2>3, <3>1, <3>2, BoundedGrows
    <3>. QED BY <2>1, <2>3, <3>1, <3>2, <3>3
  <2>. QED BY <1>1, <2>5, <2>6 DEF car, counters, TypeInvariant, TypeOK
<1>. QED BY <1>2, <1>3

LEMMA InsertType ==
  ASSUME TypeInvariant, NEW s \in Slots, Insert(s) PROVE TypeInvariant'
<1>. DEFINE t == tasks[s]
            copy == [t.copy EXCEPT !.id = FreshId]
            new == [copy |-> copy,
                    energy |-> IF t.kind = "close" THEN {t.pulse.of} ELSE {},
                    evse |-> t.pulse.evse]
<1>1. PICK atHome \in BOOLEAN :
        Goes(s, [t EXCEPT !.pc = "adopt", !.copy = copy,
                          !.arm = /\ HasEvse /\ t.kind = "close" /\ atHome
                                  /\ ~t.pulse.evse])
  BY DEF Insert
<1>2. /\ rows' = rows \cup {new} /\ nextId' = nextId + 1
      /\ UNCHANGED <<car, gen, session, lastCharge, pending, counters, disturbed>>
  BY DEF Insert, FreshId
<1>3. copy \in Copy /\ copy.id = nextId
  <2>1. t.copy \in Copy /\ nextId \in Nat
    BY TaskType DEF TypeInvariant, TypeOK
  <2>. HIDE DEF t
  <2>. QED BY <2>1 DEF Copy, FreshId
<1>4. new \in Row /\ new.copy.id = nextId
  BY <1>3, TaskType DEF Row, Pulse
<1>5. [t EXCEPT !.pc = "adopt", !.copy = copy,
                !.arm = /\ HasEvse /\ t.kind = "close" /\ atHome
                        /\ ~t.pulse.evse] \in Task
  <2>1. t \in Task
    BY TaskType
  <2>. HIDE DEF t, copy
  <2>. QED BY <1>3, <2>1 DEF Task, Steps
<1>6. tasks' \in [Slots -> Task]
  BY <1>1, <1>2, <1>5, GoesType DEF Goes, car
<1>. HIDE DEF new
<1>7. rows' \subseteq Row /\ Bounded(rows', nextId') /\ nextId' \in Nat \ {0}
  <2>1. /\ rows \subseteq Row /\ Bounded(rows, nextId) /\ nextId \in Nat
        /\ nextId' \in Nat /\ nextId <= nextId' /\ new.copy.id < nextId'
    BY <1>2, <1>4 DEF TypeInvariant, TypeOK
  <2>2. Bounded(rows \cup {new}, nextId')
    BY <1>4, <2>1, BoundedGrows
  <2>. QED BY <1>2, <1>4, <2>1, <2>2
<1>. QED BY <1>2, <1>6, <1>7 DEF car, counters, TypeInvariant, TypeOK

LEMMA AdoptType ==
  ASSUME TypeInvariant, NEW s \in Slots, Adopt(s) PROVE TypeInvariant'
<1>. DEFINE t == tasks[s]
<1>1. /\ tasks[s] \in Task /\ t.gen \in Gens /\ t.copy \in Copy
      /\ lastCharge \in [Gens -> Copy]
  BY TaskType DEF TypeInvariant, TypeOK
<1>2. lastCharge' \in [Gens -> Copy]
  <2>1. lastCharge' \in {lastCharge, [lastCharge EXCEPT ![t.gen] = t.copy]}
    BY DEF Adopt
  <2>. HIDE DEF t
  <2>. QED BY <1>1, <2>1
<1>3. UNCHANGED <<car, gen, session, pending, database, counters, disturbed>>
  BY DEF Adopt
<1>4. \E task \in {NoTask, [t EXCEPT !.pc = "replay"],
                   [t EXCEPT !.pc = "refresh"]} : Goes(s, task)
  BY DEF Adopt, Ends
<1>5. PICK task \in Task : Goes(s, task)
  <2>1. [t EXCEPT !.pc = "replay"] \in Task /\ [t EXCEPT !.pc = "refresh"] \in Task
    BY <1>1 DEF Task, Steps
  <2>2. NoTask \in Task
    BY EmptyTypes DEF TypeInvariant, TypeOK
  <2>. QED BY <1>4, <2>1, <2>2
<1>6. tasks' \in [Slots -> Task]
  BY <1>3, <1>5, GoesType DEF Goes, car
<1>. QED BY <1>2, <1>3, <1>6, SameRows
         DEF car, database, counters, TypeInvariant, TypeOK

LEMMA ReplayedType ==
  ASSUME TypeInvariant, NEW s \in Slots, Replayed(s) PROVE TypeInvariant'
<1>. DEFINE t == tasks[s]
<1>1. pending' = Arms(t) /\ Ends(s)
      /\ UNCHANGED <<car, gen, session, lastCharge, database, counters, disturbed>>
  BY DEF Replayed
<1>2. Arms(t) \subseteq Timer
  <2>1. /\ t.copy.id \in Nat /\ t.gen \in Gens /\ t.pulse.of \in Nat
    BY TaskType DEF Copy
  <2>2. pending \subseteq Timer
    BY DEF TypeInvariant, TypeOK
  <2>. HIDE DEF t
  <2>. QED BY <2>1, <2>2 DEF Arms, Timer
<1>. QED BY <1>1, <1>2, EndsType, SameRows
         DEF car, database, counters, TypeInvariant, TypeOK

\* A service, and a backfill timer, suspend a task that carries no session
\* and no time.
LEMMA CallType ==
  ASSUME TypeInvariant, NEW service, NEW task,
         [task EXCEPT !.gen = gen] \in Task, Call(service, task)
  PROVE  TypeInvariant'
<1>. DEFINE started == [task EXCEPT !.gen = gen]
<1>1. /\ Suspend(started) /\ calls' = calls + 1
      /\ UNCHANGED <<car, gen, session, lastCharge, pending, database,
                     sessions, gone, failures>>
  BY DEF Call
<1>. HIDE DEF started
<1>3. tasks' \in [Slots -> Task] /\ disturbed' \in BOOLEAN
  BY <1>1, SuspendType DEF started
<1>. QED BY <1>1, <1>3, SameRows DEF car, database, TypeInvariant, TypeOK

LEMMA ServicesType ==
  ASSUME TypeInvariant,
         \/ LogCharge \/ SetLastChargePrice \/ SetChargePriceById
         \/ SetCharge \/ DeleteLastCharge \/ BackfillChargeEvse
  PROVE  TypeInvariant'
<1>1. /\ now \in Nat /\ soc \in Nat /\ gen \in Gens
      /\ \A id \in Ids : id \in Nat
  BY DEF TypeInvariant, TypeOK, Ids
<1>2. NoTask \in Task
  BY <1>1, EmptyTypes
<1>3. CASE LogCharge
  <2>1. NewCopy(Unknown, soc) \in Copy
    BY <1>1 DEF NewCopy, Copy
  <2>2. [[NoTask EXCEPT !.kind = "log", !.pc = "insert",
                        !.copy = NewCopy(Unknown, soc)]
           EXCEPT !.gen = gen] \in Task
    BY <1>1, <1>2, <2>1 DEF Task, Kinds, Steps
  <2>. QED BY <1>3, <2>2, CallType DEF LogCharge
<1>4. CASE SetLastChargePrice
  <2>1. [[NoTask EXCEPT !.kind = "price", !.pc = "price"]
           EXCEPT !.gen = gen] \in Task
    BY <1>1, <1>2 DEF Task, Kinds, Steps
  <2>. QED BY <1>4, <2>1, CallType DEF SetLastChargePrice
<1>5. CASE SetChargePriceById
  <2>1. ASSUME NEW id \in Ids
        PROVE  [[NoTask EXCEPT !.kind = "price", !.pc = "price", !.row = id]
                  EXCEPT !.gen = gen] \in Task
    BY <1>1, <1>2 DEF Task, Kinds, Steps
  <2>. QED BY <1>5, <2>1, CallType DEF SetChargePriceById
<1>6. CASE SetCharge
  <2>1. ASSUME NEW id \in Ids
        PROVE  [[NoTask EXCEPT !.kind = "set", !.pc = "patch", !.row = id]
                  EXCEPT !.gen = gen] \in Task
    BY <1>1, <1>2, ConstantsAssumption DEF Task, Kinds, Steps, Copy
  <2>. QED BY <1>6, <2>1, CallType DEF SetCharge
<1>7. CASE DeleteLastCharge
  <2>1. [[NoTask EXCEPT !.kind = "delete", !.pc = "delete"]
           EXCEPT !.gen = gen] \in Task
    BY <1>1, <1>2 DEF Task, Kinds, Steps
  <2>. QED BY <1>7, <2>1, CallType DEF DeleteLastCharge
<1>8. CASE BackfillChargeEvse
  <2>1. ASSUME NEW id \in Ids
        PROVE  [[NoTask EXCEPT !.kind = "backfill", !.pc = "read", !.row = id]
                  EXCEPT !.gen = gen] \in Task
    BY <1>1, <1>2 DEF Task, Kinds, Steps
  <2>. QED BY <1>8, <2>1, CallType DEF BackfillChargeEvse
<1>. QED BY <1>3, <1>4, <1>5, <1>6, <1>7, <1>8

LEMMA EvseBackfillFiresType ==
  ASSUME TypeInvariant, EvseBackfillFires PROVE TypeInvariant'
<1>. PICK b \in pending :
       /\ pending' = pending \ {b}
       /\ Suspend([NoTask EXCEPT !.kind = "backfill", !.pc = "read",
                                 !.gen = b.gen, !.row = b.row,
                                 !.pulse.of = b.of])
       /\ UNCHANGED <<car, gen, session, lastCharge, database, counters>>
  BY DEF EvseBackfillFires
<1>1. b.row \in Nat /\ b.gen \in Gens /\ b.of \in Nat
  BY DEF TypeInvariant, TypeOK, Timer
<1>2. [NoTask EXCEPT !.kind = "backfill", !.pc = "read", !.gen = b.gen,
                     !.row = b.row, !.pulse.of = b.of] \in Task
  <2>1. NoTask \in Task
    BY EmptyTypes DEF TypeInvariant, TypeOK
  <2>. QED BY <1>1, <2>1 DEF Task, Kinds, Steps, Pulse
<1>3. tasks' \in [Slots -> Task] /\ disturbed' \in BOOLEAN
  BY <1>2, SuspendType DEF car
<1>. QED BY <1>3, SameRows DEF car, database, counters, TypeInvariant, TypeOK

LEMMA PriceType ==
  ASSUME TypeInvariant, NEW s \in Slots, Price(s) PROVE TypeInvariant'
<1>. DEFINE t == tasks[s]
<1>1. UNCHANGED <<car, gen, session, lastCharge, pending, database, counters>>
  BY DEF Price
<1>2. CASE Ends(s) /\ UNCHANGED disturbed
  BY <1>1, <1>2, EndsType, SameRows
     DEF car, database, counters, TypeInvariant, TypeOK
<1>3. CASE \E r \in rows :
             /\ Goes(s, [t EXCEPT !.pc = "adopt", !.copy = r.copy])
             /\ disturbed' = (disturbed \/ ~IsNewest(r, rows))
  <2>1. PICK r \in rows :
          /\ Goes(s, [t EXCEPT !.pc = "adopt", !.copy = r.copy])
          /\ disturbed' = (disturbed \/ ~IsNewest(r, rows))
    BY <1>3
  <2>2. [t EXCEPT !.pc = "adopt", !.copy = r.copy] \in Task
    <3>1. t \in Task /\ r.copy \in Copy
      BY TaskType DEF TypeInvariant, TypeOK, Row, Bounded
    <3>. HIDE DEF t
    <3>. QED BY <3>1 DEF Task, Steps
  <2>3. tasks' \in [Slots -> Task]
    BY <1>1, <2>1, <2>2, GoesType DEF Goes, car
  <2>4. disturbed' \in BOOLEAN
    BY <2>1 DEF TypeInvariant, TypeOK
  <2>. QED BY <1>1, <2>3, <2>4, SameRows
           DEF car, database, counters, TypeInvariant, TypeOK
<1>. QED BY <1>2, <1>3
         DEF Price, UpdateLastCharge, UpdateChargeById, RowsOf

\* What a patch does: a row keeps its id and its energy, and a backfill leaves
\* all the copy holds.
Patches(s, r, p) ==
  LET t == tasks[s]
  IN /\ r.copy.id = t.row
     /\ p.copy.id = r.copy.id /\ p.energy = r.energy
     /\ t.kind # "set" => p.copy = r.copy
     /\ rows' = (rows \ {r}) \cup {p}
     /\ Goes(s, [t EXCEPT !.pc = "adopt", !.copy = p.copy])
     /\ disturbed' = (disturbed \/ (t.kind = "set" /\ Moves(p, t.gen, rows')))

LEMMA PatchSteps ==
  ASSUME rows \subseteq Row, NEW s \in Slots, Patch(s)
  PROVE  \/ Ends(s) /\ UNCHANGED <<rows, disturbed>>
         \/ \E r \in rows : \E p \in Row : Patches(s, r, p)
<1>. DEFINE t == tasks[s]
            Step(r, p) ==
              /\ rows' = (rows \ {r}) \cup {p}
              /\ Goes(s, [t EXCEPT !.pc = "adopt", !.copy = p.copy])
              /\ disturbed' =
                   (disturbed \/ (t.kind = "set" /\ Moves(p, t.gen, rows')))
<1>1. CASE Ends(s) /\ UNCHANGED <<rows, disturbed>>
  BY <1>1
<1>2. CASE \E r \in RowsOf(t.row) : \E p \in Patched(r, t) : Step(r, p)
  <2>1. PICK r \in RowsOf(t.row) : \E p \in Patched(r, t) : Step(r, p)
    BY <1>2
  <2>2. PICK p \in Patched(r, t) : Step(r, p)
    BY <2>1
  <2>3. r \in rows /\ r \in Row /\ r.copy.id = t.row
    BY DEF RowsOf
  <2>4. CASE t.kind = "set"
    <3>1. PICK edit \in Corrections : p = [r EXCEPT !.copy = Edited(r.copy, edit)]
      BY <2>4 DEF Patched
    <3>2. edit \in Correction /\ r.copy \in Copy
      BY <2>3, ConstantsAssumption DEF Row
    <3>3. Edited(r.copy, edit) \in Copy /\ Edited(r.copy, edit).id = r.copy.id
      BY <3>2 DEF Edited, Entered, Correction, Copy
    <3>4. p \in Row /\ p.copy.id = r.copy.id /\ p.energy = r.energy
      BY <2>3, <3>1, <3>3 DEF Row
    <3>. QED BY <2>2, <2>3, <2>4, <3>4 DEF Patches
  <2>5. CASE t.kind # "set"
    <3>1. p = [r EXCEPT !.evse = TRUE]
      BY <2>5 DEF Patched
    <3>2. p \in Row /\ p.copy = r.copy /\ p.energy = r.energy
      BY <2>3, <3>1 DEF Row
    <3>. QED BY <2>2, <2>3, <3>2 DEF Patches
  <2>. QED BY <2>4, <2>5
<1>. QED BY <1>1, <1>2 DEF Patch

LEMMA PatchType ==
  ASSUME TypeInvariant, NEW s \in Slots, Patch(s) PROVE TypeInvariant'
<1>. DEFINE t == tasks[s]
<1>1. /\ UNCHANGED <<car, gen, session, lastCharge, pending, nextId, counters>>
      /\ rows \subseteq Row
  BY DEF Patch, TypeInvariant, TypeOK
<1>2. CASE Ends(s) /\ UNCHANGED <<rows, disturbed>>
  BY <1>1, <1>2, EndsType, SameRows
     DEF car, counters, TypeInvariant, TypeOK
<1>3. CASE \E r \in rows : \E p \in Row : Patches(s, r, p)
  <2>1. PICK r \in rows : \E p \in Row : Patches(s, r, p)
    BY <1>3
  <2>2. PICK p \in Row : Patches(s, r, p)
    BY <2>1
  <2>3. /\ p.copy.id < nextId /\ nextId \in Nat /\ Bounded(rows, nextId)
        /\ rows' = (rows \ {r}) \cup {p}
    BY <2>2 DEF Patches, TypeInvariant, TypeOK, Bounded
  <2>4. [t EXCEPT !.pc = "adopt", !.copy = p.copy] \in Task
    <3>1. t \in Task /\ p.copy \in Copy
      BY TaskType DEF Row
    <3>. HIDE DEF t
    <3>. QED BY <3>1 DEF Task, Steps
  <2>5. tasks' \in [Slots -> Task]
    BY <2>2, <2>4, GoesType DEF Patches, Goes
  <2>6. Bounded((rows \ {r}) \cup {p}, nextId) /\ rows' \subseteq Row
    <3>1. nextId <= nextId /\ rows \ {r} \subseteq rows
      BY <2>3
    <3>. QED BY <1>1, <2>3, <3>1, BoundedGrows
  <2>7. Bounded(rows', nextId')
    BY <1>1, <2>3, <2>6
  <2>8. disturbed' \in BOOLEAN
    <3>1. disturbed \in BOOLEAN /\ Moves(p, t.gen, rows') \in BOOLEAN
      BY DEF TypeInvariant, TypeOK, Moves
    <3>. QED BY <2>2, <3>1 DEF Patches
  <2>. QED BY <1>1, <2>5, <2>6, <2>7, <2>8
           DEF car, counters, TypeInvariant, TypeOK
<1>. QED BY <1>1, <1>2, <1>3, PatchSteps

LEMMA ReadType ==
  ASSUME TypeInvariant, NEW s \in Slots, Read(s) PROVE TypeInvariant'
<1>1. UNCHANGED <<car, gen, session, lastCharge, pending, database, counters,
                  disturbed>>
  BY DEF Read
<1>2. Goes(s, [tasks[s] EXCEPT !.pc = "patch"]) \/ Ends(s)
  BY DEF Read
<1>3. [tasks[s] EXCEPT !.pc = "patch"] \in Task
  BY TaskType DEF Task, Steps
<1>4. tasks' \in [Slots -> Task]
  BY <1>1, <1>2, <1>3, EndsType, GoesType DEF Goes, car
<1>. QED BY <1>1, <1>4, SameRows
         DEF car, database, counters, TypeInvariant, TypeOK

LEMMA DeleteType ==
  ASSUME TypeInvariant, NEW s \in Slots, Delete(s) PROVE TypeInvariant'
<1>1. UNCHANGED <<car, gen, session, lastCharge, pending, nextId, sessions,
                  calls, failures, disturbed>>
  BY DEF Delete
<1>2. CASE rows = {} /\ Ends(s) /\ UNCHANGED <<rows, gone>>
  BY <1>1, <1>2, EndsType, SameRows DEF car, TypeInvariant, TypeOK
<1>3. CASE rows # {} /\ Deleted(s) /\ rows' = rows \ {Newest(rows)}
           /\ gone' = gone \cup Newest(rows).energy
  <2>1. [tasks[s] EXCEPT !.pc = "refresh"] \in Task
    BY TaskType DEF Task, Steps
  <2>2. tasks' \in [Slots -> Task]
    BY <1>1, <1>3, <2>1, GoesType DEF Deleted, Goes, car
  <2>3. Newest(rows).energy \subseteq Nat
    BY <1>3, NewestExists DEF TypeInvariant, TypeOK, Row
  <2>4. rows' \subseteq Row /\ Bounded(rows', nextId')
    BY <1>1, <1>3 DEF TypeInvariant, TypeOK, Bounded, EndsBy
  <2>. QED BY <1>1, <1>3, <2>2, <2>3, <2>4 DEF car, TypeInvariant, TypeOK
<1>. QED BY <1>2, <1>3 DEF Delete

LEMMA RefreshType ==
  ASSUME TypeInvariant, NEW s \in Slots, Refresh(s) PROVE TypeInvariant'
<1>1. UNCHANGED <<car, gen, session, lastCharge, pending, database, counters,
                  disturbed>>
  BY DEF Refresh
<1>2. [tasks[s] EXCEPT !.kind = "delete", !.pc = "adopt",
                       !.copy = LastChargeIn(rows)] \in Task
  BY TaskType, LastChargeInType DEF Task, Kinds, Steps
<1>3. tasks' \in [Slots -> Task]
  BY <1>1, <1>2, GoesType DEF Refresh, Goes, car
<1>. QED BY <1>1, <1>3, SameRows
         DEF car, database, counters, TypeInvariant, TypeOK

LEMMA TaskFailsType ==
  ASSUME TypeInvariant, NEW s \in Slots, TaskFails(s) PROVE TypeInvariant'
<1>1. /\ UNCHANGED <<car, gen, session, lastCharge, pending, database,
                     sessions, calls>>
      /\ failures' = failures + 1 /\ Ends(s)
      /\ gone' = gone \/ gone' = gone \cup {tasks[s].pulse.of}
  BY DEF TaskFails
<1>2. disturbed' \in BOOLEAN
  <2>1. disturbed' = (disturbed \/ tasks[s].pc = "refresh")
    BY DEF TaskFails
  <2>2. disturbed \in BOOLEAN
    BY DEF TypeInvariant, TypeOK
  <2>3. CASE tasks[s].pc = "refresh"
    BY <2>1, <2>3, Zenon
  <2>4. CASE tasks[s].pc # "refresh"
    BY <2>1, <2>2, <2>4, Zenon
  <2>. QED BY <2>3, <2>4
<1>3. gone' \subseteq Nat
  <2>1. gone \subseteq Nat /\ tasks[s].pulse.of \in Nat
    BY TaskType DEF TypeInvariant, TypeOK
  <2>. QED BY <1>1, <2>1
<1>. QED BY <1>1, <1>2, <1>3, EndsType, SameRows
         DEF car, database, TypeInvariant, TypeOK

LEMMA RestartType ==
  ASSUME TypeInvariant, Reload \/ Crash PROVE TypeInvariant'
<1>1. /\ Restarts /\ pending' \subseteq pending
      /\ tasks' = tasks \/ tasks' = [s \in Slots |-> NoTask]
  BY DEF Reload, Crash
<1>2. /\ UNCHANGED <<car, database, sessions, calls, failures>>
      /\ lastCharge' = [lastCharge EXCEPT ![gen + 1] = Seed]
      /\ gen' = gen + 1 /\ failures + gen < MaxFaults
  BY <1>1 DEF Restarts
<1>3. gen' \in Gens
  BY <1>2, ConstantsAssumption DEF Gens, TypeInvariant, TypeOK
<1>4. lastCharge' \in [Gens -> Copy]
  BY <1>2, LastChargeInType DEF Seed, TypeInvariant, TypeOK
<1>5. session' \in SessionRecord
  <2>1. \/ session' = NoSession
        \/ \E start \in {session.start, now} :
             session' = [session EXCEPT !.start = start]
    BY <1>1 DEF Restarts, Resumes
  <2>. QED BY <2>1, EmptyTypes DEF TypeInvariant, TypeOK, SessionRecord
<1>6. gone' \subseteq Nat
  <2>1. Held \subseteq Nat
    BY TaskType DEF Held
  <2>2. gone' = gone \cup ({session.id} \ {0}) \cup Cut \/ gone' = gone \cup Cut
    BY <1>1 DEF Restarts, Resumes
  <2>. QED BY <2>1, <2>2 DEF Cut, TypeInvariant, TypeOK, SessionRecord
<1>7. tasks' \in [Slots -> Task]
  BY <1>1, <1>2, EmptyTypes DEF TypeInvariant, TypeOK, car
<1>8. disturbed' \in BOOLEAN
  BY <1>1 DEF Restarts
<1>. QED BY <1>1, <1>2, <1>3, <1>4, <1>5, <1>6, <1>7, <1>8, SameRows
         DEF car, database, TypeInvariant, TypeOK

LEMMA CarType ==
  ASSUME TypeInvariant, Tick \/ Drive \/ SessionOpens PROVE TypeInvariant'
<1>1. CASE Tick
  <2>1. TypeOK'
    BY <1>1 DEF Tick, database, counters, TypeInvariant, TypeOK
  <2>. QED BY <1>1, <2>1, SameRows DEF Tick, database
<1>2. CASE Drive
  <2>1. TypeOK'
    BY <1>2 DEF Drive, database, counters, TypeInvariant, TypeOK
  <2>. QED BY <1>2, <2>1, SameRows DEF Drive, database
<1>3. CASE SessionOpens
  <2>1. TypeOK'
    BY <1>3 DEF SessionOpens, car, database, TypeInvariant, TypeOK, SessionRecord
  <2>. QED BY <1>3, <2>1, SameRows DEF SessionOpens, car, database
<1>. QED BY <1>1, <1>2, <1>3

LEMMA StutterType ==
  ASSUME TypeInvariant, UNCHANGED vars PROVE TypeInvariant'
<1>1. TypeOK'
  BY DEF vars, car, database, counters, TypeInvariant, TypeOK
<1>. QED BY <1>1, SameRows DEF vars, database

LEMMA NextType == ASSUME TypeInvariant, [Next]_vars PROVE TypeInvariant'
BY SessionEndsType, ServicesType, EvseBackfillFiresType, RestartType,
   PlugAnswersType, ExtendType, InsertType, AdoptType, ReplayedType,
   PriceType, PatchType, ReadType, DeleteType, RefreshType, TaskFailsType,
   CarType, StutterType
   DEF Next

\* Every variable of the charge log has its type, through merges, corrections,
\* deletions, reloads and crashes: the row a merge or a price goes to exists.
THEOREM ChargeLogTypes == Spec => []TypeOK
<1>1. TypeInvariant => TypeOK
  BY DEF TypeInvariant
<1>. QED BY <1>1, InitType, NextType, PTL DEF Spec
-----------------------------------------------------------------------------
(***************************************************************************)
(* Energy is booked once.  Accounts says where the sessions 1..n are: the  *)
(* one being measured, those that suspended closes hold, those in rows and *)
(* those given up.  A step moves one session from one place to the next.   *)
(***************************************************************************)
Accounts(open, held, booked, given, n) ==
  /\ open \in 0..n
  /\ held \subseteq 1..n /\ booked \subseteq 1..n /\ given \subseteq 1..n
  /\ held \cap booked = {} /\ booked \cap given = {} /\ given \cap held = {}
  /\ open \notin held \cup booked \cup given
  /\ 1..n \subseteq {open} \cup held \cup booked \cup given

LEMMA MeasuredSession ==
  ASSUME NEW open, NEW held, NEW booked, NEW given, NEW n \in Nat,
         Accounts(open, held, booked, given, n), open # 0
  PROVE  /\ Accounts(0, held \cup {open}, booked, given, n)
         /\ Accounts(0, held, booked, given \cup {open}, n)
<1>1. open \in 1..n /\ 0 \in 0..n /\ 0 \notin 1..n
  BY DEF Accounts
<1>. QED BY <1>1 DEF Accounts

EnergyInvariant ==
  /\ TypeInvariant
  /\ OneRowEach /\ OneHolderEach
  /\ Accounts(session.id, Held, Booked, gone, sessions)
  /\ session # NoSession => session.id # 0
  /\ \A s \in Slots : tasks[s].pc \in {"plug", "extend"} => tasks[s].kind = "close"

Carrying(t) == t.kind = "close" /\ t.pc \in {"plug", "extend", "insert"}
WellFormed(t) == t.pc \in {"plug", "extend"} => t.kind = "close"

LEMMA HeldIsCarried ==
  /\ Held = {tasks[s].pulse.of : s \in {q \in Slots : Carrying(tasks[q])}}
  /\ OneHolderEach =
       (\A s1, s2 \in Slots :
          Carrying(tasks[s1]) /\ Carrying(tasks[s2]) /\ s1 # s2 =>
            tasks[s1].pulse.of # tasks[s2].pulse.of)
BY DEF Held, Holds, Carrying, OneHolderEach

\* A slot goes on holding what it held, or holding nothing.
LEMMA KeepsHolding ==
  ASSUME NEW s \in Slots, NEW task, tasks \in [Slots -> Task],
         tasks' = [tasks EXCEPT ![s] = task],
         Carrying(task) <=> Carrying(tasks[s]),
         Carrying(task) => task.pulse.of = tasks[s].pulse.of,
         OneHolderEach
  PROVE  Held' = Held /\ OneHolderEach'
<1>1. \A q \in Slots :
        /\ Carrying(tasks'[q]) <=> Carrying(tasks[q])
        /\ Carrying(tasks[q]) => tasks'[q].pulse.of = tasks[q].pulse.of
  OBVIOUS
<1>2. Held' = Held
  BY <1>1 DEF Held, Holds, Carrying
<1>3. OneHolderEach'
  BY <1>1 DEF OneHolderEach, Holds, Carrying
<1>. QED BY <1>2, <1>3

\* A slot gives up what it held.
LEMMA Releases ==
  ASSUME NEW s \in Slots, NEW task, tasks \in [Slots -> Task],
         tasks' = [tasks EXCEPT ![s] = task],
         Carrying(tasks[s]), ~Carrying(task), OneHolderEach
  PROVE  Held' = Held \ {tasks[s].pulse.of} /\ OneHolderEach'
<1>1. \A q \in Slots \ {s} : tasks'[q] = tasks[q]
  OBVIOUS
<1>2. ~Carrying(tasks'[s])
  OBVIOUS
<1>3. \A q \in Slots \ {s} :
        Carrying(tasks[q]) => tasks[q].pulse.of # tasks[s].pulse.of
  BY HeldIsCarried
<1>4. Held' = Held \ {tasks[s].pulse.of}
  BY <1>1, <1>2, <1>3 DEF Held, Holds, Carrying
<1>5. OneHolderEach'
  BY <1>1, <1>2 DEF OneHolderEach, Holds, Carrying
<1>. QED BY <1>4, <1>5

\* A slot that held nothing takes a session no other slot holds.
LEMMA Takes ==
  ASSUME NEW s \in Slots, NEW task, tasks \in [Slots -> Task],
         tasks' = [tasks EXCEPT ![s] = task],
         ~Carrying(tasks[s]), Carrying(task), task.pulse.of \notin Held,
         OneHolderEach
  PROVE  Held' = Held \cup {task.pulse.of} /\ OneHolderEach'
<1>1. \A q \in Slots \ {s} : tasks'[q] = tasks[q]
  OBVIOUS
<1>2. Carrying(tasks'[s]) /\ tasks'[s].pulse.of = task.pulse.of
  OBVIOUS
<1>3. \A q \in Slots :
        Carrying(tasks[q]) => tasks[q].pulse.of # task.pulse.of
  BY HeldIsCarried
<1>4. Held' = Held \cup {task.pulse.of}
  BY <1>1, <1>2 DEF Held, Holds, Carrying
<1>5. OneHolderEach'
  BY <1>1, <1>2, <1>3 DEF OneHolderEach, Holds, Carrying
<1>. QED BY <1>4, <1>5

LEMMA SameHolders ==
  ASSUME UNCHANGED tasks, OneHolderEach PROVE Held' = Held /\ OneHolderEach'
BY DEF Held, Holds, OneHolderEach

\* Rows that are replaced, added and removed.
LEMMA RowReplaced ==
  ASSUME NEW r \in rows, NEW m, NEW more,
         rows' = (rows \ {r}) \cup {m}, m.energy = r.energy \cup more,
         more \cap Booked = {}, OneRowEach
  PROVE  Booked' = Booked \cup more /\ OneRowEach'
<1>1. Booked' = Booked \cup more
  BY DEF Booked
<1>2. ASSUME NEW r1 \in rows', NEW r2 \in rows', r1 # r2
      PROVE  r1.energy \cap r2.energy = {}
  <2>1. \A q \in rows \ {r} : q.energy \cap m.energy = {}
    BY DEF Booked, OneRowEach
  <2>. QED BY <1>2, <2>1 DEF OneRowEach
<1>. QED BY <1>1, <1>2 DEF OneRowEach

LEMMA RowAdded ==
  ASSUME NEW m, rows' = rows \cup {m}, m.energy \cap Booked = {}, OneRowEach
  PROVE  Booked' = Booked \cup m.energy /\ OneRowEach'
<1>1. Booked' = Booked \cup m.energy
  BY DEF Booked
<1>2. OneRowEach'
  BY DEF Booked, OneRowEach
<1>. QED BY <1>1, <1>2

LEMMA RowRemoved ==
  ASSUME NEW r \in rows, rows' = rows \ {r}, OneRowEach
  PROVE  Booked' = Booked \ r.energy /\ OneRowEach'
BY DEF Booked, OneRowEach

LEMMA SameBooks ==
  ASSUME UNCHANGED rows, OneRowEach PROVE Booked' = Booked /\ OneRowEach'
BY DEF Booked, OneRowEach

LEMMA WellFormedGoes ==
  ASSUME EnergyInvariant, NEW s \in Slots, NEW task, WellFormed(task),
         tasks' = [tasks EXCEPT ![s] = task]
  PROVE  \A q \in Slots : tasks'[q].pc \in {"plug", "extend"} =>
                            tasks'[q].kind = "close"
BY DEF EnergyInvariant, WellFormed, TypeInvariant, TypeOK

\* A coroutine that holds no session goes on, ends, or is put in a free slot,
\* and neither the log nor a session changes.
LEMMA Bystander ==
  ASSUME EnergyInvariant, TypeInvariant', NEW s \in Slots, NEW task,
         tasks' = [tasks EXCEPT ![s] = task],
         ~Carrying(tasks[s]), ~Carrying(task), WellFormed(task),
         UNCHANGED <<session, rows, gone, sessions>>
  PROVE  EnergyInvariant'
<1>1. Held' = Held /\ OneHolderEach'
  BY KeepsHolding DEF EnergyInvariant, TypeInvariant, TypeOK
<1>2. Booked' = Booked /\ OneRowEach'
  BY SameBooks DEF EnergyInvariant
<1>. QED BY <1>1, <1>2, WellFormedGoes DEF EnergyInvariant

LEMMA SuspendBystander ==
  ASSUME EnergyInvariant, TypeInvariant', NEW task, Suspend(task),
         ~Carrying(task), WellFormed(task),
         UNCHANGED <<session, rows, gone, sessions>>
  PROVE  EnergyInvariant'
<1>1. PICK s \in Slots : tasks[s] = NoTask /\ tasks' = [tasks EXCEPT ![s] = task]
  BY DEF Suspend
<1>2. ~Carrying(tasks[s])
  BY <1>1 DEF Carrying, NoTask
<1>. QED BY <1>1, <1>2, Bystander

LEMMA NoTaskIdle == ~Carrying(NoTask) /\ WellFormed(NoTask)
BY DEF Carrying, WellFormed, NoTask

LEMMA CarriesCarries ==
  ASSUME NEW g, NEW pulse, NEW outcome \in {"plug", "extend", "insert"},
         NEW reading
  PROVE  /\ Carrying(Carries(g, pulse, outcome, reading))
         /\ WellFormed(Carries(g, pulse, outcome, reading))
         /\ Carries(g, pulse, outcome, reading).pulse = pulse
BY DEF Carries, Carrying, WellFormed, NoTask

LEMMA InitEnergy == ASSUME Init PROVE EnergyInvariant
<1>1. TypeInvariant
  BY InitType
<1>2. Held = {} /\ OneHolderEach
  BY DEF Init, Held, Holds, OneHolderEach, NoTask
<1>3. Booked = {} /\ OneRowEach
  BY DEF Init, Booked, OneRowEach
<1>4. Accounts(0, {}, {}, {}, 0)
  BY DEF Accounts
<1>. QED BY <1>1, <1>2, <1>3, <1>4
         DEF Init, EnergyInvariant, NoSession, NoTask

LEMMA SessionEndsEnergy ==
  ASSUME EnergyInvariant, SessionEnds PROVE EnergyInvariant'
<1>0. TypeInvariant' /\ TypeInvariant
  BY SessionEndsType DEF EnergyInvariant
<1>. PICK socEnd \in soc..MaxSoc, evse \in EvseReadings, plugged \in PlugReadings :
       LET last == lastCharge[gen]
           pulse == [of |-> session.id, start |-> session.start,
                     soc |-> session.soc, at |-> now, socEnd |-> socEnd,
                     dropped |-> Dropped(last, session.soc), evse |-> evse]
           asks == plugged /\ last # NoCopy /\ ~pulse.dropped
           outcome == Outcome(last, pulse, FALSE)
       IN /\ soc' = socEnd
          /\ IF socEnd = session.soc \/ (~asks /\ outcome = "discard")
               THEN /\ gone' = gone \cup {session.id}
                    /\ UNCHANGED <<tasks, disturbed>>
               ELSE /\ Suspend(IF asks
                                 THEN Carries(gen, pulse, "plug", socEnd)
                                 ELSE Carries(gen, pulse, outcome, socEnd))
                    /\ UNCHANGED gone
  BY DEF SessionEnds
<1>. DEFINE last == lastCharge[gen]
            pulse == [of |-> session.id, start |-> session.start,
                      soc |-> session.soc, at |-> now, socEnd |-> socEnd,
                      dropped |-> Dropped(last, session.soc), evse |-> evse]
            asks == plugged /\ last # NoCopy /\ ~pulse.dropped
            outcome == Outcome(last, pulse, FALSE)
            task == IF asks THEN Carries(gen, pulse, "plug", socEnd)
                            ELSE Carries(gen, pulse, outcome, socEnd)
<1>1. /\ session # NoSession /\ session' = NoSession
      /\ UNCHANGED <<rows, sessions>>
  BY DEF SessionEnds, database
<1>2. session.id # 0 /\ Accounts(session.id, Held, Booked, gone, sessions)
  BY <1>1 DEF EnergyInvariant
<1>3. sessions \in Nat
  BY <1>0 DEF TypeInvariant, TypeOK
<1>4. Booked' = Booked /\ OneRowEach'
  BY <1>1, SameBooks DEF EnergyInvariant
<1>5. CASE gone' = gone \cup {session.id} /\ UNCHANGED tasks
  <2>1. Held' = Held /\ OneHolderEach'
    BY <1>5, SameHolders DEF EnergyInvariant
  <2>2. Accounts(0, Held, Booked, gone \cup {session.id}, sessions)
    BY <1>2, <1>3, MeasuredSession
  <2>. QED BY <1>0, <1>1, <1>4, <1>5, <2>1, <2>2
           DEF EnergyInvariant, NoSession
<1>6. CASE Suspend(task) /\ UNCHANGED gone /\ ~(~asks /\ outcome = "discard")
  <2>1. outcome \in {"extend", "insert", "discard"}
    <3>1. pulse \in Pulse
      <4>1. evse \in BOOLEAN
        BY ConstantsAssumption DEF EvseReadings
      <4>2. session \in SessionRecord /\ now \in Nat /\ socEnd \in Nat
        BY <1>0, ConstantsAssumption DEF TypeInvariant, TypeOK
      <4>3. Dropped(last, session.soc) \in BOOLEAN
        BY DEF Dropped
      <4>. QED BY <4>1, <4>2, <4>3 DEF Pulse, SessionRecord
    <3>. QED BY <3>1, OutcomeType
  <2>2. Carrying(task) /\ WellFormed(task) /\ task.pulse = pulse
    <3>. HIDE DEF pulse, asks, outcome
    <3>1. CASE asks
      BY <3>1, CarriesCarries
    <3>2. CASE ~asks
      BY <1>6, <2>1, <3>2, CarriesCarries
    <3>. QED BY <3>1, <3>2
  <2>3. task.pulse.of = session.id
    <3>. HIDE DEF task
    <3>. QED BY <2>2
  <2>. HIDE DEF task
  <2>4. PICK s \in Slots :
          tasks[s] = NoTask /\ tasks' = [tasks EXCEPT ![s] = task]
    BY <1>6 DEF Suspend
  <2>5. Held' = Held \cup {session.id} /\ OneHolderEach'
    BY <1>0, <1>2, <2>2, <2>3, <2>4, NoTaskIdle, Takes
       DEF EnergyInvariant, TypeInvariant, TypeOK, Accounts
  <2>6. Accounts(0, Held \cup {session.id}, Booked, gone, sessions)
    BY <1>2, <1>3, MeasuredSession
  <2>. QED BY <1>0, <1>1, <1>4, <1>6, <2>2, <2>4, <2>5, <2>6, WellFormedGoes
           DEF EnergyInvariant, NoSession
<1>. QED BY <1>5, <1>6

LEMMA PlugAnswersEnergy ==
  ASSUME EnergyInvariant, NEW s \in Slots, PlugAnswers(s)
  PROVE  EnergyInvariant'
<1>. DEFINE t == tasks[s]
<1>0. TypeInvariant' /\ TypeInvariant
  BY PlugAnswersType DEF EnergyInvariant
<1>1. PICK stayed \in BOOLEAN :
        LET outcome == Outcome(lastCharge[t.gen], t.pulse, stayed)
        IN IF outcome = "discard"
             THEN Ends(s) /\ gone' = gone \cup {t.pulse.of}
             ELSE /\ Goes(s, Carries(t.gen, t.pulse, outcome, soc))
                  /\ UNCHANGED gone
  BY DEF PlugAnswers
<1>. DEFINE outcome == Outcome(lastCharge[t.gen], t.pulse, stayed)
<1>2. outcome \in {"extend", "insert", "discard"}
  BY <1>0, TaskType, OutcomeType
<1>3. UNCHANGED <<session, rows, sessions>> /\ Carrying(t)
  BY DEF PlugAnswers, database, EnergyInvariant, Carrying
<1>4. Booked' = Booked /\ OneRowEach'
  BY <1>3, SameBooks DEF EnergyInvariant
<1>5. CASE Ends(s) /\ gone' = gone \cup {t.pulse.of}
  <2>1. Held' = Held \ {t.pulse.of} /\ OneHolderEach' /\ t.pulse.of \in Held
    <3>1. /\ tasks \in [Slots -> Task] /\ OneHolderEach
          /\ tasks' = [tasks EXCEPT ![s] = NoTask]
      BY <1>0, <1>5 DEF Ends, Goes, EnergyInvariant, TypeInvariant, TypeOK
    <3>2. t.pulse.of \in Held
      BY <1>3, HeldIsCarried
    <3>. QED BY <1>3, <3>1, <3>2, NoTaskIdle, Releases
  <2>2. Accounts(session.id, Held \ {t.pulse.of}, Booked,
                 gone \cup {t.pulse.of}, sessions)
    BY <2>1 DEF EnergyInvariant, Accounts
  <2>. QED BY <1>0, <1>3, <1>4, <1>5, <2>1, <2>2, NoTaskIdle, WellFormedGoes
           DEF EnergyInvariant, Ends, Goes
<1>6. CASE /\ outcome # "discard" /\ UNCHANGED gone
           /\ Goes(s, Carries(t.gen, t.pulse, outcome, soc))
  <2>. DEFINE task == Carries(t.gen, t.pulse, outcome, soc)
  <2>1. Carrying(task) /\ WellFormed(task) /\ task.pulse = t.pulse
    <3>. HIDE DEF outcome
    <3>. QED BY <1>2, <1>6, CarriesCarries
  <2>. HIDE DEF task
  <2>2. Held' = Held /\ OneHolderEach'
    BY <1>0, <1>3, <1>6, <2>1, KeepsHolding
       DEF Goes, task, EnergyInvariant, TypeInvariant, TypeOK
  <2>. QED BY <1>0, <1>3, <1>4, <1>6, <2>1, <2>2, WellFormedGoes
           DEF EnergyInvariant, Goes, task
<1>. QED BY <1>1, <1>5, <1>6

LEMMA ExtendEnergy ==
  ASSUME EnergyInvariant, NEW s \in Slots, Extend(s) PROVE EnergyInvariant'
<1>. DEFINE t == tasks[s]
            r == Newest(rows)
            merged == Extended(r, t.pulse)
            task == [t EXCEPT !.pc = "adopt", !.row = r.copy.id,
                              !.copy = merged.copy,
                              !.arm = HasEvse /\ ~merged.evse]
<1>0. TypeInvariant' /\ TypeInvariant
  BY ExtendType DEF EnergyInvariant
<1>1. /\ UNCHANGED <<session, sessions, gone>> /\ Carrying(t)
      /\ tasks \in [Slots -> Task]
  BY <1>0 DEF Extend, counters, EnergyInvariant, Carrying, TypeInvariant, TypeOK
<1>2. CASE rows = {}
  <2>. DEFINE inserts == Carries(t.gen, t.pulse, "insert", soc)
  <2>1. tasks' = [tasks EXCEPT ![s] = inserts] /\ UNCHANGED rows
    BY <1>2 DEF Extend, Goes, NothingToExtend
  <2>2. Carrying(inserts) /\ WellFormed(inserts) /\ inserts.pulse = t.pulse
    BY CarriesCarries
  <2>. HIDE DEF inserts
  <2>3. Held' = Held /\ OneHolderEach'
    BY <1>1, <2>1, <2>2, KeepsHolding DEF EnergyInvariant
  <2>4. Booked' = Booked /\ OneRowEach'
    BY <2>1, SameBooks DEF EnergyInvariant
  <2>. QED BY <1>0, <1>1, <2>1, <2>2, <2>3, <2>4, WellFormedGoes
           DEF EnergyInvariant
<1>3. CASE rows # {}
  <2>1. rows' = (rows \ {r}) \cup {merged} /\ tasks' = [tasks EXCEPT ![s] = task]
    BY <1>3 DEF Extend, Goes
  <2>2. r \in rows /\ r \in Row
    BY <1>0, <1>3, NewestExists DEF TypeInvariant, TypeOK
  <2>3. merged.energy = r.energy \cup {t.pulse.of}
    <3>. HIDE DEF r
    <3>. QED BY <2>2 DEF Extended, Row
  <2>4. ~Carrying(task) /\ WellFormed(task)
    <3>1. task.pc = "adopt"
      <4>1. tasks[s] \in Task
        BY <1>1
      <4>. HIDE DEF merged, r
      <4>. QED BY <4>1 DEF Task
    <3>. QED BY <3>1 DEF Carrying, WellFormed
  <2>. HIDE DEF merged, task, r
  <2>5. Held' = Held \ {t.pulse.of} /\ OneHolderEach'
    BY <1>1, <2>1, <2>4, Releases DEF EnergyInvariant
  <2>6. t.pulse.of \in Held /\ {t.pulse.of} \cap Booked = {}
    BY <1>1, HeldIsCarried DEF EnergyInvariant, Accounts
  <2>7. Booked' = Booked \cup {t.pulse.of} /\ OneRowEach'
    BY <2>1, <2>2, <2>3, <2>6, RowReplaced DEF EnergyInvariant
  <2>8. Accounts(session.id, Held \ {t.pulse.of}, Booked \cup {t.pulse.of},
                 gone, sessions)
    BY <2>6 DEF EnergyInvariant, Accounts
  <2>. QED BY <1>0, <1>1, <2>1, <2>4, <2>5, <2>7, <2>8, WellFormedGoes
           DEF EnergyInvariant
<1>. QED BY <1>2, <1>3

LEMMA InsertEnergy ==
  ASSUME EnergyInvariant, NEW s \in Slots, Insert(s) PROVE EnergyInvariant'
<1>. DEFINE t == tasks[s]
            copy == [t.copy EXCEPT !.id = FreshId]
            new == [copy |-> copy,
                    energy |-> IF t.kind = "close" THEN {t.pulse.of} ELSE {},
                    evse |-> t.pulse.evse]
<1>0. TypeInvariant' /\ TypeInvariant
  BY InsertType DEF EnergyInvariant
<1>1. PICK atHome \in BOOLEAN :
        Goes(s, [t EXCEPT !.pc = "adopt", !.copy = copy,
                          !.arm = /\ HasEvse /\ t.kind = "close" /\ atHome
                                  /\ ~t.pulse.evse])
  BY DEF Insert
<1>. DEFINE task == [t EXCEPT !.pc = "adopt", !.copy = copy,
                              !.arm = /\ HasEvse /\ t.kind = "close" /\ atHome
                                      /\ ~t.pulse.evse]
<1>2. /\ rows' = rows \cup {new} /\ tasks' = [tasks EXCEPT ![s] = task]
      /\ UNCHANGED <<session, sessions, gone>> /\ t.pc = "insert"
      /\ tasks \in [Slots -> Task]
  BY <1>0, <1>1 DEF Insert, Goes, counters, TypeInvariant, TypeOK
<1>3. ~Carrying(task) /\ WellFormed(task)
  <2>1. task.pc = "adopt"
    <3>1. tasks[s] \in Task
      BY <1>2
    <3>. HIDE DEF copy
    <3>. QED BY <3>1 DEF Task
  <2>. QED BY <2>1 DEF Carrying, WellFormed
<1>4. new.energy = IF t.kind = "close" THEN {t.pulse.of} ELSE {}
  OBVIOUS
<1>. HIDE DEF new, task
<1>5. CASE t.kind = "close"
  <2>1. Carrying(t)
    BY <1>2, <1>5 DEF Carrying
  <2>2. Held' = Held \ {t.pulse.of} /\ OneHolderEach'
    BY <1>2, <1>3, <2>1, Releases DEF EnergyInvariant
  <2>3. t.pulse.of \in Held /\ {t.pulse.of} \cap Booked = {}
    BY <2>1, HeldIsCarried DEF EnergyInvariant, Accounts
  <2>4. Booked' = Booked \cup {t.pulse.of} /\ OneRowEach'
    BY <1>2, <1>4, <1>5, <2>3, RowAdded DEF EnergyInvariant
  <2>5. Accounts(session.id, Held \ {t.pulse.of}, Booked \cup {t.pulse.of},
                 gone, sessions)
    BY <2>3 DEF EnergyInvariant, Accounts
  <2>. QED BY <1>0, <1>2, <1>3, <2>2, <2>4, <2>5, WellFormedGoes
           DEF EnergyInvariant
<1>6. CASE t.kind # "close"
  <2>1. Held' = Held /\ OneHolderEach'
    BY <1>2, <1>3, <1>6, KeepsHolding DEF EnergyInvariant, Carrying
  <2>2. new.energy = {}
    BY <1>4, <1>6
  <2>3. Booked' = Booked /\ OneRowEach'
    BY <1>2, <2>2, RowAdded DEF EnergyInvariant
  <2>. QED BY <1>0, <1>2, <1>3, <2>1, <2>3, WellFormedGoes
           DEF EnergyInvariant
<1>. QED BY <1>5, <1>6

LEMMA PatchEnergy ==
  ASSUME EnergyInvariant, NEW s \in Slots, Patch(s) PROVE EnergyInvariant'
<1>. DEFINE t == tasks[s]
<1>0. TypeInvariant' /\ TypeInvariant /\ rows \subseteq Row
  BY PatchType DEF EnergyInvariant, TypeInvariant, TypeOK
<1>1. /\ UNCHANGED <<session, sessions, gone>> /\ ~Carrying(t)
      /\ tasks \in [Slots -> Task]
  BY <1>0 DEF Patch, counters, Carrying, TypeInvariant, TypeOK
<1>2. CASE Ends(s) /\ UNCHANGED <<rows, disturbed>>
  BY <1>0, <1>1, <1>2, NoTaskIdle, Bystander DEF Ends, Goes
<1>3. CASE \E r \in rows : \E p \in Row : Patches(s, r, p)
  <2>0. PICK r \in rows : \E p \in Row : Patches(s, r, p)
    BY <1>3
  <2>1. PICK p \in Row : Patches(s, r, p)
    BY <2>0
  <2>. DEFINE task == [t EXCEPT !.pc = "adopt", !.copy = p.copy]
  <2>2. p.energy = r.energy \cup {}
    BY <2>1 DEF Patches
  <2>3. ~Carrying(task) /\ WellFormed(task)
    <3>1. task.pc = "adopt"
      <4>1. tasks[s] \in Task
        BY <1>1
      <4>. QED BY <4>1 DEF Task
    <3>. QED BY <3>1 DEF Carrying, WellFormed
  <2>4. /\ tasks' = [tasks EXCEPT ![s] = task]
        /\ rows' = (rows \ {r}) \cup {p}
    BY <2>1 DEF Patches, Goes
  <2>. HIDE DEF task
  <2>5. Held' = Held /\ OneHolderEach'
    BY <1>1, <2>3, <2>4, KeepsHolding DEF EnergyInvariant
  <2>6. Booked' = Booked /\ OneRowEach'
    <3>1. {} \cap Booked = {} /\ Booked \cup {} = Booked /\ OneRowEach
      BY DEF EnergyInvariant
    <3>2. Booked' = Booked \cup {} /\ OneRowEach'
      BY <2>2, <2>4, <3>1, RowReplaced
    <3>. QED BY <3>1, <3>2
  <2>. QED BY <1>0, <1>1, <2>3, <2>4, <2>5, <2>6, WellFormedGoes
           DEF EnergyInvariant
<1>. QED BY <1>0, <1>2, <1>3, PatchSteps

LEMMA DeleteEnergy ==
  ASSUME EnergyInvariant, NEW s \in Slots, Delete(s) PROVE EnergyInvariant'
<1>. DEFINE r == Newest(rows)
            task == [tasks[s] EXCEPT !.pc = "refresh"]
<1>0. TypeInvariant' /\ TypeInvariant
  BY DeleteType DEF EnergyInvariant
<1>1. /\ UNCHANGED <<session, sessions>> /\ ~Carrying(tasks[s])
      /\ tasks \in [Slots -> Task]
  BY <1>0 DEF Delete, Carrying, TypeInvariant, TypeOK
<1>2. CASE Ends(s) /\ UNCHANGED <<rows, gone>>
  BY <1>0, <1>1, <1>2, NoTaskIdle, Bystander DEF Ends, Goes
<1>3. CASE rows # {} /\ Deleted(s) /\ rows' = rows \ {r}
           /\ gone' = gone \cup r.energy
  <2>1. ~Carrying(task) /\ WellFormed(task)
    <3>1. task.pc = "refresh"
      BY TaskType, <1>0 DEF Task
    <3>. QED BY <3>1 DEF Carrying, WellFormed
  <2>2. r \in rows
    BY <1>0, <1>3, NewestExists DEF TypeInvariant, TypeOK
  <2>3. tasks' = [tasks EXCEPT ![s] = task]
    BY <1>3 DEF Deleted, Goes
  <2>. HIDE DEF r, task
  <2>4. Held' = Held /\ OneHolderEach'
    BY <1>1, <2>1, <2>3, KeepsHolding DEF EnergyInvariant
  <2>5. Booked' = Booked \ r.energy /\ OneRowEach' /\ r.energy \subseteq Booked
    BY <1>3, <2>2, RowRemoved DEF EnergyInvariant, Booked
  <2>6. Accounts(session.id, Held, Booked \ r.energy, gone \cup r.energy, sessions)
    BY <2>5 DEF EnergyInvariant, Accounts
  <2>. QED BY <1>0, <1>1, <1>3, <2>1, <2>3, <2>4, <2>5, <2>6, WellFormedGoes
           DEF EnergyInvariant
<1>. QED BY <1>2, <1>3 DEF Delete

\* The steps that only read or price the log.
LEMMA QuietEnergy ==
  ASSUME EnergyInvariant, NEW s \in Slots,
         Adopt(s) \/ Replayed(s) \/ Price(s) \/ Read(s) \/ Refresh(s)
  PROVE  EnergyInvariant'
<1>. DEFINE t == tasks[s]
<1>0. TypeInvariant /\ TypeInvariant' /\ t \in Task
  BY AdoptType, ReplayedType, PriceType, ReadType, RefreshType, TaskType
     DEF EnergyInvariant
<1>1. /\ UNCHANGED <<session, rows, gone, sessions>> /\ ~Carrying(t)
  BY DEF Adopt, Replayed, Price, Read, Refresh, database, counters, Carrying
<1>2. PICK task : /\ tasks' = [tasks EXCEPT ![s] = task]
                  /\ task = NoTask \/ task.pc \in {"replay", "refresh", "adopt", "patch"}
  <2>1. CASE Adopt(s)
    <3>1. \E task \in {NoTask, [t EXCEPT !.pc = "replay"],
                       [t EXCEPT !.pc = "refresh"]} : Goes(s, task)
      BY <2>1 DEF Adopt, Ends
    <3>2. /\ [t EXCEPT !.pc = "replay"].pc = "replay"
          /\ [t EXCEPT !.pc = "refresh"].pc = "refresh"
      BY <1>0 DEF Task
    <3>. QED BY <3>1, <3>2 DEF Goes
  <2>2. CASE Replayed(s)
    BY <2>2 DEF Replayed, Ends, Goes
  <2>3. CASE Price(s)
    <3>1. \/ Ends(s)
          \/ \E r : Goes(s, [t EXCEPT !.pc = "adopt", !.copy = r.copy])
      BY <2>3 DEF Price
    <3>2. \A r : [t EXCEPT !.pc = "adopt", !.copy = r.copy].pc = "adopt"
      BY <1>0 DEF Task
    <3>. QED BY <3>1, <3>2 DEF Ends, Goes
  <2>4. CASE Read(s)
    <3>1. Ends(s) \/ Goes(s, [t EXCEPT !.pc = "patch"])
      BY <2>4 DEF Read
    <3>2. [t EXCEPT !.pc = "patch"].pc = "patch"
      BY <1>0 DEF Task
    <3>. QED BY <3>1, <3>2 DEF Ends, Goes
  <2>5. CASE Refresh(s)
    <3>1. Goes(s, [t EXCEPT !.kind = "delete", !.pc = "adopt",
                            !.copy = LastChargeIn(rows)])
      BY <2>5 DEF Refresh
    <3>2. [t EXCEPT !.kind = "delete", !.pc = "adopt",
                    !.copy = LastChargeIn(rows)].pc = "adopt"
      BY <1>0 DEF Task
    <3>. QED BY <3>1, <3>2 DEF Goes
  <2>. QED BY <2>1, <2>2, <2>3, <2>4, <2>5
<1>3. ~Carrying(task) /\ WellFormed(task)
  BY <1>2, NoTaskIdle DEF Carrying, WellFormed
<1>. QED BY <1>0, <1>1, <1>2, <1>3, Bystander

LEMMA TaskFailsEnergy ==
  ASSUME EnergyInvariant, NEW s \in Slots, TaskFails(s) PROVE EnergyInvariant'
<1>. DEFINE t == tasks[s]
<1>0. TypeInvariant' /\ TypeInvariant /\ tasks \in [Slots -> Task]
  BY TaskFailsType DEF EnergyInvariant, TypeInvariant, TypeOK
<1>1. /\ UNCHANGED <<session, rows, sessions>>
      /\ tasks' = [tasks EXCEPT ![s] = NoTask]
      /\ gone' = IF Carrying(t) THEN gone \cup {t.pulse.of} ELSE gone
  BY DEF TaskFails, database, Ends, Goes, Holds, Carrying
<1>2. CASE ~Carrying(t)
  BY <1>0, <1>1, <1>2, NoTaskIdle, Bystander
<1>3. CASE Carrying(t)
  <2>1. Held' = Held \ {t.pulse.of} /\ OneHolderEach' /\ t.pulse.of \in Held
    BY <1>0, <1>1, <1>3, NoTaskIdle, Releases, HeldIsCarried DEF EnergyInvariant
  <2>2. Booked' = Booked /\ OneRowEach'
    BY <1>1, SameBooks DEF EnergyInvariant
  <2>3. Accounts(session.id, Held \ {t.pulse.of}, Booked,
                 gone \cup {t.pulse.of}, sessions)
    BY <2>1 DEF EnergyInvariant, Accounts
  <2>. QED BY <1>0, <1>1, <1>3, <2>1, <2>2, <2>3, NoTaskIdle, WellFormedGoes
           DEF EnergyInvariant
<1>. QED BY <1>2, <1>3

LEMMA CallEnergy ==
  ASSUME EnergyInvariant, TypeInvariant', NEW service, NEW task,
         Call(service, task), WellFormed([task EXCEPT !.gen = gen]),
         [task EXCEPT !.gen = gen].kind # "close"
  PROVE  EnergyInvariant'
<1>. DEFINE started == [task EXCEPT !.gen = gen]
<1>1. Suspend(started) /\ UNCHANGED <<session, rows, gone, sessions>>
  BY DEF Call, database
<1>2. ~Carrying(started) /\ WellFormed(started)
  BY DEF Carrying
<1>. HIDE DEF started
<1>. QED BY <1>1, <1>2, SuspendBystander

LEMMA SuspendedEnergy ==
  ASSUME EnergyInvariant,
         \/ LogCharge \/ SetLastChargePrice \/ SetChargePriceById
         \/ SetCharge \/ DeleteLastCharge \/ BackfillChargeEvse
         \/ EvseBackfillFires
  PROVE  EnergyInvariant'
<1>0. TypeInvariant'
  BY ServicesType, EvseBackfillFiresType DEF EnergyInvariant
<1>1. CASE LogCharge
  BY <1>0, <1>1, CallEnergy DEF LogCharge, NoTask, WellFormed
<1>2. CASE SetLastChargePrice
  BY <1>0, <1>2, CallEnergy DEF SetLastChargePrice, NoTask, WellFormed
<1>3. CASE SetChargePriceById
  BY <1>0, <1>3, CallEnergy DEF SetChargePriceById, NoTask, WellFormed
<1>4. CASE SetCharge
  BY <1>0, <1>4, CallEnergy DEF SetCharge, NoTask, WellFormed
<1>5. CASE DeleteLastCharge
  BY <1>0, <1>5, CallEnergy DEF DeleteLastCharge, NoTask, WellFormed
<1>6. CASE BackfillChargeEvse
  BY <1>0, <1>6, CallEnergy DEF BackfillChargeEvse, NoTask, WellFormed
<1>7. CASE EvseBackfillFires
  <2>1. PICK b \in pending :
          Suspend([NoTask EXCEPT !.kind = "backfill", !.pc = "read",
                                 !.gen = b.gen, !.row = b.row,
                                 !.pulse.of = b.of])
    BY <1>7 DEF EvseBackfillFires
  <2>. DEFINE task == [NoTask EXCEPT !.kind = "backfill", !.pc = "read",
                                     !.gen = b.gen, !.row = b.row,
                                     !.pulse.of = b.of]
  <2>2. ~Carrying(task) /\ WellFormed(task)
    BY DEF NoTask, Carrying, WellFormed
  <2>3. UNCHANGED <<session, rows, gone, sessions>>
    BY <1>7 DEF EvseBackfillFires, database, counters
  <2>. HIDE DEF task
  <2>. QED BY <1>0, <2>1, <2>2, <2>3, SuspendBystander DEF task
<1>. QED BY <1>1, <1>2, <1>3, <1>4, <1>5, <1>6, <1>7

LEMMA RestartEnergy ==
  ASSUME EnergyInvariant, Reload \/ Crash PROVE EnergyInvariant'
<1>0. TypeInvariant' /\ TypeInvariant
  BY RestartType DEF EnergyInvariant
<1>1. /\ UNCHANGED <<rows, sessions>> /\ Resumes
      /\ tasks' = tasks \/ tasks' = [s \in Slots |-> NoTask]
  BY DEF Reload, Crash, Restarts, database
<1>2. Booked' = Booked /\ OneRowEach'
  BY <1>1, SameBooks DEF EnergyInvariant
<1>3. /\ Held' = Held \ Cut /\ OneHolderEach' /\ Cut \subseteq Held
      /\ \A s \in Slots : tasks'[s].pc \in {"plug", "extend"} =>
                            tasks'[s].kind = "close"
  <2>1. CASE tasks' = tasks
    <3>1. Cut = {}
      BY <2>1 DEF Cut, Held
    <3>. QED BY <2>1, <3>1, SameHolders DEF EnergyInvariant
  <2>2. CASE tasks' = [s \in Slots |-> NoTask]
    <3>1. Held' = {} /\ OneHolderEach'
      BY <2>2 DEF Held, Holds, OneHolderEach, NoTask
    <3>2. 0 \notin Held
      BY DEF EnergyInvariant, Accounts
    <3>3. \A s \in Slots : tasks'[s].pulse.of = 0 /\ tasks'[s].pc = "done"
      BY <2>2 DEF NoTask, NoPulse
    <3>4. Cut = Held
      BY <3>2, <3>3 DEF Cut
    <3>. QED BY <3>1, <3>3, <3>4
  <2>. QED BY <1>1, <2>1, <2>2
<1>4. Accounts(session.id, Held, Booked, gone, sessions) /\ sessions \in Nat
      /\ (session # NoSession => session.id # 0)
  BY <1>0 DEF EnergyInvariant, TypeInvariant, TypeOK
<1>5. CASE session' = NoSession /\ gone' = gone \cup ({session.id} \ {0}) \cup Cut
  <2>1. Accounts(0, Held, Booked, gone \cup ({session.id} \ {0}), sessions)
    <3>1. CASE session.id = 0
      <4>1. gone \cup ({session.id} \ {0}) = gone
        BY <3>1
      <4>. QED BY <1>4, <3>1, <4>1
    <3>2. CASE session.id # 0
      <4>1. gone \cup ({session.id} \ {0}) = gone \cup {session.id}
        BY <3>2
      <4>. QED BY <1>4, <3>2, <4>1, MeasuredSession
    <3>. QED BY <3>1, <3>2
  <2>2. Accounts(0, Held \ Cut, Booked, gone', sessions)
    BY <1>3, <1>5, <2>1 DEF Accounts
  <2>. QED BY <1>0, <1>1, <1>2, <1>3, <1>5, <2>2 DEF EnergyInvariant, NoSession
<1>6. CASE session # NoSession /\ session'.id = session.id /\ gone' = gone \cup Cut
  <2>1. Accounts(session.id, Held \ Cut, Booked, gone', sessions)
    BY <1>3, <1>4, <1>6 DEF Accounts
  <2>. QED BY <1>0, <1>1, <1>2, <1>3, <1>4, <1>6, <2>1 DEF EnergyInvariant
<1>7. \/ session' = NoSession /\ gone' = gone \cup ({session.id} \ {0}) \cup Cut
      \/ session # NoSession /\ session'.id = session.id /\ gone' = gone \cup Cut
  BY <1>0, <1>1 DEF Resumes, TypeInvariant, TypeOK, SessionRecord
<1>. QED BY <1>5, <1>6, <1>7

LEMMA SameAccounts ==
  ASSUME EnergyInvariant, TypeInvariant',
         UNCHANGED <<session, tasks, rows, gone, sessions>>
  PROVE  EnergyInvariant'
BY SameHolders, SameBooks DEF EnergyInvariant

LEMMA SessionOpensEnergy ==
  ASSUME EnergyInvariant, SessionOpens PROVE EnergyInvariant'
<1>0. TypeInvariant' /\ TypeInvariant
  BY CarType DEF EnergyInvariant
<1>1. /\ session.id = 0 /\ session'.id = sessions + 1
      /\ sessions' = sessions + 1 /\ sessions \in Nat
      /\ UNCHANGED <<tasks, rows, gone>>
  BY <1>0 DEF SessionOpens, NoSession, database, TypeInvariant, TypeOK
<1>2. /\ Held' = Held /\ OneHolderEach' /\ Booked' = Booked /\ OneRowEach'
  BY <1>1, SameHolders, SameBooks DEF EnergyInvariant
<1>3. Accounts(sessions + 1, Held, Booked, gone, sessions + 1)
  <2>1. Accounts(0, Held, Booked, gone, sessions)
    BY <1>1 DEF EnergyInvariant
  <2>2. /\ 1..sessions \subseteq 1..(sessions + 1)
        /\ sessions + 1 \notin 1..sessions /\ sessions + 1 \in 0..(sessions + 1)
        /\ 1..(sessions + 1) \subseteq 1..sessions \cup {sessions + 1}
        /\ 0 \notin 1..sessions
    BY <1>1
  <2>. QED BY <2>1, <2>2 DEF Accounts
<1>. QED BY <1>0, <1>1, <1>2, <1>3 DEF EnergyInvariant

LEMMA NextEnergy ==
  ASSUME EnergyInvariant, [Next]_vars PROVE EnergyInvariant'
<1>1. CASE Tick \/ Drive \/ UNCHANGED vars
  <2>1. /\ TypeInvariant' /\ UNCHANGED <<session, tasks, rows, gone, sessions>>
    BY <1>1, CarType, StutterType
       DEF EnergyInvariant, Tick, Drive, vars, database, counters
  <2>. QED BY <2>1, SameAccounts
<1>. QED BY <1>1, SessionOpensEnergy, SessionEndsEnergy, SuspendedEnergy,
            RestartEnergy, PlugAnswersEnergy, ExtendEnergy, InsertEnergy,
            PatchEnergy, DeleteEnergy, QuietEnergy, TaskFailsEnergy
         DEF Next

\* The energy of every charging session is in one row, held by one coroutine
\* that has not written it, being measured, or given up, and nowhere twice,
\* whatever overlaps, fails, is reloaded or crashes.
THEOREM ChargeEnergyBookedOnce == Spec => []EnergyBookedOnce
<1>1. EnergyInvariant => EnergyBookedOnce
  BY DEF EnergyInvariant, EnergyBookedOnce, Accounts
<1>. QED BY <1>1, InitEnergy, NextEnergy, PTL DEF Spec
-----------------------------------------------------------------------------
(***************************************************************************)
(* A deferred EVSE backfill writes to the row of the session it was        *)
(* scheduled for, for every value of the constants of ChargeLog.           *)
(*                                                                         *)
(* The timer knows the row by its id.  An id never names two rows, a row   *)
(* keeps the sessions it holds for as long as it exists, and an id is not  *)
(* given out again: so what was true of the rows with that id when the     *)
(* timer was armed stays true of those there are when it fires.            *)
(***************************************************************************)
UniqueIds == \A r1, r2 \in rows : r1.copy.id = r2.copy.id => r1 = r2

\* An id given out already, whose row, if there is one, holds session of.
Names(id, of, table, bound) ==
  /\ id < bound
  /\ \A r \in table : r.copy.id = id => of \in r.energy

\* What a coroutine says of a row: a backfill of the row it will patch, a
\* close that is to schedule one of the row it has written.
Owns(t, table, bound) ==
  /\ t.kind = "backfill" /\ t.pulse.of # 0 =>
       Names(t.row, t.pulse.of, table, bound)
  /\ t.arm => /\ t.kind = "close" /\ t.pc \in {"adopt", "replay"}
              /\ Names(t.copy.id, t.pulse.of, table, bound)
  /\ t.pc = "replay" => t.arm

BackfillInvariant ==
  /\ EnergyInvariant
  /\ UniqueIds
  /\ \A b \in pending : Names(b.row, b.of, rows, nextId)
  /\ \A s \in Slots : Owns(tasks[s], rows, nextId)

\* A coroutine that neither backfills nor is to schedule a backfill.
Plain(t) == t.kind # "backfill" /\ ~t.arm /\ t.pc # "replay"

LEMMA PlainOwns ==
  ASSUME NEW t, Plain(t), NEW table, NEW bound PROVE Owns(t, table, bound)
BY DEF Plain, Owns

LEMMA PlainTasks ==
  /\ Plain(NoTask)
  /\ \A g, pulse, reading : \A outcome \in {"plug", "extend", "insert"} :
       Plain(Carries(g, pulse, outcome, reading))
BY DEF Plain, NoTask, Carries

\* Every row of the next table is new or one of this table, with what it held.
Continues ==
  /\ nextId <= nextId'
  /\ \A q \in rows' :
       \/ q.copy.id >= nextId
       \/ \E r \in rows : r.copy.id = q.copy.id /\ r.energy \subseteq q.energy

LEMMA NamesContinue ==
  ASSUME TypeInvariant, TypeInvariant', Continues, NEW id \in Nat, NEW of,
         Names(id, of, rows, nextId)
  PROVE  Names(id, of, rows', nextId')
<1>1. nextId \in Nat /\ nextId' \in Nat
  BY DEF TypeInvariant, TypeOK
<1>2. id < nextId'
  BY <1>1 DEF Continues, Names
<1>3. ASSUME NEW q \in rows', q.copy.id = id PROVE of \in q.energy
  <2>1. ~(q.copy.id >= nextId)
    BY <1>1, <1>3 DEF Names
  <2>2. PICK r \in rows : r.copy.id = q.copy.id /\ r.energy \subseteq q.energy
    BY <2>1 DEF Continues
  <2>. QED BY <1>3, <2>2 DEF Names
<1>. QED BY <1>2, <1>3 DEF Names

LEMMA OwnsContinues ==
  ASSUME TypeInvariant, TypeInvariant', Continues, NEW t \in Task,
         Owns(t, rows, nextId)
  PROVE  Owns(t, rows', nextId')
<1>1. t.row \in Nat /\ t.copy.id \in Nat
  BY DEF Task, Copy
<1>. QED BY <1>1, NamesContinue DEF Owns

LEMMA SameTable ==
  ASSUME TypeInvariant, UniqueIds, UNCHANGED <<rows, nextId>>
  PROVE  Continues /\ UniqueIds'
BY DEF TypeInvariant, TypeOK, Continues, UniqueIds

\* One coroutine moves, while the rows continue and timers are armed for rows
\* that are theirs.
LEMMA StepOwns ==
  ASSUME BackfillInvariant, EnergyInvariant', Continues, UniqueIds',
         \A b \in pending' : \/ b \in pending
                             \/ Names(b.row, b.of, rows', nextId'),
         NEW s \in Slots, NEW task, tasks' = [tasks EXCEPT ![s] = task],
         Owns(task, rows', nextId')
  PROVE  BackfillInvariant'
<1>1. TypeInvariant /\ TypeInvariant'
  BY DEF BackfillInvariant, EnergyInvariant
<1>2. tasks \in [Slots -> Task] /\ pending \subseteq Timer
  BY <1>1 DEF TypeInvariant, TypeOK
<1>3. ASSUME NEW b \in pending' PROVE Names(b.row, b.of, rows', nextId')
  <2>1. CASE b \in pending
    <3>1. b.row \in Nat /\ Names(b.row, b.of, rows, nextId)
      BY <1>2, <2>1 DEF Timer, BackfillInvariant
    <3>. QED BY <1>1, <3>1, NamesContinue
  <2>. QED BY <1>3, <2>1
<1>4. ASSUME NEW q \in Slots PROVE Owns(tasks'[q], rows', nextId')
  <2>1. CASE q = s
    BY <1>2, <2>1
  <2>2. CASE q # s
    <3>1. tasks'[q] = tasks[q] /\ tasks[q] \in Task
          /\ Owns(tasks[q], rows, nextId)
      BY <1>2, <2>2 DEF BackfillInvariant
    <3>. QED BY <1>1, <3>1, OwnsContinues
  <2>. QED BY <2>1, <2>2
<1>. QED BY <1>3, <1>4 DEF BackfillInvariant

\* The same when the table stands.
LEMMA StandingOwns ==
  ASSUME BackfillInvariant, EnergyInvariant', UNCHANGED <<rows, nextId>>,
         pending' \subseteq pending,
         NEW s \in Slots, NEW task, tasks' = [tasks EXCEPT ![s] = task],
         Owns(task, rows, nextId)
  PROVE  BackfillInvariant'
<1>1. Continues /\ UniqueIds'
  BY SameTable DEF BackfillInvariant, EnergyInvariant
<1>2. Owns(task, rows', nextId')
  OBVIOUS
<1>3. \A b \in pending' : b \in pending \/ Names(b.row, b.of, rows', nextId')
  OBVIOUS
<1>. QED BY <1>1, <1>2, <1>3, StepOwns

LEMMA SuspendOwns ==
  ASSUME BackfillInvariant, EnergyInvariant', UNCHANGED <<rows, nextId>>,
         pending' \subseteq pending,
         NEW task, Suspend(task), Owns(task, rows, nextId)
  PROVE  BackfillInvariant'
<1>1. PICK s \in Slots : tasks' = [tasks EXCEPT ![s] = task]
  BY DEF Suspend
<1>. QED BY <1>1, StandingOwns

\* No coroutine starts or moves.
LEMMA StillOwns ==
  ASSUME BackfillInvariant, EnergyInvariant', UNCHANGED <<rows, nextId>>,
         pending' \subseteq pending,
         tasks' = tasks \/ tasks' = [s \in Slots |-> NoTask]
  PROVE  BackfillInvariant'
<1>1. UniqueIds' /\ \A b \in pending' : Names(b.row, b.of, rows', nextId')
  BY DEF BackfillInvariant, UniqueIds
<1>2. ASSUME NEW s \in Slots PROVE Owns(tasks'[s], rows', nextId')
  <2>1. CASE tasks' = tasks
    BY <2>1 DEF BackfillInvariant
  <2>2. CASE tasks' = [q \in Slots |-> NoTask]
    <3>1. tasks'[s] = NoTask
      BY <2>2
    <3>. QED BY <3>1, PlainTasks, PlainOwns
  <2>. QED BY <2>1, <2>2
<1>. QED BY <1>1, <1>2 DEF BackfillInvariant
-----------------------------------------------------------------------------
LEMMA InitOwns == ASSUME Init PROVE BackfillInvariant
<1>1. UniqueIds /\ \A b \in pending : Names(b.row, b.of, rows, nextId)
  BY DEF Init, UniqueIds
<1>2. \A s \in Slots : tasks[s] = NoTask
  BY DEF Init
<1>. QED BY <1>1, <1>2, InitEnergy, PlainTasks, PlainOwns
         DEF BackfillInvariant

LEMMA CloseOwns ==
  ASSUME BackfillInvariant, EnergyInvariant', SessionEnds
  PROVE  BackfillInvariant'
<1>. PICK socEnd \in soc..MaxSoc, evse \in EvseReadings, plugged \in PlugReadings :
       LET last == lastCharge[gen]
           pulse == [of |-> session.id, start |-> session.start,
                     soc |-> session.soc, at |-> now, socEnd |-> socEnd,
                     dropped |-> Dropped(last, session.soc), evse |-> evse]
           asks == plugged /\ last # NoCopy /\ ~pulse.dropped
           outcome == Outcome(last, pulse, FALSE)
       IN /\ soc' = socEnd
          /\ IF socEnd = session.soc \/ (~asks /\ outcome = "discard")
               THEN /\ gone' = gone \cup {session.id}
                    /\ UNCHANGED <<tasks, disturbed>>
               ELSE /\ Suspend(IF asks
                                 THEN Carries(gen, pulse, "plug", socEnd)
                                 ELSE Carries(gen, pulse, outcome, socEnd))
                    /\ UNCHANGED gone
  BY DEF SessionEnds
<1>. DEFINE last == lastCharge[gen]
            pulse == [of |-> session.id, start |-> session.start,
                      soc |-> session.soc, at |-> now, socEnd |-> socEnd,
                      dropped |-> Dropped(last, session.soc), evse |-> evse]
            asks == plugged /\ last # NoCopy /\ ~pulse.dropped
            outcome == Outcome(last, pulse, FALSE)
            task == IF asks THEN Carries(gen, pulse, "plug", socEnd)
                            ELSE Carries(gen, pulse, outcome, socEnd)
<1>0. UNCHANGED <<rows, nextId, pending>>
  BY DEF SessionEnds, database
<1>1. CASE UNCHANGED tasks
  BY <1>0, <1>1, StillOwns
<1>2. CASE Suspend(task) /\ ~(~asks /\ outcome = "discard")
  <2>1. pulse \in Pulse
    <3>1. evse \in BOOLEAN /\ Dropped(last, session.soc) \in BOOLEAN
      BY ConstantsAssumption DEF EvseReadings, Dropped
    <3>2. session \in SessionRecord /\ now \in Nat /\ socEnd \in Nat
      BY ConstantsAssumption
         DEF BackfillInvariant, EnergyInvariant, TypeInvariant, TypeOK
    <3>. QED BY <3>1, <3>2 DEF Pulse, SessionRecord
  <2>2. outcome \in {"extend", "insert", "discard"}
    BY <2>1, OutcomeType
  <2>. HIDE DEF pulse, asks, outcome
  <2>3. Plain(task)
    BY <1>2, <2>2, PlainTasks
  <2>. HIDE DEF task
  <2>. QED BY <1>0, <1>2, <2>3, PlainOwns, SuspendOwns
<1>. QED BY <1>1, <1>2

LEMMA PlugAnswersOwns ==
  ASSUME BackfillInvariant, EnergyInvariant', NEW s \in Slots, PlugAnswers(s)
  PROVE  BackfillInvariant'
<1>. DEFINE t == tasks[s]
<1>1. PICK stayed \in BOOLEAN :
        LET outcome == Outcome(lastCharge[t.gen], t.pulse, stayed)
        IN IF outcome = "discard"
             THEN Ends(s) /\ gone' = gone \cup {t.pulse.of}
             ELSE /\ Goes(s, Carries(t.gen, t.pulse, outcome, soc))
                  /\ UNCHANGED gone
  BY DEF PlugAnswers
<1>. DEFINE outcome == Outcome(lastCharge[t.gen], t.pulse, stayed)
<1>2. UNCHANGED <<rows, nextId, pending>>
  BY DEF PlugAnswers, database
<1>3. outcome \in {"extend", "insert", "discard"}
  BY TaskType, OutcomeType DEF BackfillInvariant, EnergyInvariant
<1>. HIDE DEF outcome
<1>4. PICK task : Plain(task) /\ tasks' = [tasks EXCEPT ![s] = task]
  BY <1>1, <1>3, PlainTasks DEF Ends, Goes, outcome
<1>. QED BY <1>2, <1>4, PlainOwns, StandingOwns

LEMMA ExtendOwns ==
  ASSUME BackfillInvariant, EnergyInvariant', NEW s \in Slots, Extend(s)
  PROVE  BackfillInvariant'
<1>. DEFINE t == tasks[s]
            r == Newest(rows)
            merged == Extended(r, t.pulse)
            task == [t EXCEPT !.pc = "adopt", !.row = r.copy.id,
                              !.copy = merged.copy,
                              !.arm = HasEvse /\ ~merged.evse]
<1>0. /\ TypeInvariant /\ TypeInvariant' /\ UniqueIds
      /\ t \in Task /\ t.kind = "close" /\ UNCHANGED <<nextId, pending>>
  BY TaskType DEF BackfillInvariant, EnergyInvariant, Extend
<1>1. CASE rows = {}
  <2>1. /\ tasks' = [tasks EXCEPT ![s] = Carries(t.gen, t.pulse, "insert", soc)]
        /\ UNCHANGED rows
    BY <1>1 DEF Extend, Goes, NothingToExtend
  <2>. QED BY <1>0, <2>1, PlainTasks, PlainOwns, StandingOwns
<1>2. CASE rows # {}
  <2>1. rows' = (rows \ {r}) \cup {merged} /\ tasks' = [tasks EXCEPT ![s] = task]
    BY <1>2 DEF Extend, Goes
  <2>2. r \in rows /\ r \in Row /\ r.copy.id < nextId
    BY <1>0, <1>2, NewestExists DEF TypeInvariant, TypeOK, Bounded
  <2>. HIDE DEF r
  <2>3. /\ merged.energy = r.energy \cup {t.pulse.of}
        /\ merged.copy.id = r.copy.id
    BY <2>2 DEF Extended, Row, Copy
  <2>. HIDE DEF merged
  <2>4. /\ task.kind = "close" /\ task.pc = "adopt"
        /\ task.copy = merged.copy /\ task.pulse = t.pulse
    BY <1>0 DEF Task
  <2>. HIDE DEF task
  <2>5. Continues /\ UniqueIds'
    <3>1. nextId' = nextId /\ nextId \in Nat
      BY <1>0 DEF TypeInvariant, TypeOK
    <3>2. Continues
      BY <2>1, <2>2, <2>3, <3>1 DEF Continues
    <3>3. UniqueIds'
      BY <1>0, <2>1, <2>2, <2>3 DEF UniqueIds
    <3>. QED BY <3>2, <3>3
  <2>6. Names(task.copy.id, task.pulse.of, rows', nextId')
    BY <1>0, <2>1, <2>2, <2>3, <2>4 DEF Names, UniqueIds
  <2>7. Owns(task, rows', nextId')
    BY <2>4, <2>6 DEF Owns
  <2>8. \A b \in pending' : b \in pending
    BY <1>0
  <2>. QED BY <2>1, <2>5, <2>7, <2>8, StepOwns
<1>. QED BY <1>1, <1>2

LEMMA InsertOwns ==
  ASSUME BackfillInvariant, EnergyInvariant', NEW s \in Slots, Insert(s)
  PROVE  BackfillInvariant'
<1>. DEFINE t == tasks[s]
            copy == [t.copy EXCEPT !.id = FreshId]
            new == [copy |-> copy,
                    energy |-> IF t.kind = "close" THEN {t.pulse.of} ELSE {},
                    evse |-> t.pulse.evse]
<1>0. /\ TypeInvariant /\ TypeInvariant' /\ UniqueIds
      /\ t \in Task /\ t.pc = "insert" /\ UNCHANGED pending
      /\ Owns(t, rows, nextId)
  BY TaskType DEF BackfillInvariant, EnergyInvariant, Insert
<1>1. PICK atHome \in BOOLEAN :
        Goes(s, [t EXCEPT !.pc = "adopt", !.copy = copy,
                          !.arm = /\ HasEvse /\ t.kind = "close" /\ atHome
                                  /\ ~t.pulse.evse])
  BY DEF Insert
<1>. DEFINE task == [t EXCEPT !.pc = "adopt", !.copy = copy,
                              !.arm = /\ HasEvse /\ t.kind = "close" /\ atHome
                                      /\ ~t.pulse.evse]
<1>2. /\ rows' = rows \cup {new} /\ tasks' = [tasks EXCEPT ![s] = task]
      /\ nextId' = nextId + 1 /\ nextId \in Nat
  BY <1>0, <1>1 DEF Insert, Goes, FreshId, TypeInvariant, TypeOK
<1>3. /\ new.copy.id = nextId
      /\ new.energy = IF t.kind = "close" THEN {t.pulse.of} ELSE {}
  <2>1. copy.id = nextId
    BY <1>0 DEF Task, Copy, FreshId
  <2>. QED BY <2>1
<1>4. /\ task.kind = t.kind /\ task.pc = "adopt" /\ task.copy.id = nextId
      /\ task.pulse = t.pulse /\ task.row = t.row
      /\ task.arm => t.kind = "close"
  <2>1. copy.id = nextId
    BY <1>0 DEF Task, Copy, FreshId
  <2>. HIDE DEF copy
  <2>. QED BY <1>0, <2>1 DEF Task
<1>. HIDE DEF new, task
<1>5. \A q \in rows : q.copy.id \in Nat /\ q.copy.id < nextId
  BY <1>0 DEF TypeInvariant, TypeOK, Bounded, Row, Copy
<1>6. Continues
  BY <1>2, <1>3 DEF Continues
<1>7. UniqueIds'
  BY <1>0, <1>2, <1>3, <1>5 DEF UniqueIds
<1>8. Owns(task, rows', nextId')
  <2>1. t.kind = "backfill" /\ t.pulse.of # 0 =>
          Names(t.row, t.pulse.of, rows', nextId')
    <3>1. t.row \in Nat
      BY <1>0 DEF Task
    <3>. QED BY <1>0, <1>6, <3>1, NamesContinue DEF Owns
  <2>2. t.kind = "close" => Names(nextId, t.pulse.of, rows', nextId')
    BY <1>2, <1>3, <1>5 DEF Names
  <2>. QED BY <1>4, <2>1, <2>2 DEF Owns
<1>9. \A b \in pending' : b \in pending
  BY <1>0
<1>. QED BY <1>2, <1>6, <1>7, <1>8, <1>9, StepOwns

LEMMA AdoptOwns ==
  ASSUME BackfillInvariant, EnergyInvariant', NEW s \in Slots, Adopt(s)
  PROVE  BackfillInvariant'
<1>. DEFINE t == tasks[s]
<1>0. /\ t \in Task /\ t.pc = "adopt" /\ Owns(t, rows, nextId)
      /\ UNCHANGED <<rows, nextId, pending>>
  BY TaskType DEF BackfillInvariant, EnergyInvariant, Adopt, database
<1>1. CASE t.arm /\ Goes(s, [t EXCEPT !.pc = "replay"])
  <2>. DEFINE task == [t EXCEPT !.pc = "replay"]
  <2>1. /\ task.kind = t.kind /\ task.pc = "replay" /\ task.copy = t.copy
        /\ task.pulse = t.pulse /\ task.row = t.row /\ task.arm = t.arm
    BY <1>0 DEF Task
  <2>2. tasks' = [tasks EXCEPT ![s] = task]
    BY <1>1 DEF Goes
  <2>. HIDE DEF task
  <2>3. Owns(task, rows, nextId)
    BY <1>0, <1>1, <2>1 DEF Owns
  <2>. QED BY <1>0, <2>2, <2>3, StandingOwns
<1>2. CASE t.kind = "set" /\ Goes(s, [t EXCEPT !.pc = "refresh"])
  <2>. DEFINE task == [t EXCEPT !.pc = "refresh"]
  <2>1. ~t.arm
    BY <1>0, <1>2 DEF Owns
  <2>2. Plain(task) /\ tasks' = [tasks EXCEPT ![s] = task]
    BY <1>0, <1>2, <2>1 DEF Plain, Task, Goes
  <2>. QED BY <1>0, <2>2, PlainOwns, StandingOwns
<1>3. CASE Ends(s)
  BY <1>0, <1>3, PlainTasks, PlainOwns, StandingOwns DEF Ends, Goes
<1>4. \/ t.arm /\ Goes(s, [t EXCEPT !.pc = "replay"])
      \/ t.kind = "set" /\ Goes(s, [t EXCEPT !.pc = "refresh"])
      \/ Ends(s)
  BY DEF Adopt
<1>. QED BY <1>1, <1>2, <1>3, <1>4

LEMMA ReplayedOwns ==
  ASSUME BackfillInvariant, EnergyInvariant', NEW s \in Slots, Replayed(s)
  PROVE  BackfillInvariant'
<1>. DEFINE t == tasks[s]
<1>1. /\ Names(t.copy.id, t.pulse.of, rows, nextId)
      /\ pending' = Arms(t) /\ UNCHANGED <<rows, nextId>>
      /\ tasks' = [tasks EXCEPT ![s] = NoTask]
  BY DEF Replayed, BackfillInvariant, Owns, database, Ends, Goes
<1>2. \A b \in pending' : b \in pending \/ Names(b.row, b.of, rows', nextId')
  BY <1>1 DEF Arms
<1>3. Continues /\ UniqueIds'
  BY <1>1, SameTable DEF BackfillInvariant, EnergyInvariant
<1>. QED BY <1>1, <1>2, <1>3, PlainTasks, PlainOwns, StepOwns

LEMMA PriceOwns ==
  ASSUME BackfillInvariant, EnergyInvariant', NEW s \in Slots, Price(s)
  PROVE  BackfillInvariant'
<1>. DEFINE t == tasks[s]
<1>0. /\ t \in Task /\ t.pc = "price" /\ Owns(t, rows, nextId)
      /\ UNCHANGED <<rows, nextId, pending>>
  BY TaskType DEF BackfillInvariant, EnergyInvariant, Price, database
<1>1. CASE Ends(s)
  BY <1>0, <1>1, PlainTasks, PlainOwns, StandingOwns DEF Ends, Goes
<1>2. CASE \E r : Goes(s, [t EXCEPT !.pc = "adopt", !.copy = r.copy])
  <2>1. PICK r : Goes(s, [t EXCEPT !.pc = "adopt", !.copy = r.copy])
    BY <1>2
  <2>. DEFINE task == [t EXCEPT !.pc = "adopt", !.copy = r.copy]
  <2>2. /\ task.kind = t.kind /\ task.pc = "adopt" /\ task.row = t.row
        /\ task.pulse = t.pulse /\ task.arm = t.arm
    BY <1>0 DEF Task
  <2>3. tasks' = [tasks EXCEPT ![s] = task]
    BY <2>1 DEF Goes
  <2>. HIDE DEF task
  <2>4. Owns(task, rows, nextId)
    BY <1>0, <2>2 DEF Owns
  <2>. QED BY <1>0, <2>3, <2>4, StandingOwns
<1>. QED BY <1>1, <1>2 DEF Price

LEMMA PatchOwns ==
  ASSUME BackfillInvariant, EnergyInvariant', NEW s \in Slots, Patch(s)
  PROVE  BackfillInvariant'
<1>. DEFINE t == tasks[s]
<1>0. /\ TypeInvariant /\ TypeInvariant' /\ UniqueIds
      /\ t \in Task /\ t.pc = "patch" /\ Owns(t, rows, nextId)
      /\ UNCHANGED <<nextId, pending>>
  BY TaskType DEF BackfillInvariant, EnergyInvariant, Patch
<1>1. CASE Ends(s) /\ UNCHANGED <<rows, disturbed>>
  BY <1>0, <1>1, PlainTasks, PlainOwns, StandingOwns DEF Ends, Goes
<1>2. CASE \E r \in rows : \E p \in Row : Patches(s, r, p)
  <2>0. PICK r \in rows : \E p \in Row : Patches(s, r, p)
    BY <1>2
  <2>1. PICK p \in Row : Patches(s, r, p)
    BY <2>0
  <2>. DEFINE task == [t EXCEPT !.pc = "adopt", !.copy = p.copy]
  <2>2. p.energy = r.energy /\ p.copy.id = r.copy.id
    BY <2>1 DEF Patches
  <2>3. rows' = (rows \ {r}) \cup {p} /\ tasks' = [tasks EXCEPT ![s] = task]
    BY <2>1 DEF Patches, Goes
  <2>4. /\ task.kind = t.kind /\ task.pc = "adopt" /\ task.row = t.row
        /\ task.pulse = t.pulse /\ task.arm = t.arm
    BY <1>0 DEF Task
  <2>. HIDE DEF task
  <2>5. Continues
    <3>1. nextId \in Nat /\ nextId' = nextId
      BY <1>0 DEF TypeInvariant, TypeOK
    <3>. QED BY <2>2, <2>3, <3>1 DEF Continues
  <2>6. UniqueIds'
    BY <1>0, <2>2, <2>3 DEF UniqueIds
  <2>7. Owns(task, rows', nextId')
    <3>1. Owns(t, rows', nextId')
      BY <1>0, <2>5, OwnsContinues
    <3>2. ~t.arm
      BY <1>0 DEF Owns
    <3>. QED BY <2>4, <3>1, <3>2 DEF Owns
  <2>8. \A b \in pending' : b \in pending
    BY <1>0
  <2>. QED BY <2>3, <2>5, <2>6, <2>7, <2>8, StepOwns
<1>. QED BY <1>0, <1>1, <1>2, PatchSteps DEF TypeInvariant, TypeOK

LEMMA ReadOwns ==
  ASSUME BackfillInvariant, EnergyInvariant', NEW s \in Slots, Read(s)
  PROVE  BackfillInvariant'
<1>. DEFINE t == tasks[s]
            task == [t EXCEPT !.pc = "patch"]
<1>0. /\ t \in Task /\ t.pc = "read" /\ Owns(t, rows, nextId)
      /\ UNCHANGED <<rows, nextId, pending>>
  BY TaskType DEF BackfillInvariant, EnergyInvariant, Read, database
<1>1. /\ task.kind = t.kind /\ task.pc = "patch" /\ task.row = t.row
      /\ task.pulse = t.pulse /\ task.arm = t.arm
  BY <1>0 DEF Task
<1>2. Ends(s) \/ Goes(s, task)
  BY DEF Read
<1>. HIDE DEF task
<1>3. Owns(task, rows, nextId) /\ Owns(NoTask, rows, nextId)
  BY <1>0, <1>1, PlainTasks, PlainOwns DEF Owns
<1>. QED BY <1>0, <1>2, <1>3, StandingOwns DEF Ends, Goes

LEMMA DeleteOwns ==
  ASSUME BackfillInvariant, EnergyInvariant', NEW s \in Slots, Delete(s)
  PROVE  BackfillInvariant'
<1>. DEFINE t == tasks[s]
            task == [t EXCEPT !.pc = "refresh"]
<1>0. /\ TypeInvariant /\ TypeInvariant' /\ UniqueIds
      /\ t \in Task /\ t.pc = "delete" /\ Owns(t, rows, nextId)
      /\ UNCHANGED <<nextId, pending>>
  BY TaskType DEF BackfillInvariant, EnergyInvariant, Delete
<1>1. CASE Ends(s) /\ UNCHANGED rows
  BY <1>0, <1>1, PlainTasks, PlainOwns, StandingOwns DEF Ends, Goes
<1>2. CASE Goes(s, task) /\ rows' = rows \ {Newest(rows)}
  <2>1. /\ task.kind = t.kind /\ task.pc = "refresh" /\ task.row = t.row
        /\ task.pulse = t.pulse /\ task.arm = t.arm
    BY <1>0 DEF Task
  <2>. HIDE DEF task
  <2>2. rows' \subseteq rows
    BY <1>2
  <2>3. Continues
    <3>1. nextId \in Nat /\ nextId' = nextId
      BY <1>0 DEF TypeInvariant, TypeOK
    <3>. QED BY <2>2, <3>1 DEF Continues
  <2>4. UniqueIds'
    BY <1>0, <2>2 DEF UniqueIds
  <2>5. Owns(task, rows', nextId')
    <3>1. Owns(t, rows', nextId')
      BY <1>0, <2>3, OwnsContinues
    <3>2. ~t.arm
      BY <1>0 DEF Owns
    <3>. QED BY <2>1, <3>1, <3>2 DEF Owns
  <2>6. \A b \in pending' : b \in pending
    BY <1>0
  <2>. QED BY <1>2, <2>3, <2>4, <2>5, <2>6, StepOwns DEF Goes
<1>. QED BY <1>1, <1>2 DEF Delete, Deleted

LEMMA RefreshOwns ==
  ASSUME BackfillInvariant, EnergyInvariant', NEW s \in Slots, Refresh(s)
  PROVE  BackfillInvariant'
<1>. DEFINE t == tasks[s]
            task == [t EXCEPT !.kind = "delete", !.pc = "adopt",
                              !.copy = LastChargeIn(rows)]
<1>0. /\ t \in Task /\ t.pc = "refresh" /\ Owns(t, rows, nextId)
      /\ UNCHANGED <<rows, nextId, pending>>
      /\ tasks' = [tasks EXCEPT ![s] = task]
  BY TaskType DEF BackfillInvariant, EnergyInvariant, Refresh, database, Goes
<1>1. Plain(task)
  <2>1. ~t.arm
    BY <1>0 DEF Owns
  <2>. QED BY <1>0, <2>1 DEF Plain, Task
<1>. HIDE DEF task
<1>. QED BY <1>0, <1>1, PlainOwns, StandingOwns

LEMMA TaskFailsOwns ==
  ASSUME BackfillInvariant, EnergyInvariant', NEW s \in Slots, TaskFails(s)
  PROVE  BackfillInvariant'
<1>1. UNCHANGED <<rows, nextId, pending>> /\ tasks' = [tasks EXCEPT ![s] = NoTask]
  BY DEF TaskFails, database, Ends, Goes
<1>. QED BY <1>1, PlainTasks, PlainOwns, StandingOwns

LEMMA CallOwns ==
  ASSUME BackfillInvariant, EnergyInvariant', NEW service, NEW task,
         Call(service, task), Owns([task EXCEPT !.gen = gen], rows, nextId)
  PROVE  BackfillInvariant'
<1>. DEFINE started == [task EXCEPT !.gen = gen]
<1>1. Suspend(started) /\ UNCHANGED <<rows, nextId, pending>>
  BY DEF Call, database
<1>. HIDE DEF started
<1>2. Owns(started, rows, nextId)
  BY DEF started
<1>. QED BY <1>1, <1>2, SuspendOwns

LEMMA SuspendedOwns ==
  ASSUME BackfillInvariant, EnergyInvariant',
         \/ LogCharge \/ SetLastChargePrice \/ SetChargePriceById
         \/ SetCharge \/ DeleteLastCharge \/ BackfillChargeEvse
         \/ EvseBackfillFires
  PROVE  BackfillInvariant'
<1>1. CASE LogCharge
  BY <1>1, CallOwns DEF LogCharge, NoTask, Owns
<1>2. CASE SetLastChargePrice
  BY <1>2, CallOwns DEF SetLastChargePrice, NoTask, Owns
<1>3. CASE SetChargePriceById
  BY <1>3, CallOwns DEF SetChargePriceById, NoTask, Owns
<1>4. CASE SetCharge
  BY <1>4, CallOwns DEF SetCharge, NoTask, Owns
<1>5. CASE DeleteLastCharge
  BY <1>5, CallOwns DEF DeleteLastCharge, NoTask, Owns
\* Called by the user, a backfill is about no session in particular.
<1>6. CASE BackfillChargeEvse
  BY <1>6, CallOwns DEF BackfillChargeEvse, NoTask, NoPulse, Owns
<1>7. CASE EvseBackfillFires
  <2>1. PICK b \in pending :
          /\ pending' = pending \ {b}
          /\ Suspend([NoTask EXCEPT !.kind = "backfill", !.pc = "read",
                                    !.gen = b.gen, !.row = b.row,
                                    !.pulse.of = b.of])
    BY <1>7 DEF EvseBackfillFires
  <2>. DEFINE task == [NoTask EXCEPT !.kind = "backfill", !.pc = "read",
                                     !.gen = b.gen, !.row = b.row,
                                     !.pulse.of = b.of]
  <2>2. /\ task.row = b.row /\ task.pulse.of = b.of
        /\ ~task.arm /\ task.pc = "read"
    BY DEF NoTask, NoPulse
  <2>3. UNCHANGED <<rows, nextId>> /\ Suspend(task)
    BY <1>7, <2>1 DEF EvseBackfillFires, database
  <2>. HIDE DEF task
  <2>4. Owns(task, rows, nextId)
    BY <2>2 DEF Owns, BackfillInvariant
  <2>5. pending' \subseteq pending
    BY <2>1
  <2>. QED BY <2>3, <2>4, <2>5, SuspendOwns
<1>. QED BY <1>1, <1>2, <1>3, <1>4, <1>5, <1>6, <1>7

LEMMA NextOwns ==
  ASSUME BackfillInvariant, [Next]_vars PROVE BackfillInvariant'
<1>0. EnergyInvariant'
  BY NextEnergy DEF BackfillInvariant
<1>1. CASE Tick \/ Drive \/ SessionOpens \/ Reload \/ Crash \/ UNCHANGED vars
  <2>1. /\ UNCHANGED <<rows, nextId>> /\ pending' \subseteq pending
        /\ tasks' = tasks \/ tasks' = [s \in Slots |-> NoTask]
    BY <1>1 DEF Tick, Drive, SessionOpens, Reload, Crash, Restarts, vars,
                database, counters
  <2>. QED BY <1>0, <2>1, StillOwns
<1>. QED BY <1>0, <1>1, CloseOwns, SuspendedOwns, PlugAnswersOwns, ExtendOwns,
            InsertOwns, AdoptOwns, ReplayedOwns, PriceOwns, PatchOwns, ReadOwns,
            DeleteOwns, RefreshOwns, TaskFailsOwns
         DEF Next

\* A deferred EVSE backfill, armed or running, knows by its id either a row
\* that holds the session it was scheduled for or no row at all: merges,
\* corrections, deletions and later inserts notwithstanding.
THEOREM ChargeBackfillsOwnRow == Spec => []BackfillsOwnRow
<1>1. BackfillInvariant => BackfillsOwnRow
  BY DEF BackfillInvariant, BackfillsOwnRow, Owns, Names, RowsOf
<1>. QED BY <1>1, InitOwns, NextOwns, PTL DEF Spec
-----------------------------------------------------------------------------
(***************************************************************************)
(* self.last_charge is the newest row of the log.                          *)
(*                                                                         *)
(* The copy and the log part when a coroutine writes and meet when it      *)
(* adopts what it wrote.  So the invariant says of the one coroutine in    *)
(* flight what adopting its copy will do, and of the log which row is the  *)
(* newest after each write.                                                *)
(***************************************************************************)
(* The newest row.                                                         *)
NewestOf(r, table) ==
  /\ r \in table
  /\ \A q \in table \ {r} : \/ q.copy.end < r.copy.end
                            \/ q.copy.end = r.copy.end /\ q.copy.id < r.copy.id

LEMMA NewestIsOne ==
  ASSUME NEW table, table \subseteq Row, NEW r, NewestOf(r, table)
  PROVE  Newest(table) = r /\ LastChargeIn(table) = r.copy
<1>1. \A q \in table : q.copy.end \in Nat /\ q.copy.id \in Nat
  BY DEF Row, Copy
<1>2. IsNewest(r, table)
  BY <1>1 DEF NewestOf, IsNewest
<1>3. ASSUME NEW q, IsNewest(q, table) PROVE q = r
  BY <1>1, <1>3 DEF NewestOf, IsNewest
<1>4. Newest(table) = r
  BY <1>2, <1>3 DEF Newest, IsNewest
<1>. QED BY <1>4 DEF NewestOf, LastChargeIn

LEMMA NewestExistsOnce ==
  ASSUME TypeInvariant, UniqueIds, rows # {}
  PROVE  NewestOf(Newest(rows), rows) /\ LastChargeIn(rows) = Newest(rows).copy
<1>1. Newest(rows) \in rows /\ IsNewest(Newest(rows), rows)
  BY NewestExists DEF TypeInvariant, TypeOK
<1>2. \A q \in rows : q.copy.end \in Nat /\ q.copy.id \in Nat
  BY DEF TypeInvariant, TypeOK, Row, Copy
<1>3. NewestOf(Newest(rows), rows)
  <2>. DEFINE n == Newest(rows)
  <2>. HIDE DEF n
  <2>1. n \in rows /\ IsNewest(n, rows)
    BY <1>1 DEF n
  <2>2. NewestOf(n, rows)
    BY <1>2, <2>1 DEF IsNewest, NewestOf, UniqueIds
  <2>. QED BY <2>2 DEF n
<1>. QED BY <1>3 DEF LastChargeIn

\* A row replaced by one with its id and end is the newest if it was.
LEMMA NewestReplaced ==
  ASSUME TypeInvariant, TypeInvariant', UniqueIds, NEW r \in rows, NEW p,
         rows' = (rows \ {r}) \cup {p},
         p.copy.id = r.copy.id, p.copy.end = r.copy.end
  PROVE  LastChargeIn(rows') =
           IF LastChargeIn(rows).id = r.copy.id THEN p.copy
                                                ELSE LastChargeIn(rows)
<1>. DEFINE n == Newest(rows)
<1>1. NewestOf(n, rows) /\ LastChargeIn(rows) = n.copy
  BY NewestExistsOnce
<1>2. rows' \subseteq Row
  BY DEF TypeInvariant, TypeOK
<1>. HIDE DEF n
<1>3. CASE n = r
  <2>1. NewestOf(p, rows')
    BY <1>1, <1>3 DEF NewestOf
  <2>. QED BY <1>1, <1>2, <1>3, <2>1, NewestIsOne
<1>4. CASE n # r
  <2>1. NewestOf(n, rows') /\ n.copy.id # r.copy.id
    BY <1>1, <1>4 DEF NewestOf, UniqueIds
  <2>. QED BY <1>1, <1>2, <2>1, NewestIsOne
<1>. QED BY <1>3, <1>4
-----------------------------------------------------------------------------
(* What a coroutine is doing, and what its copy is good for.               *)
BusyTask(t) == t.kind # "none" /\ t.pc # "replay"

Shape(t) ==
  /\ t.kind = "none" => t.pc = "done"
  /\ t.pc \in {"plug", "extend"} => t.kind = "close"
  /\ t.pc = "insert" => t.kind \in {"close", "log"}
  /\ t.pc = "price" => t.kind = "price"
  /\ t.pc = "patch" => t.kind \in {"set", "backfill"}
  /\ t.pc = "delete" => t.kind = "delete"
  /\ t.pc = "read" => t.kind = "backfill"
  /\ t.pc = "refresh" => t.kind \in {"delete", "set"}

\* No time passes while a coroutine is suspended.
Prompt(t, at) ==
  /\ t.kind = "close" => t.pulse.at = at
  /\ t.pc = "insert" => t.copy.end = at

\* Until it has written, self.last_charge (last) is the newest row of the
\* table; once it has, either it still is and will be kept, or the
\* coroutine's copy is and will be adopted by the coordinator loaded (g).  A
\* set_charge that patched a row other than the one held reads the log again.
Expects(t, g, last, table) ==
  /\ t.kind # "backfill" => t.gen = g
  /\ t.pc \notin {"adopt", "refresh"} => last = LastChargeIn(table)
  /\ t.pc = "adopt" =>
       \/ /\ t.kind \in {"set", "backfill"}
          /\ t.kind = "backfill" => last = LastChargeIn(table)
          /\ t.gen # g \/ last.id # t.row
       \/ /\ t.gen = g
          /\ t.copy = LastChargeIn(table)
          /\ t.kind \in {"set", "backfill"} => last.id = t.row

Current == lastCharge[gen] = LastChargeIn(rows)

InStep ==
  /\ \A s1, s2 \in Slots :
       BusyTask(tasks[s1]) /\ BusyTask(tasks[s2]) => s1 = s2
  /\ (\A s \in Slots : ~BusyTask(tasks[s])) => Current
  /\ \A s \in Slots :
       BusyTask(tasks[s]) => Expects(tasks[s], gen, lastCharge[gen], rows)
  /\ EndsBy(rows, now)

CopyInvariant ==
  /\ BackfillInvariant
  /\ \A s \in Slots : Shape(tasks[s]) /\ Prompt(tasks[s], now)
  /\ ~disturbed => InStep

LEMMA IdleTask == Shape(NoTask) /\ ~BusyTask(NoTask) /\ \A at : Prompt(NoTask, at)
BY DEF Shape, BusyTask, Prompt, NoTask

\* A coroutine suspended on a database call goes on, ends, or fails.
LEMMA MoveKeeps ==
  ASSUME CopyInvariant, BackfillInvariant', gen' = gen, now' = now,
         disturbed => disturbed',
         NEW s \in Slots, NEW task, tasks' = [tasks EXCEPT ![s] = task],
         BusyTask(tasks[s]), Shape(task), Prompt(task, now),
         ~disturbed' => \/ /\ BusyTask(task)
                           /\ Expects(task, gen, lastCharge'[gen], rows')
                        \/ /\ ~BusyTask(task)
                           /\ lastCharge'[gen] = LastChargeIn(rows'),
         rows' = rows \/ (~disturbed' => EndsBy(rows' \ rows, now))
  PROVE  CopyInvariant'
<1>1. \A q \in Slots : tasks'[q] = IF q = s THEN task ELSE tasks[q]
  BY DEF CopyInvariant, BackfillInvariant, EnergyInvariant, TypeInvariant, TypeOK
<1>2. \A q \in Slots : Shape(tasks'[q]) /\ Prompt(tasks'[q], now')
  BY <1>1 DEF CopyInvariant
<1>3. ASSUME ~disturbed' PROVE InStep'
  <2>1. InStep
    BY <1>3 DEF CopyInvariant
  <2>2. \A q \in Slots : q # s => ~BusyTask(tasks'[q])
    BY <1>1, <2>1 DEF InStep
  <2>5. EndsBy(rows', now')
    BY <1>3, <2>1 DEF InStep, EndsBy
  <2>3. CASE /\ BusyTask(task)
             /\ Expects(task, gen, lastCharge'[gen], rows')
    BY <1>1, <2>2, <2>3, <2>5 DEF InStep, EndsBy
  <2>4. CASE ~BusyTask(task) /\ lastCharge'[gen] = LastChargeIn(rows')
    BY <1>1, <2>2, <2>4, <2>5 DEF InStep, Current, EndsBy
  <2>. QED BY <1>3, <2>3, <2>4
<1>. QED BY <1>2, <1>3 DEF CopyInvariant

\* A coroutine starts.
LEMMA StartKeeps ==
  ASSUME CopyInvariant, BackfillInvariant',
         UNCHANGED <<gen, now, lastCharge, rows>>,
         NEW task, Suspend(task), BusyTask(task), Shape(task), Prompt(task, now),
         Current => Expects(task, gen, lastCharge[gen], rows)
  PROVE  CopyInvariant'
<1>1. PICK s \in Slots : /\ tasks[s] = NoTask
                         /\ tasks' = [tasks EXCEPT ![s] = task]
  BY DEF Suspend
<1>2. \A q \in Slots : tasks'[q] = IF q = s THEN task ELSE tasks[q]
  BY <1>1
     DEF CopyInvariant, BackfillInvariant, EnergyInvariant, TypeInvariant, TypeOK
<1>3. \A q \in Slots : Shape(tasks'[q]) /\ Prompt(tasks'[q], now')
  BY <1>2 DEF CopyInvariant
<1>4. ASSUME ~disturbed' PROVE InStep'
  <2>1. InStep /\ \A q \in Slots : ~BusyTask(tasks[q])
    BY <1>4 DEF Suspend, Busy, BusyTask, CopyInvariant
  <2>2. Current
    BY <2>1 DEF InStep
  <2>3. Expects(task, gen, lastCharge[gen], rows)
    BY <2>2
  <2>. QED BY <1>2, <2>1, <2>3 DEF InStep, EndsBy
<1>. QED BY <1>3, <1>4 DEF CopyInvariant

\* A coroutine that waits for no database call ends, or none moves.
LEMMA RestKeeps ==
  ASSUME CopyInvariant, BackfillInvariant',
         UNCHANGED <<gen, now, lastCharge, rows, disturbed>>,
         \/ UNCHANGED tasks
         \/ \E s \in Slots : /\ ~BusyTask(tasks[s])
                             /\ tasks' = [tasks EXCEPT ![s] = NoTask]
  PROVE  CopyInvariant'
<1>1. \A q \in Slots : \/ tasks'[q] = tasks[q]
                       \/ ~BusyTask(tasks[q]) /\ tasks'[q] = NoTask
  BY DEF CopyInvariant, BackfillInvariant, EnergyInvariant, TypeInvariant, TypeOK
<1>2. \A q \in Slots : Shape(tasks'[q]) /\ Prompt(tasks'[q], now')
  BY <1>1, IdleTask DEF CopyInvariant
<1>3. \A q \in Slots : /\ BusyTask(tasks'[q]) <=> BusyTask(tasks[q])
                       /\ BusyTask(tasks'[q]) => tasks'[q] = tasks[q]
  BY <1>1, IdleTask
<1>4. InStep => InStep'
  BY <1>3 DEF InStep, Current, EndsBy
<1>. QED BY <1>2, <1>4 DEF CopyInvariant
-----------------------------------------------------------------------------
\* What is known of the coroutine that moves.
LEMMA Mover ==
  ASSUME CopyInvariant, NEW s \in Slots,
         tasks[s].pc \notin {"done", "replay"}
  PROVE  /\ TypeInvariant /\ UniqueIds
         /\ tasks[s] \in Task /\ BusyTask(tasks[s]) /\ Shape(tasks[s])
         /\ Prompt(tasks[s], now) /\ Owns(tasks[s], rows, nextId)
         /\ ~disturbed => /\ Expects(tasks[s], gen, lastCharge[gen], rows)
                          /\ EndsBy(rows, now)
BY TaskType
   DEF CopyInvariant, BackfillInvariant, EnergyInvariant, Shape, BusyTask, InStep

LEMMA EndKeeps ==
  ASSUME CopyInvariant, BackfillInvariant', NEW s \in Slots, Ends(s),
         tasks[s].pc \notin {"done", "replay", "adopt", "refresh"},
         UNCHANGED <<gen, now, lastCharge, rows>>, disturbed => disturbed'
  PROVE  CopyInvariant'
<1>1. ~disturbed' => lastCharge'[gen] = LastChargeIn(rows')
  BY Mover DEF Expects
<1>. QED BY <1>1, Mover, IdleTask, MoveKeeps DEF Ends, Goes

LEMMA CarriesShape ==
  ASSUME NEW g, NEW pulse, NEW outcome \in {"plug", "extend", "insert"},
         NEW reading, pulse.at = now
  PROVE  LET task == Carries(g, pulse, outcome, reading)
         IN /\ BusyTask(task) /\ Shape(task) /\ Prompt(task, now)
            /\ task.kind = "close" /\ task.gen = g /\ task.pc = outcome
<1>. DEFINE copy == IF outcome = "insert" THEN NewCopy(pulse.start, reading)
                                          ELSE NoCopy
            task == [kind |-> "close", pc |-> outcome, gen |-> g,
                     pulse |-> pulse, row |-> 0, copy |-> copy, arm |-> FALSE]
<1>1. Carries(g, pulse, outcome, reading) = task
  <2>1. Carries(g, pulse, outcome, reading) =
          [NoTask EXCEPT !.kind = "close", !.gen = g, !.pulse = pulse,
                         !.pc = outcome, !.copy = copy]
    BY DEF Carries
  <2>. HIDE DEF copy
  <2>. QED BY <2>1 DEF NoTask
<1>2. outcome = "insert" => copy.end = now
  BY DEF NewCopy
<1>. HIDE DEF copy
<1>. QED BY <1>1, <1>2 DEF BusyTask, Shape, Prompt
-----------------------------------------------------------------------------
LEMMA InitCopy == ASSUME Init PROVE CopyInvariant
<1>1. BackfillInvariant /\ \A s \in Slots : tasks[s] = NoTask
  BY InitOwns DEF Init
<1>2. Current
  <2>1. gen \in Gens
    BY <1>1 DEF BackfillInvariant, EnergyInvariant, TypeInvariant, TypeOK
  <2>. QED BY <2>1 DEF Init, Current, LastChargeIn
<1>3. EndsBy(rows, now)
  BY DEF Init, EndsBy
<1>. QED BY <1>1, <1>2, <1>3, IdleTask DEF CopyInvariant, InStep

LEMMA CloseCopy ==
  ASSUME CopyInvariant, BackfillInvariant', SessionEnds
  PROVE  CopyInvariant'
<1>. PICK socEnd \in soc..MaxSoc, evse \in EvseReadings, plugged \in PlugReadings :
       LET last == lastCharge[gen]
           pulse == [of |-> session.id, start |-> session.start,
                     soc |-> session.soc, at |-> now, socEnd |-> socEnd,
                     dropped |-> Dropped(last, session.soc), evse |-> evse]
           asks == plugged /\ last # NoCopy /\ ~pulse.dropped
           outcome == Outcome(last, pulse, FALSE)
       IN /\ soc' = socEnd
          /\ IF socEnd = session.soc \/ (~asks /\ outcome = "discard")
               THEN /\ gone' = gone \cup {session.id}
                    /\ UNCHANGED <<tasks, disturbed>>
               ELSE /\ Suspend(IF asks
                                 THEN Carries(gen, pulse, "plug", socEnd)
                                 ELSE Carries(gen, pulse, outcome, socEnd))
                    /\ UNCHANGED gone
  BY DEF SessionEnds
<1>. DEFINE last == lastCharge[gen]
            pulse == [of |-> session.id, start |-> session.start,
                      soc |-> session.soc, at |-> now, socEnd |-> socEnd,
                      dropped |-> Dropped(last, session.soc), evse |-> evse]
            asks == plugged /\ last # NoCopy /\ ~pulse.dropped
            outcome == Outcome(last, pulse, FALSE)
            task == IF asks THEN Carries(gen, pulse, "plug", socEnd)
                            ELSE Carries(gen, pulse, outcome, socEnd)
<1>0. UNCHANGED <<gen, now, lastCharge, rows>>
  BY DEF SessionEnds, database
<1>1. CASE UNCHANGED <<tasks, disturbed>>
  BY <1>0, <1>1, RestKeeps
<1>2. CASE Suspend(task) /\ ~(~asks /\ outcome = "discard")
  <2>1. pulse \in Pulse
    <3>1. evse \in BOOLEAN /\ Dropped(last, session.soc) \in BOOLEAN
      BY ConstantsAssumption DEF EvseReadings, Dropped
    <3>2. session \in SessionRecord /\ now \in Nat /\ socEnd \in Nat
      BY ConstantsAssumption
         DEF CopyInvariant, BackfillInvariant, EnergyInvariant, TypeInvariant,
             TypeOK
    <3>. QED BY <3>1, <3>2 DEF Pulse, SessionRecord
  <2>2. outcome \in {"extend", "insert", "discard"} /\ pulse.at = now
    BY <2>1, OutcomeType
  <2>. HIDE DEF pulse, asks, outcome
  <2>3. /\ BusyTask(task) /\ Shape(task) /\ Prompt(task, now)
        /\ task.kind = "close" /\ task.gen = gen
        /\ task.pc \in {"plug", "extend", "insert"}
    <3>1. CASE asks
      BY <2>2, <3>1, CarriesShape
    <3>2. CASE ~asks
      BY <1>2, <2>2, <3>2, CarriesShape
    <3>. QED BY <3>1, <3>2
  <2>. HIDE DEF task
  <2>4. Current => Expects(task, gen, lastCharge[gen], rows)
    BY <2>3 DEF Expects, Current
  <2>. QED BY <1>0, <1>2, <2>3, <2>4, StartKeeps
<1>. QED BY <1>1, <1>2

LEMMA PlugAnswersCopy ==
  ASSUME CopyInvariant, BackfillInvariant', NEW s \in Slots, PlugAnswers(s)
  PROVE  CopyInvariant'
<1>. DEFINE t == tasks[s]
<1>1. PICK stayed \in BOOLEAN :
        LET outcome == Outcome(lastCharge[t.gen], t.pulse, stayed)
        IN IF outcome = "discard"
             THEN Ends(s) /\ gone' = gone \cup {t.pulse.of}
             ELSE /\ Goes(s, Carries(t.gen, t.pulse, outcome, soc))
                  /\ UNCHANGED gone
  BY DEF PlugAnswers
<1>. DEFINE outcome == Outcome(lastCharge[t.gen], t.pulse, stayed)
<1>2. UNCHANGED <<gen, now, lastCharge, rows, disturbed>> /\ t.pc = "plug"
  BY DEF PlugAnswers, car, database
<1>3. outcome \in {"extend", "insert", "discard"}
  BY <1>2, Mover, TaskType, OutcomeType
<1>4. CASE Ends(s)
  BY <1>2, <1>4, EndKeeps
<1>5. CASE /\ outcome # "discard"
           /\ Goes(s, Carries(t.gen, t.pulse, outcome, soc))
  <2>. DEFINE task == Carries(t.gen, t.pulse, outcome, soc)
  <2>1. t.kind = "close" /\ t.pulse.at = now
    BY <1>2, Mover DEF Shape, Prompt
  <2>. HIDE DEF outcome
  <2>2. /\ BusyTask(task) /\ Shape(task) /\ Prompt(task, now)
        /\ task.kind = "close" /\ task.gen = t.gen
        /\ task.pc \in {"extend", "insert"}
    BY <1>3, <1>5, <2>1, CarriesShape
  <2>3. tasks' = [tasks EXCEPT ![s] = task]
    BY <1>5 DEF Goes
  <2>. HIDE DEF task
  <2>4. ~disturbed' => Expects(task, gen, lastCharge'[gen], rows')
    BY <1>2, <2>1, <2>2, Mover DEF Expects
  <2>. QED BY <1>2, <2>2, <2>3, <2>4, Mover, MoveKeeps
<1>. QED BY <1>1, <1>4, <1>5

LEMMA ExtendCopy ==
  ASSUME CopyInvariant, BackfillInvariant', NEW s \in Slots, Extend(s)
  PROVE  CopyInvariant'
<1>. DEFINE t == tasks[s]
            r == Newest(rows)
            merged == Extended(r, t.pulse)
            task == [t EXCEPT !.pc = "adopt", !.row = r.copy.id,
                              !.copy = merged.copy,
                              !.arm = HasEvse /\ ~merged.evse]
<1>0. /\ UNCHANGED <<gen, now, lastCharge, disturbed>> /\ t.pc = "extend"
      /\ rows' \subseteq Row
  BY DEF Extend, car, BackfillInvariant, EnergyInvariant, TypeInvariant, TypeOK
<1>1. /\ TypeInvariant /\ UniqueIds /\ t \in Task
      /\ t.kind = "close" /\ t.pulse.at = now
      /\ ~disturbed => /\ Expects(t, gen, lastCharge[gen], rows)
                       /\ EndsBy(rows, now)
  BY <1>0, Mover DEF Shape, Prompt
<1>2. CASE rows = {}
  <2>. DEFINE inserts == Carries(t.gen, t.pulse, "insert", soc)
  <2>1. tasks' = [tasks EXCEPT ![s] = inserts] /\ UNCHANGED rows
    BY <1>2 DEF Extend, Goes, NothingToExtend
  <2>2. /\ BusyTask(inserts) /\ Shape(inserts) /\ Prompt(inserts, now)
        /\ inserts.kind = "close" /\ inserts.gen = t.gen
        /\ inserts.pc = "insert"
    BY <1>1, CarriesShape
  <2>. HIDE DEF inserts
  <2>3. ~disturbed' => Expects(inserts, gen, lastCharge'[gen], rows')
    BY <1>0, <1>1, <2>1, <2>2 DEF Expects
  <2>. QED BY <1>0, <2>1, <2>2, <2>3, Mover, MoveKeeps
<1>3. CASE rows # {}
  <2>1. rows' = (rows \ {r}) \cup {merged} /\ tasks' = [tasks EXCEPT ![s] = task]
    BY <1>3 DEF Extend, Goes
  <2>2. NewestOf(r, rows) /\ r \in Row
    BY <1>1, <1>3, NewestExistsOnce DEF NewestOf, TypeInvariant, TypeOK
  <2>. HIDE DEF r
  <2>3. merged.copy.id = r.copy.id /\ merged.copy.end = now
    BY <1>1, <2>2 DEF Extended, Row, Copy
  <2>. HIDE DEF merged
  <2>4. ~disturbed' => NewestOf(merged, rows') /\ EndsBy(rows' \ rows, now)
    <3>1. \A q \in rows : q.copy.end \in Nat /\ (~disturbed => q.copy.end <= now)
      BY <1>1 DEF TypeInvariant, TypeOK, Row, Copy, EndsBy
    <3>2. now \in Nat
      BY <1>1 DEF TypeInvariant, TypeOK
    <3>. QED BY <1>0, <2>1, <2>2, <2>3, <3>1, <3>2 DEF NewestOf, EndsBy
  <2>5. ~disturbed' => LastChargeIn(rows') = merged.copy
    BY <1>0, <2>4, NewestIsOne
  <2>6. /\ task.kind = "close" /\ task.pc = "adopt" /\ task.gen = t.gen
        /\ task.copy = merged.copy /\ task.pulse = t.pulse
    BY <1>1 DEF Task
  <2>. HIDE DEF task
  <2>7. BusyTask(task) /\ Shape(task) /\ Prompt(task, now)
    BY <1>1, <2>6 DEF BusyTask, Shape, Prompt
  <2>8. ~disturbed' => Expects(task, gen, lastCharge'[gen], rows')
    BY <1>0, <1>1, <2>5, <2>6 DEF Expects
  <2>. QED BY <1>0, <2>1, <2>4, <2>7, <2>8, Mover, MoveKeeps
<1>. QED BY <1>2, <1>3

LEMMA InsertCopy ==
  ASSUME CopyInvariant, BackfillInvariant', NEW s \in Slots, Insert(s)
  PROVE  CopyInvariant'
<1>. DEFINE t == tasks[s]
            copy == [t.copy EXCEPT !.id = FreshId]
            new == [copy |-> copy,
                    energy |-> IF t.kind = "close" THEN {t.pulse.of} ELSE {},
                    evse |-> t.pulse.evse]
<1>0. /\ UNCHANGED <<gen, now, lastCharge, disturbed>> /\ t.pc = "insert"
      /\ rows' = rows \cup {new} /\ rows' \subseteq Row
  BY DEF Insert, car, BackfillInvariant, EnergyInvariant, TypeInvariant, TypeOK
<1>1. /\ TypeInvariant /\ t \in Task /\ t.kind \in {"close", "log"}
      /\ Prompt(t, now) /\ t.copy.end = now
      /\ ~disturbed => /\ Expects(t, gen, lastCharge[gen], rows)
                       /\ EndsBy(rows, now)
  BY <1>0, Mover DEF Shape, Prompt
<1>2. PICK atHome \in BOOLEAN :
        Goes(s, [t EXCEPT !.pc = "adopt", !.copy = copy,
                          !.arm = /\ HasEvse /\ t.kind = "close" /\ atHome
                                  /\ ~t.pulse.evse])
  BY DEF Insert
<1>. DEFINE task == [t EXCEPT !.pc = "adopt", !.copy = copy,
                              !.arm = /\ HasEvse /\ t.kind = "close" /\ atHome
                                      /\ ~t.pulse.evse]
<1>3. copy.id = nextId /\ copy.end = now
  BY <1>1 DEF Task, Copy, FreshId
<1>. HIDE DEF copy
<1>4. /\ task.kind = t.kind /\ task.pc = "adopt" /\ task.gen = t.gen
      /\ task.copy = copy /\ task.pulse = t.pulse
  BY <1>1 DEF Task
<1>5. tasks' = [tasks EXCEPT ![s] = task] /\ new.copy = copy
  BY <1>2 DEF Goes
<1>. HIDE DEF task, new
<1>6. ~disturbed' => NewestOf(new, rows') /\ EndsBy(rows' \ rows, now)
  <2>1. \A q \in rows : /\ q.copy.end \in Nat /\ q.copy.id < nextId
                        /\ ~disturbed => q.copy.end <= now
    BY <1>1 DEF TypeInvariant, TypeOK, Bounded, Row, Copy, EndsBy
  <2>2. now \in Nat
    BY <1>1 DEF TypeInvariant, TypeOK
  <2>. QED BY <1>0, <1>3, <1>5, <2>1, <2>2 DEF NewestOf, EndsBy
<1>7. ~disturbed' => LastChargeIn(rows') = copy
  BY <1>0, <1>5, <1>6, NewestIsOne
<1>8. BusyTask(task) /\ Shape(task) /\ Prompt(task, now)
  BY <1>1, <1>4 DEF BusyTask, Shape, Prompt
<1>9. ~disturbed' => Expects(task, gen, lastCharge'[gen], rows')
  BY <1>0, <1>1, <1>4, <1>7 DEF Expects
<1>. QED BY <1>0, <1>5, <1>6, <1>8, <1>9, Mover, MoveKeeps

LEMMA AdoptCopy ==
  ASSUME CopyInvariant, BackfillInvariant', NEW s \in Slots, Adopt(s)
  PROVE  CopyInvariant'
<1>. DEFINE t == tasks[s]
            keeps == lastCharge[t.gen].id # t.row
<1>0. UNCHANGED <<gen, now, rows, disturbed>> /\ t.pc = "adopt"
  BY DEF Adopt, car, database
<1>1. /\ t \in Task /\ Prompt(t, now) /\ Owns(t, rows, nextId)
      /\ ~disturbed => Expects(t, gen, lastCharge[gen], rows)
      /\ lastCharge \in [Gens -> Copy] /\ gen \in Gens
  BY <1>0, Mover DEF TypeInvariant, TypeOK
<1>2. lastCharge' = IF t.kind \in {"set", "backfill"} /\ keeps
                      THEN lastCharge
                      ELSE [lastCharge EXCEPT ![t.gen] = t.copy]
  BY DEF Adopt
<1>3. ~disturbed' /\ ~(t.kind = "set" /\ keeps) =>
        lastCharge'[gen] = LastChargeIn(rows')
  BY <1>0, <1>1, <1>2 DEF Expects
<1>4. CASE t.arm /\ Goes(s, [t EXCEPT !.pc = "replay"])
  <2>. DEFINE task == [t EXCEPT !.pc = "replay"]
  <2>1. /\ task.pc = "replay" /\ task.kind = "close" /\ task.pulse = t.pulse
        /\ t.kind = "close"
    BY <1>1, <1>4 DEF Task, Owns
  <2>2. tasks' = [tasks EXCEPT ![s] = task]
    BY <1>4 DEF Goes
  <2>. HIDE DEF task
  <2>3. ~BusyTask(task) /\ Shape(task) /\ Prompt(task, now)
    BY <1>1, <2>1 DEF BusyTask, Shape, Prompt
  <2>4. ~disturbed' => lastCharge'[gen] = LastChargeIn(rows')
    BY <1>3, <2>1
  <2>. QED BY <1>0, <2>2, <2>3, <2>4, Mover, MoveKeeps
<1>5. CASE t.kind = "set" /\ Goes(s, [t EXCEPT !.pc = "refresh"])
  <2>. DEFINE task == [t EXCEPT !.pc = "refresh"]
  <2>1. task.pc = "refresh" /\ task.kind = "set" /\ task.gen = t.gen
    BY <1>1, <1>5 DEF Task
  <2>2. tasks' = [tasks EXCEPT ![s] = task]
    BY <1>5 DEF Goes
  <2>. HIDE DEF task
  <2>3. BusyTask(task) /\ Shape(task) /\ Prompt(task, now)
    BY <2>1 DEF BusyTask, Shape, Prompt
  <2>4. ~disturbed' => Expects(task, gen, lastCharge'[gen], rows')
    BY <1>0, <1>1, <1>5, <2>1 DEF Expects
  <2>. QED BY <1>0, <2>2, <2>3, <2>4, Mover, MoveKeeps
<1>6. CASE Ends(s) /\ ~(t.kind = "set" /\ keeps)
  BY <1>0, <1>3, <1>6, IdleTask, Mover, MoveKeeps DEF Ends, Goes
<1>7. \/ t.arm /\ Goes(s, [t EXCEPT !.pc = "replay"])
      \/ t.kind = "set" /\ Goes(s, [t EXCEPT !.pc = "refresh"])
      \/ Ends(s) /\ ~(t.kind = "set" /\ keeps)
  BY DEF Adopt
<1>. QED BY <1>4, <1>5, <1>6, <1>7

LEMMA ReplayedCopy ==
  ASSUME CopyInvariant, BackfillInvariant', NEW s \in Slots, Replayed(s)
  PROVE  CopyInvariant'
<1>1. /\ UNCHANGED <<gen, now, lastCharge, rows, disturbed>>
      /\ ~BusyTask(tasks[s]) /\ tasks' = [tasks EXCEPT ![s] = NoTask]
  BY DEF Replayed, car, database, BusyTask, Ends, Goes
<1>. QED BY <1>1, RestKeeps

LEMMA PriceCopy ==
  ASSUME CopyInvariant, BackfillInvariant', NEW s \in Slots, Price(s)
  PROVE  CopyInvariant'
<1>. DEFINE t == tasks[s]
<1>0. UNCHANGED <<gen, now, lastCharge, rows>> /\ t.pc = "price"
  BY DEF Price, car, database
<1>1. /\ TypeInvariant /\ UniqueIds /\ t \in Task /\ t.kind = "price"
      /\ ~disturbed => Expects(t, gen, lastCharge[gen], rows)
  BY <1>0, Mover DEF Shape
<1>2. CASE Ends(s) /\ UNCHANGED disturbed
  BY <1>0, <1>2, EndKeeps
<1>3. CASE \E r \in rows :
             /\ Goes(s, [t EXCEPT !.pc = "adopt", !.copy = r.copy])
             /\ disturbed' = (disturbed \/ ~IsNewest(r, rows))
  <2>1. PICK r \in rows :
             /\ Goes(s, [t EXCEPT !.pc = "adopt", !.copy = r.copy])
             /\ disturbed' = (disturbed \/ ~IsNewest(r, rows))
    BY <1>3
  <2>. DEFINE task == [t EXCEPT !.pc = "adopt", !.copy = r.copy]
  <2>2. /\ task.kind = "price" /\ task.pc = "adopt" /\ task.gen = t.gen
        /\ task.copy = r.copy
    BY <1>1 DEF Task
  <2>3. tasks' = [tasks EXCEPT ![s] = task]
    BY <2>1 DEF Goes
  <2>. HIDE DEF task
  <2>4. IsNewest(r, rows) => LastChargeIn(rows) = r.copy
    <3>1. \A q \in rows : q.copy.end \in Nat /\ q.copy.id \in Nat
      BY <1>1 DEF TypeInvariant, TypeOK, Row, Copy
    <3>2. IsNewest(r, rows) => NewestOf(r, rows)
      BY <1>1, <3>1 DEF IsNewest, NewestOf, UniqueIds
    <3>. QED BY <1>1, <3>2, NewestIsOne DEF TypeInvariant, TypeOK
  <2>5. BusyTask(task) /\ Shape(task) /\ Prompt(task, now)
    BY <2>2 DEF BusyTask, Shape, Prompt
  <2>6. ~disturbed' => Expects(task, gen, lastCharge'[gen], rows')
    BY <1>0, <1>1, <2>1, <2>2, <2>4 DEF Expects
  <2>. QED BY <1>0, <2>1, <2>3, <2>5, <2>6, Mover, MoveKeeps
<1>. QED BY <1>2, <1>3 DEF Price, UpdateLastCharge, UpdateChargeById, RowsOf

\* A backfill's row goes on being the copy it was.  set_charge may move its
\* row; unless that disturbs the log, the row held is the newest after it and
\* any other is found by reading the log again.
LEMMA PatchCopy ==
  ASSUME CopyInvariant, BackfillInvariant', NEW s \in Slots, Patch(s)
  PROVE  CopyInvariant'
<1>. DEFINE t == tasks[s]
<1>0. UNCHANGED <<gen, now, lastCharge>> /\ t.pc = "patch"
  BY DEF Patch, car
<1>1. /\ TypeInvariant /\ TypeInvariant' /\ UniqueIds /\ UniqueIds'
      /\ t \in Task /\ t.kind \in {"set", "backfill"}
      /\ ~disturbed => /\ Expects(t, gen, lastCharge[gen], rows)
                       /\ EndsBy(rows, now)
      /\ rows \subseteq Row /\ rows' \subseteq Row /\ now \in Nat
  BY <1>0, Mover DEF Shape, BackfillInvariant, EnergyInvariant, TypeInvariant,
                     TypeOK
<1>2. CASE Ends(s) /\ UNCHANGED <<rows, disturbed>>
  BY <1>0, <1>2, EndKeeps
<1>3. CASE \E r \in rows : \E p \in Row : Patches(s, r, p)
  <2>1. PICK r \in rows : \E p \in Row : Patches(s, r, p)
    BY <1>3
  <2>2. PICK p \in Row : Patches(s, r, p)
    BY <2>1
  <2>. DEFINE task == [t EXCEPT !.pc = "adopt", !.copy = p.copy]
  <2>3. /\ rows' = (rows \ {r}) \cup {p} /\ tasks' = [tasks EXCEPT ![s] = task]
        /\ p.copy.id = r.copy.id /\ r.copy.id = t.row
        /\ t.kind = "backfill" => p.copy = r.copy
        /\ t.kind = "set" /\ ~disturbed' => ~Moves(p, t.gen, rows')
        /\ disturbed => disturbed'
    BY <2>2 DEF Patches, Goes
  <2>4. /\ task.kind = t.kind /\ task.pc = "adopt" /\ task.row = t.row
        /\ task.gen = t.gen /\ task.copy = p.copy
    BY <1>1 DEF Task
  <2>. HIDE DEF task
  <2>5. BusyTask(task) /\ Shape(task) /\ Prompt(task, now)
    BY <1>1, <2>4 DEF BusyTask, Shape, Prompt
  <2>6. \A q \in rows' : q.copy.end \in Nat /\ q.copy.id \in Nat
    BY <1>1 DEF Row, Copy
  <2>7. IsNewest(p, rows') => LastChargeIn(rows') = p.copy
    <3>1. p \in rows'
      BY <2>3
    <3>2. IsNewest(p, rows') => NewestOf(p, rows')
      BY <1>1, <2>6, <3>1 DEF IsNewest, NewestOf, UniqueIds
    <3>. QED BY <1>1, <3>2, NewestIsOne
  <2>8. CASE t.kind = "backfill"
    <3>1. LastChargeIn(rows') = IF LastChargeIn(rows).id = t.row
                                  THEN p.copy ELSE LastChargeIn(rows)
      BY <1>1, <2>3, <2>8, NewestReplaced
    <3>2. LastChargeIn(rows') = LastChargeIn(rows)
      <4>1. LastChargeIn(rows) = Newest(rows).copy /\ Newest(rows) \in rows
        BY <1>1, NewestExistsOnce DEF NewestOf
      <4>2. LastChargeIn(rows).id = t.row => LastChargeIn(rows) = r.copy
        BY <1>1, <2>3, <4>1 DEF UniqueIds
      <4>. QED BY <2>3, <2>8, <3>1, <4>2
    <3>3. ASSUME ~disturbed'
          PROVE  Expects(task, gen, lastCharge'[gen], rows')
      <4>1. lastCharge'[gen] = LastChargeIn(rows)
        BY <1>0, <1>1, <2>3, <3>3 DEF Expects
      <4>2. CASE t.gen = gen /\ LastChargeIn(rows).id = t.row
        BY <2>4, <3>1, <4>1, <4>2 DEF Expects
      <4>3. CASE t.gen = gen /\ LastChargeIn(rows).id # t.row
        BY <1>1, <2>4, <3>1, <4>1, <4>3 DEF Expects
      <4>4. CASE t.gen # gen
        BY <1>1, <2>4, <2>8, <3>2, <4>1, <4>4 DEF Expects
      <4>. QED BY <4>2, <4>3, <4>4
    <3>4. ~disturbed' => EndsBy(rows' \ rows, now)
      <4>1. rows' \ rows \subseteq {p} /\ p.copy = r.copy
        BY <2>3, <2>8
      <4>. QED BY <1>1, <2>3, <4>1 DEF EndsBy
    <3>. QED BY <1>0, <2>3, <2>5, <3>3, <3>4, Mover, MoveKeeps
  <2>9. CASE t.kind = "set"
    <3>1. ASSUME ~disturbed'
          PROVE  /\ Expects(task, gen, lastCharge'[gen], rows')
                 /\ EndsBy(rows' \ rows, now)
      <4>1. /\ lastCharge'[gen] = LastChargeIn(rows)
            /\ t.gen = gen /\ EndsBy(rows, now) /\ ~Moves(p, gen, rows')
        BY <1>0, <1>1, <2>3, <2>9, <3>1 DEF Expects
      <4>2. p.copy.end \in Nat /\ p.copy.end <= now
        BY <1>1, <2>3, <2>6, <4>1 DEF Moves
      <4>3. EndsBy(rows' \ rows, now)
        BY <2>3, <4>2 DEF EndsBy
      <4>4. CASE lastCharge[gen].id = t.row
        <5>1. LastChargeIn(rows') = p.copy
          BY <2>3, <2>7, <4>1, <4>4 DEF Moves
        <5>. QED BY <1>0, <2>4, <4>1, <4>3, <4>4, <5>1 DEF Expects
      <4>5. CASE lastCharge[gen].id # t.row
        BY <1>0, <2>4, <2>9, <4>1, <4>3, <4>5 DEF Expects
      <4>. QED BY <4>4, <4>5
    <3>. QED BY <1>0, <2>3, <2>5, <3>1, Mover, MoveKeeps
  <2>. QED BY <1>1, <2>8, <2>9
<1>. QED BY <1>1, <1>2, <1>3, PatchSteps

LEMMA ReadCopy ==
  ASSUME CopyInvariant, BackfillInvariant', NEW s \in Slots, Read(s)
  PROVE  CopyInvariant'
<1>. DEFINE t == tasks[s]
            task == [t EXCEPT !.pc = "patch"]
<1>0. UNCHANGED <<gen, now, lastCharge, rows, disturbed>> /\ t.pc = "read"
  BY DEF Read, car, database
<1>1. /\ t \in Task /\ t.kind = "backfill"
      /\ ~disturbed => Expects(t, gen, lastCharge[gen], rows)
  BY <1>0, Mover DEF Shape
<1>2. task.kind = "backfill" /\ task.pc = "patch" /\ task.gen = t.gen
  BY <1>1 DEF Task
<1>3. Ends(s) \/ tasks' = [tasks EXCEPT ![s] = task]
  BY DEF Read, Goes
<1>. HIDE DEF task
<1>4. BusyTask(task) /\ Shape(task) /\ Prompt(task, now)
  BY <1>2 DEF BusyTask, Shape, Prompt
<1>5. ~disturbed' => Expects(task, gen, lastCharge'[gen], rows')
  BY <1>0, <1>1, <1>2 DEF Expects
<1>. QED BY <1>0, <1>3, <1>4, <1>5, Mover, EndKeeps, MoveKeeps

LEMMA DeleteCopy ==
  ASSUME CopyInvariant, BackfillInvariant', NEW s \in Slots, Delete(s)
  PROVE  CopyInvariant'
<1>. DEFINE t == tasks[s]
            task == [t EXCEPT !.pc = "refresh"]
<1>0. UNCHANGED <<gen, now, lastCharge, disturbed>> /\ t.pc = "delete"
  BY DEF Delete, car
<1>1. /\ t \in Task /\ t.kind = "delete"
      /\ ~disturbed => Expects(t, gen, lastCharge[gen], rows)
  BY <1>0, Mover DEF Shape
<1>2. CASE Ends(s) /\ UNCHANGED rows
  BY <1>0, <1>2, EndKeeps
<1>3. CASE Goes(s, task)
  <2>1. task.kind = "delete" /\ task.pc = "refresh" /\ task.gen = t.gen
    BY <1>1 DEF Task
  <2>2. tasks' = [tasks EXCEPT ![s] = task]
    BY <1>3 DEF Goes
  <2>. HIDE DEF task
  <2>3. BusyTask(task) /\ Shape(task) /\ Prompt(task, now)
    BY <2>1 DEF BusyTask, Shape, Prompt
  <2>4. ~disturbed' => Expects(task, gen, lastCharge'[gen], rows')
    BY <1>0, <1>1, <2>1 DEF Expects
  <2>5. EndsBy(rows' \ rows, now)
    BY DEF Delete, EndsBy
  <2>. QED BY <1>0, <2>2, <2>3, <2>4, <2>5, Mover, MoveKeeps
<1>. QED BY <1>2, <1>3 DEF Delete, Deleted

LEMMA RefreshCopy ==
  ASSUME CopyInvariant, BackfillInvariant', NEW s \in Slots, Refresh(s)
  PROVE  CopyInvariant'
<1>. DEFINE t == tasks[s]
            task == [t EXCEPT !.kind = "delete", !.pc = "adopt",
                              !.copy = LastChargeIn(rows)]
<1>0. /\ UNCHANGED <<gen, now, lastCharge, rows, disturbed>>
      /\ t.pc = "refresh" /\ tasks' = [tasks EXCEPT ![s] = task]
  BY DEF Refresh, car, database, Goes
<1>1. /\ t \in Task /\ t.kind \in {"delete", "set"}
      /\ ~disturbed => Expects(t, gen, lastCharge[gen], rows)
  BY <1>0, Mover DEF Shape
<1>2. /\ task.kind = "delete" /\ task.pc = "adopt" /\ task.gen = t.gen
      /\ task.copy = LastChargeIn(rows)
  BY <1>1 DEF Task
<1>. HIDE DEF task
<1>3. BusyTask(task) /\ Shape(task) /\ Prompt(task, now)
  BY <1>2 DEF BusyTask, Shape, Prompt
<1>4. ~disturbed' => Expects(task, gen, lastCharge'[gen], rows')
  BY <1>0, <1>1, <1>2 DEF Expects
<1>. QED BY <1>0, <1>3, <1>4, Mover, MoveKeeps

LEMMA TaskFailsCopy ==
  ASSUME CopyInvariant, BackfillInvariant', NEW s \in Slots, TaskFails(s)
  PROVE  CopyInvariant'
<1>. DEFINE t == tasks[s]
<1>0. /\ UNCHANGED <<gen, now, lastCharge, rows>> /\ Ends(s)
      /\ t.pc \in {"extend", "insert", "replay", "price", "patch", "delete",
                   "refresh", "read"}
      /\ disturbed' = (disturbed \/ t.pc = "refresh")
  BY DEF TaskFails, car, database
<1>1. CASE t.pc = "replay"
  <2>1. disturbed' = disturbed
    BY <1>0, <1>1
       DEF CopyInvariant, BackfillInvariant, EnergyInvariant, TypeInvariant,
           TypeOK
  <2>. QED BY <1>0, <1>1, <2>1, RestKeeps DEF BusyTask, Ends, Goes
<1>2. CASE t.pc = "refresh"
  BY <1>0, <1>2, Mover, IdleTask, MoveKeeps DEF Ends, Goes
<1>3. CASE t.pc \notin {"replay", "refresh"}
  BY <1>0, <1>3, EndKeeps
<1>. QED BY <1>1, <1>2, <1>3

LEMMA CallCopy ==
  ASSUME CopyInvariant, BackfillInvariant', NEW service, NEW task,
         Call(service, task),
         LET started == [task EXCEPT !.gen = gen]
         IN /\ Shape(started) /\ Prompt(started, now)
            /\ started.kind # "none" /\ started.gen = gen
            /\ started.pc \notin {"replay", "adopt", "refresh"}
  PROVE  CopyInvariant'
<1>. DEFINE started == [task EXCEPT !.gen = gen]
<1>1. Suspend(started) /\ UNCHANGED <<gen, now, lastCharge, rows>>
  BY DEF Call, database, car
<1>2. /\ BusyTask(started) /\ Shape(started) /\ Prompt(started, now)
      /\ Current => Expects(started, gen, lastCharge[gen], rows)
  BY DEF BusyTask, Expects, Current
<1>. HIDE DEF started
<1>. QED BY <1>1, <1>2, StartKeeps

LEMMA SuspendedCopy ==
  ASSUME CopyInvariant, BackfillInvariant',
         \/ LogCharge \/ SetLastChargePrice \/ SetChargePriceById
         \/ SetCharge \/ DeleteLastCharge \/ BackfillChargeEvse
         \/ EvseBackfillFires
  PROVE  CopyInvariant'
<1>1. CASE LogCharge
  BY <1>1, CallCopy DEF LogCharge, NoTask, Shape, Prompt, NewCopy
<1>2. CASE SetLastChargePrice
  BY <1>2, CallCopy DEF SetLastChargePrice, NoTask, Shape, Prompt
<1>3. CASE SetChargePriceById
  BY <1>3, CallCopy DEF SetChargePriceById, NoTask, Shape, Prompt
<1>4. CASE SetCharge
  BY <1>4, CallCopy DEF SetCharge, NoTask, Shape, Prompt
<1>5. CASE DeleteLastCharge
  BY <1>5, CallCopy DEF DeleteLastCharge, NoTask, Shape, Prompt
<1>6. CASE BackfillChargeEvse
  BY <1>6, CallCopy DEF BackfillChargeEvse, NoTask, Shape, Prompt
<1>7. CASE EvseBackfillFires
  <2>1. PICK b \in pending :
          Suspend([NoTask EXCEPT !.kind = "backfill", !.pc = "read",
                                 !.gen = b.gen, !.row = b.row,
                                 !.pulse.of = b.of])
    BY <1>7 DEF EvseBackfillFires
  <2>. DEFINE task == [NoTask EXCEPT !.kind = "backfill", !.pc = "read",
                                     !.gen = b.gen, !.row = b.row,
                                     !.pulse.of = b.of]
  <2>2. task.kind = "backfill" /\ task.pc = "read"
    BY DEF NoTask
  <2>3. UNCHANGED <<gen, now, lastCharge, rows>> /\ Suspend(task)
    BY <1>7, <2>1 DEF EvseBackfillFires, database, car
  <2>. HIDE DEF task
  <2>4. BusyTask(task) /\ Shape(task) /\ Prompt(task, now)
    BY <2>2 DEF BusyTask, Shape, Prompt
  <2>5. Current => Expects(task, gen, lastCharge[gen], rows)
    BY <2>2 DEF Expects, Current
  <2>. QED BY <2>3, <2>4, <2>5, StartKeeps
<1>. QED BY <1>1, <1>2, <1>3, <1>4, <1>5, <1>6, <1>7

LEMMA TickCopy ==
  ASSUME CopyInvariant, BackfillInvariant', Tick PROVE CopyInvariant'
<1>1. /\ \A s \in Slots : tasks[s] = NoTask
      /\ UNCHANGED <<tasks, gen, lastCharge, rows, disturbed>>
  BY DEF Tick, database
<1>2. \A s \in Slots : Shape(tasks'[s]) /\ Prompt(tasks'[s], now')
  BY <1>1, IdleTask
<1>3. EndsBy(rows, now) => EndsBy(rows, now)'
  <2>1. now \in Nat /\ now' = now + 1 /\ \A r \in rows : r.copy.end \in Nat
    BY DEF Tick, CopyInvariant, BackfillInvariant, EnergyInvariant,
           TypeInvariant, TypeOK, Row, Copy
  <2>. QED BY <1>1, <2>1 DEF EndsBy
<1>4. InStep => InStep'
  BY <1>1, <1>3 DEF InStep, Current
<1>. QED BY <1>1, <1>2, <1>4 DEF CopyInvariant

\* The new coordinator reads the newest row; the log is disturbed if a
\* coroutine of the old one is still about to write, or a row ends after now.
LEMMA RestartCopy ==
  ASSUME CopyInvariant, BackfillInvariant', Reload \/ Crash
  PROVE  CopyInvariant'
<1>1. /\ UNCHANGED <<now, rows>> /\ gen' = gen + 1
      /\ lastCharge' = [lastCharge EXCEPT ![gen + 1] = LastChargeIn(rows)]
      /\ disturbed' = \/ \E s \in Slots : BusyTask(tasks'[s])
                      \/ \E r \in rows : r.copy.end > now
      /\ tasks' = tasks \/ tasks' = [s \in Slots |-> NoTask]
  BY DEF Reload, Crash, Restarts, Seed, car, database, BusyTask
<1>2. lastCharge \in [Gens -> Copy] /\ gen + 1 \in Gens
  BY <1>1 DEF CopyInvariant, BackfillInvariant, EnergyInvariant, TypeInvariant,
              TypeOK
<1>3. Current'
  BY <1>1, <1>2 DEF Current
<1>4. \A s \in Slots : Shape(tasks'[s]) /\ Prompt(tasks'[s], now')
  BY <1>1, IdleTask DEF CopyInvariant
<1>6. ~disturbed' => EndsBy(rows, now)'
  <2>1. now \in Nat /\ \A r \in rows : r.copy.end \in Nat
    BY DEF CopyInvariant, BackfillInvariant, EnergyInvariant, TypeInvariant,
           TypeOK, Row, Copy
  <2>. QED BY <1>1, <2>1 DEF EndsBy
<1>5. ~disturbed' => InStep'
  BY <1>1, <1>3, <1>6 DEF InStep
<1>. QED BY <1>4, <1>5 DEF CopyInvariant

LEMMA NextCopy ==
  ASSUME CopyInvariant, [Next]_vars PROVE CopyInvariant'
<1>0. BackfillInvariant'
  BY NextOwns DEF CopyInvariant
<1>1. CASE Drive \/ SessionOpens \/ UNCHANGED vars
  BY <1>0, <1>1, RestKeeps
     DEF Drive, SessionOpens, vars, car, database, counters
<1>. QED BY <1>0, <1>1, CloseCopy, SuspendedCopy, PlugAnswersCopy, ExtendCopy,
            InsertCopy, AdoptCopy, ReplayedCopy, PriceCopy, PatchCopy, ReadCopy,
            DeleteCopy, RefreshCopy, TaskFailsCopy, TickCopy, RestartCopy
         DEF Next

\* Whenever no coroutine is between the log and the copy, self.last_charge of
\* the coordinator loaded is the newest row: after merges, inserts, charges
\* logged by hand, prices, corrections, deletions, backfills armed by another
\* coordinator, reloads and crashes, as long as coroutines did not overlap,
\* no old row was priced by id, and no row was moved in the log by hand behind
\* another (if it is the one held) or after now.
THEOREM ChargeLastIsNewest == Spec => []LastChargeIsNewest
<1>1. CopyInvariant => LastChargeIsNewest
  BY DEF CopyInvariant, LastChargeIsNewest, InStep, Current, Busy, BusyTask
<1>. QED BY <1>1, InitCopy, NextCopy, PTL DEF Spec
-----------------------------------------------------------------------------
(***************************************************************************)
(* What a close decides stands on the log, for every value of the          *)
(* constants of ChargeLog: a pulse joins a row the battery has not fallen  *)
(* below since, and is given up only for a row that covers it.             *)
(*                                                                         *)
(* The decision is taken on the copy, before and after the recorder is     *)
(* asked, and carried out a database call later.  As long as coroutines do *)
(* not overlap the copy is the newest row all that time (CopyInvariant);   *)
(* what is added here is that a close that may still merge has found the   *)
(* battery not fallen.                                                     *)
(***************************************************************************)
MayMerge(t) == t.pc \in {"plug", "extend"}
Fits(t, last) == MayMerge(t) => ~Dropped(last, t.pulse.soc)

MergeInvariant ==
  /\ CopyInvariant
  /\ ~disturbed => \A s \in Slots : Fits(tasks[s], lastCharge[gen])

\* The coroutine that may merge is the one in flight, and sees the newest row.
LEMMA MergesOnNewest ==
  ASSUME MergeInvariant, NEW s \in Slots, MayMerge(tasks[s]), ~disturbed
  PROVE  /\ tasks[s] \in Task /\ tasks[s].kind = "close" /\ tasks[s].gen = gen
         /\ lastCharge[gen] = LastChargeIn(rows)
         /\ ~Dropped(lastCharge[gen], tasks[s].pulse.soc)
<1>1. tasks[s].pc \in {"plug", "extend"}
  BY DEF MayMerge
<1>2. /\ tasks[s] \in Task /\ Shape(tasks[s])
      /\ Expects(tasks[s], gen, lastCharge[gen], rows)
  BY <1>1, Mover DEF MergeInvariant
<1>. QED BY <1>1, <1>2 DEF MergeInvariant, Fits, Shape, Expects

\* At most one coroutine moves, and no copy is adopted.
LEMMA MoveFits ==
  ASSUME MergeInvariant, CopyInvariant', UNCHANGED <<gen, lastCharge>>,
         disturbed => disturbed',
         NEW s \in Slots, NEW task, tasks' = [tasks EXCEPT ![s] = task],
         ~disturbed' => Fits(task, lastCharge[gen])
  PROVE  MergeInvariant'
<1>1. \A q \in Slots : tasks'[q] = IF q = s THEN task ELSE tasks[q]
  BY DEF MergeInvariant, CopyInvariant, BackfillInvariant, EnergyInvariant,
         TypeInvariant, TypeOK
<1>. QED BY <1>1 DEF MergeInvariant

LEMMA SuspendFits ==
  ASSUME MergeInvariant, CopyInvariant', UNCHANGED <<gen, lastCharge>>,
         NEW task, Suspend(task), Fits(task, lastCharge[gen])
  PROVE  MergeInvariant'
<1>1. PICK s \in Slots : tasks' = [tasks EXCEPT ![s] = task]
  BY DEF Suspend
<1>2. disturbed => disturbed'
  BY DEF Suspend
<1>. QED BY <1>1, <1>2, MoveFits

LEMMA StillFits ==
  ASSUME MergeInvariant, CopyInvariant',
         UNCHANGED <<gen, lastCharge, tasks, disturbed>>
  PROVE  MergeInvariant'
BY DEF MergeInvariant

LEMMA EndFits ==
  ASSUME MergeInvariant, CopyInvariant', UNCHANGED <<gen, lastCharge>>,
         disturbed => disturbed', NEW s \in Slots, Ends(s)
  PROVE  MergeInvariant'
<1>1. Fits(NoTask, lastCharge[gen])
  BY DEF Fits, MayMerge, NoTask
<1>. QED BY <1>1, MoveFits DEF Ends, Goes

LEMMA CarriesPulse ==
  ASSUME NEW g, NEW pulse, NEW outcome, NEW reading
  PROVE  LET task == Carries(g, pulse, outcome, reading)
         IN task.pc = outcome /\ task.pulse = pulse /\ task.kind = "close"
<1>. DEFINE copy == IF outcome = "insert" THEN NewCopy(pulse.start, reading)
                                          ELSE NoCopy
<1>1. Carries(g, pulse, outcome, reading) =
        [NoTask EXCEPT !.kind = "close", !.gen = g, !.pulse = pulse,
                       !.pc = outcome, !.copy = copy]
  BY DEF Carries
<1>. HIDE DEF copy
<1>. QED BY <1>1 DEF NoTask
-----------------------------------------------------------------------------
LEMMA InitFits == ASSUME Init PROVE MergeInvariant
BY InitCopy DEF Init, MergeInvariant, Fits, MayMerge, NoTask

\* A close that asks the recorder, or extends without asking, has found the
\* battery at or above the copy's.
LEMMA CloseFits ==
  ASSUME MergeInvariant, CopyInvariant', SessionEnds
  PROVE  MergeInvariant'
<1>. DEFINE last == lastCharge[gen]
            pulse(socEnd, evse) ==
              [of |-> session.id, start |-> session.start,
               soc |-> session.soc, at |-> now, socEnd |-> socEnd,
               dropped |-> Dropped(last, session.soc), evse |-> evse]
<1>0. UNCHANGED <<gen, lastCharge>>
  BY DEF SessionEnds
<1>1. PICK socEnd \in soc..MaxSoc, evse \in EvseReadings, plugged \in PlugReadings :
        LET p == pulse(socEnd, evse)
            asks == plugged /\ last # NoCopy /\ ~p.dropped
            outcome == Outcome(last, p, FALSE)
        IN IF socEnd = session.soc \/ (~asks /\ outcome = "discard")
             THEN UNCHANGED <<tasks, disturbed>>
             ELSE Suspend(IF asks THEN Carries(gen, p, "plug", socEnd)
                                  ELSE Carries(gen, p, outcome, socEnd))
  BY DEF SessionEnds
<1>. DEFINE p == pulse(socEnd, evse)
            asks == plugged /\ last # NoCopy /\ ~p.dropped
            outcome == Outcome(last, p, FALSE)
<1>2. CASE UNCHANGED <<tasks, disturbed>>
  BY <1>0, <1>2, StillFits
<1>3. p.soc = session.soc /\ p.dropped = Dropped(last, session.soc)
  OBVIOUS
<1>4. outcome # "plug" /\ (outcome = "extend" => ~p.dropped)
  <2>1. Dropped(last, session.soc) \in BOOLEAN
    BY DEF Dropped
  <2>2. Recent(last, p) \in BOOLEAN /\ Overlaps(last, p) \in BOOLEAN
    BY DEF Recent, Overlaps
  <2>. QED BY <1>3, <2>1, <2>2 DEF Outcome
<1>5. \/ UNCHANGED <<tasks, disturbed>>
      \/ asks /\ Suspend(Carries(gen, p, "plug", socEnd))
      \/ ~asks /\ Suspend(Carries(gen, p, outcome, socEnd))
  <2>. DEFINE plug == Suspend(Carries(gen, p, "plug", socEnd))
              other == Suspend(Carries(gen, p, outcome, socEnd))
  <2>1. CASE asks
    BY <1>1, <2>1
  <2>2. CASE ~asks
    BY <1>1, <2>2
  <2>. QED BY <2>1, <2>2
<1>. HIDE DEF pulse, outcome
<1>6. CASE asks /\ Suspend(Carries(gen, p, "plug", socEnd))
  <2>1. Fits(Carries(gen, p, "plug", socEnd), lastCharge[gen])
    BY <1>3, <1>6, CarriesPulse DEF Fits
  <2>. QED BY <1>0, <1>6, <2>1, SuspendFits
<1>7. CASE ~asks /\ Suspend(Carries(gen, p, outcome, socEnd))
  <2>1. Fits(Carries(gen, p, outcome, socEnd), lastCharge[gen])
    BY <1>3, <1>4, CarriesPulse DEF Fits, MayMerge
  <2>. QED BY <1>0, <1>7, <2>1, SuspendFits
<1>. QED BY <1>2, <1>5, <1>6, <1>7

\* A coroutine starts that is not a close.
LEMMA SuspendedFits ==
  ASSUME MergeInvariant, CopyInvariant',
         \/ LogCharge \/ SetLastChargePrice \/ SetChargePriceById
         \/ SetCharge \/ DeleteLastCharge \/ BackfillChargeEvse
         \/ EvseBackfillFires
  PROVE  MergeInvariant'
<1>1. ASSUME NEW service, NEW task, Call(service, task),
             task = [NoTask EXCEPT !.kind = task.kind, !.pc = task.pc,
                                   !.row = task.row, !.copy = task.copy],
             task.pc \notin {"plug", "extend"}
      PROVE  MergeInvariant'
  <2>. DEFINE started == [task EXCEPT !.gen = gen]
  <2>1. Suspend(started) /\ UNCHANGED <<gen, lastCharge>>
    BY <1>1 DEF Call
  <2>2. started.pc \notin {"plug", "extend"}
    BY <1>1 DEF NoTask
  <2>. HIDE DEF started
  <2>. QED BY <2>1, <2>2, SuspendFits DEF Fits, MayMerge
<1>2. CASE LogCharge
  BY <1>1, <1>2 DEF LogCharge, NoTask
<1>3. CASE SetLastChargePrice
  BY <1>1, <1>3 DEF SetLastChargePrice, NoTask
<1>4. CASE SetChargePriceById
  BY <1>1, <1>4 DEF SetChargePriceById, NoTask
<1>5. CASE SetCharge
  BY <1>1, <1>5 DEF SetCharge, NoTask
<1>6. CASE DeleteLastCharge
  BY <1>1, <1>6 DEF DeleteLastCharge, NoTask
<1>7. CASE BackfillChargeEvse
  BY <1>1, <1>7 DEF BackfillChargeEvse, NoTask
<1>8. CASE EvseBackfillFires
  <2>1. PICK b \in pending :
          /\ Suspend([NoTask EXCEPT !.kind = "backfill", !.pc = "read",
                                    !.gen = b.gen, !.row = b.row,
                                    !.pulse.of = b.of])
          /\ UNCHANGED <<gen, lastCharge>>
    BY <1>8 DEF EvseBackfillFires
  <2>2. Fits([NoTask EXCEPT !.kind = "backfill", !.pc = "read",
                            !.gen = b.gen, !.row = b.row,
                            !.pulse.of = b.of], lastCharge[gen])
    BY DEF Fits, MayMerge, NoTask
  <2>. QED BY <2>1, <2>2, SuspendFits
<1>. QED BY <1>2, <1>3, <1>4, <1>5, <1>6, <1>7, <1>8

\* The recorder's answer changes neither the copy nor what the battery did.
LEMMA PlugAnswersFits ==
  ASSUME MergeInvariant, CopyInvariant', NEW s \in Slots, PlugAnswers(s)
  PROVE  MergeInvariant'
<1>. DEFINE t == tasks[s]
<1>1. UNCHANGED <<gen, lastCharge, disturbed>> /\ t.pc = "plug"
  BY DEF PlugAnswers
<1>2. PICK stayed \in BOOLEAN :
        LET outcome == Outcome(lastCharge[t.gen], t.pulse, stayed)
        IN IF outcome = "discard"
             THEN Ends(s)
             ELSE Goes(s, Carries(t.gen, t.pulse, outcome, soc))
  BY DEF PlugAnswers
<1>. DEFINE outcome == Outcome(lastCharge[t.gen], t.pulse, stayed)
<1>. HIDE DEF outcome
<1>3. CASE Ends(s)
  BY <1>1, <1>3, EndFits
<1>4. CASE Goes(s, Carries(t.gen, t.pulse, outcome, soc))
  <2>1. ~disturbed' => Fits(Carries(t.gen, t.pulse, outcome, soc), lastCharge[gen])
    BY <1>1, MergesOnNewest, CarriesPulse DEF Fits, MayMerge
  <2>. QED BY <1>1, <1>4, <2>1, MoveFits DEF Goes
<1>. QED BY <1>2, <1>3, <1>4 DEF outcome

LEMMA ExtendFits ==
  ASSUME MergeInvariant, CopyInvariant', NEW s \in Slots, Extend(s)
  PROVE  MergeInvariant'
<1>. DEFINE t == tasks[s]
            r == Newest(rows)
            merged == Extended(r, t.pulse)
            task == [t EXCEPT !.pc = "adopt", !.row = r.copy.id,
                              !.copy = merged.copy,
                              !.arm = HasEvse /\ ~merged.evse]
<1>1. UNCHANGED <<gen, lastCharge, disturbed>> /\ t.pc = "extend"
  BY DEF Extend
<1>2. t \in Task
  BY <1>1, Mover DEF MergeInvariant
<1>3. CASE Goes(s, NothingToExtend(t))
  <2>1. Fits(NothingToExtend(t), lastCharge[gen])
    BY CarriesPulse DEF NothingToExtend, Fits, MayMerge
  <2>. QED BY <1>1, <1>3, <2>1, MoveFits DEF Goes
<1>4. CASE Goes(s, task)
  <2>1. task.pc = "adopt"
    BY <1>2 DEF Task
  <2>. HIDE DEF task
  <2>. QED BY <1>1, <1>4, <2>1, MoveFits DEF Goes, Fits, MayMerge
<1>. QED BY <1>3, <1>4 DEF Extend

\* The one coroutine in flight adopts its copy: no other may merge.
LEMMA AdoptFits ==
  ASSUME MergeInvariant, CopyInvariant', NEW s \in Slots, Adopt(s)
  PROVE  MergeInvariant'
<1>. DEFINE t == tasks[s]
<1>1. /\ UNCHANGED <<gen, disturbed>> /\ t.pc = "adopt"
      /\ \/ Goes(s, [t EXCEPT !.pc = "replay"])
         \/ Goes(s, [t EXCEPT !.pc = "refresh"])
         \/ Ends(s)
  BY DEF Adopt
<1>2. t \in Task /\ BusyTask(t) /\ tasks \in [Slots -> Task]
  BY <1>1, Mover DEF MergeInvariant, TypeInvariant, TypeOK
<1>3. ~MayMerge(tasks'[s])
  BY <1>1, <1>2 DEF Goes, Ends, MayMerge, NoTask, Task
<1>4. ASSUME ~disturbed, NEW q \in Slots, q # s PROVE ~MayMerge(tasks'[q])
  <2>1. ~BusyTask(tasks[q]) /\ Shape(tasks[q])
    BY <1>2, <1>4 DEF MergeInvariant, CopyInvariant, InStep
  <2>2. tasks'[q] = tasks[q]
    BY <1>1, <1>2, <1>4 DEF Goes, Ends
  <2>. QED BY <2>1, <2>2 DEF BusyTask, Shape, MayMerge
<1>. QED BY <1>1, <1>3, <1>4 DEF MergeInvariant, Fits

\* Every other coroutine goes on to a step that merges nothing, or ends.
LEMMA MovesFits ==
  ASSUME MergeInvariant, CopyInvariant', NEW s \in Slots,
         \/ Insert(s) \/ Replayed(s) \/ Price(s) \/ Patch(s) \/ Read(s)
         \/ Delete(s) \/ Refresh(s) \/ TaskFails(s)
  PROVE  MergeInvariant'
<1>. DEFINE t == tasks[s]
<1>1. t \in Task /\ tasks \in [Slots -> Task]
  BY DEF MergeInvariant, CopyInvariant, BackfillInvariant, EnergyInvariant,
         TypeInvariant, TypeOK
<1>2. UNCHANGED <<gen, lastCharge>>
  BY DEF Insert, Replayed, Price, Patch, Read, Delete, Refresh, TaskFails
<1>3. disturbed => disturbed'
  <2>1. CASE Price(s) \/ Patch(s) \/ TaskFails(s)
    BY <2>1, Zenon DEF Price, Patch, TaskFails
  <2>2. CASE ~(Price(s) \/ Patch(s) \/ TaskFails(s))
    BY <2>2 DEF Insert, Replayed, Read, Delete, Refresh
  <2>. QED BY <2>1, <2>2
<1>4. ASSUME NEW pc \in {"adopt", "patch", "refresh"}, NEW task,
             task.pc = pc, Goes(s, task)
      PROVE  MergeInvariant'
  BY <1>2, <1>3, <1>4, MoveFits DEF Goes, Fits, MayMerge
<1>5. CASE Insert(s)
  <2>. DEFINE copy == [t.copy EXCEPT !.id = FreshId]
  <2>1. PICK arm : Goes(s, [t EXCEPT !.pc = "adopt", !.copy = copy, !.arm = arm])
    BY <1>5, Zenon DEF Insert
  <2>. HIDE DEF copy
  <2>. QED BY <1>1, <1>4, <2>1 DEF Task
<1>6. CASE Replayed(s) \/ TaskFails(s)
  BY <1>2, <1>3, <1>6, EndFits DEF Replayed, TaskFails
<1>7. CASE Price(s)
  <2>1. Ends(s) \/ \E r : Goes(s, [t EXCEPT !.pc = "adopt", !.copy = r.copy])
    BY <1>7, Zenon DEF Price
  <2>2. ASSUME NEW copy, Goes(s, [t EXCEPT !.pc = "adopt", !.copy = copy])
        PROVE  MergeInvariant'
    BY <1>1, <1>4, <2>2 DEF Task
  <2>. QED BY <1>2, <1>3, <2>1, <2>2, EndFits
<1>8. CASE Patch(s)
  <2>1. \/ Ends(s)
        \/ \E p : Goes(s, [t EXCEPT !.pc = "adopt", !.copy = p.copy])
    BY <1>8, Zenon DEF Patch
  <2>2. ASSUME NEW copy, Goes(s, [t EXCEPT !.pc = "adopt", !.copy = copy])
        PROVE  MergeInvariant'
    BY <1>1, <1>4, <2>2 DEF Task
  <2>. QED BY <1>2, <1>3, <2>1, <2>2, EndFits
<1>9. CASE Read(s)
  <2>1. Ends(s) \/ Goes(s, [t EXCEPT !.pc = "patch"])
    BY <1>9, Zenon DEF Read
  <2>. QED BY <1>1, <1>2, <1>3, <1>4, <2>1, EndFits DEF Task
<1>10. CASE Delete(s)
  <2>1. Ends(s) \/ Goes(s, [t EXCEPT !.pc = "refresh"])
    BY <1>10 DEF Delete, Deleted
  <2>. QED BY <1>1, <1>2, <1>3, <1>4, <2>1, EndFits DEF Task
<1>11. CASE Refresh(s)
  <2>. DEFINE copy == LastChargeIn(rows)
  <2>1. Goes(s, [t EXCEPT !.kind = "delete", !.pc = "adopt", !.copy = copy])
    BY <1>11 DEF Refresh
  <2>. HIDE DEF copy
  <2>. QED BY <1>1, <1>4, <2>1 DEF Task
<1>. QED BY <1>5, <1>6, <1>7, <1>8, <1>9, <1>10, <1>11

LEMMA RestartFits ==
  ASSUME MergeInvariant, CopyInvariant', Reload \/ Crash
  PROVE  MergeInvariant'
<1>1. ~disturbed' => \A s \in Slots : ~BusyTask(tasks'[s])
  BY DEF Reload, Crash, Restarts, BusyTask
<1>2. ASSUME ~disturbed', NEW s \in Slots PROVE ~MayMerge(tasks'[s])
  BY <1>1, <1>2 DEF CopyInvariant, BusyTask, Shape, MayMerge
<1>. QED BY <1>2 DEF MergeInvariant, Fits

LEMMA NextFits ==
  ASSUME MergeInvariant, [Next]_vars PROVE MergeInvariant'
<1>0. CopyInvariant'
  BY NextCopy DEF MergeInvariant
<1>1. CASE Tick \/ Drive \/ SessionOpens \/ UNCHANGED vars
  BY <1>0, <1>1, StillFits DEF Tick, Drive, SessionOpens, vars
<1>. QED BY <1>0, <1>1, CloseFits, SuspendedFits, PlugAnswersFits, ExtendFits,
            AdoptFits, MovesFits, RestartFits DEF Next
-----------------------------------------------------------------------------
\* A close that may merge is moved by its own steps only.
LEMMA OwnStep ==
  ASSUME MergeInvariant, Next, gen' = gen, NEW s \in Slots,
         MayMerge(tasks[s]), tasks'[s] # tasks[s]
  PROVE  PlugAnswers(s) \/ Extend(s) \/ TaskFails(s)
<1>0. tasks \in [Slots -> Task] /\ gen \in Nat
  BY ConstantsAssumption
     DEF MergeInvariant, CopyInvariant, BackfillInvariant, EnergyInvariant,
         TypeInvariant, TypeOK, Gens
<1>1. ~(Tick \/ Drive \/ SessionOpens)
  BY DEF Tick, Drive, SessionOpens
<1>2. ASSUME NEW task PROVE ~Suspend(task)
  BY <1>0 DEF Suspend, MayMerge, NoTask
<1>3. ~SessionEnds
  BY <1>2 DEF SessionEnds
<1>4. ~( \/ LogCharge \/ SetLastChargePrice \/ SetChargePriceById
         \/ SetCharge \/ DeleteLastCharge \/ BackfillChargeEvse
         \/ EvseBackfillFires)
  BY <1>2 DEF LogCharge, SetLastChargePrice, SetChargePriceById, SetCharge,
              DeleteLastCharge, BackfillChargeEvse, EvseBackfillFires, Call
<1>5. ~(Reload \/ Crash)
  <2>1. (Reload \/ Crash) => gen' = gen + 1
    BY Zenon DEF Reload, Crash, Restarts
  <2>. QED BY <1>0, <2>1
<1>6. ASSUME NEW q \in Slots, q # s, NEW task, tasks' = [tasks EXCEPT ![q] = task]
      PROVE  FALSE
  BY <1>0, <1>6
<1>7. ASSUME NEW q \in Slots,
             \/ PlugAnswers(q) \/ Extend(q) \/ Insert(q) \/ Adopt(q)
             \/ Replayed(q) \/ Price(q) \/ Patch(q) \/ Read(q) \/ Delete(q)
             \/ Refresh(q) \/ TaskFails(q)
      PROVE  PlugAnswers(s) \/ Extend(s) \/ TaskFails(s)
  <2>1. \E task : Goes(q, task)
    BY <1>7, Zenon
       DEF PlugAnswers, Extend, Insert, Adopt, Replayed, Price, Patch, Read,
           Delete, Deleted, Refresh, TaskFails, Ends
  <2>2. q = s
    BY <1>6, <2>1 DEF Goes
  <2>. QED BY <1>7, <2>2
           DEF MayMerge, Insert, Adopt, Replayed, Price, Patch, Read, Delete,
               Refresh
<1>. QED BY <1>1, <1>3, <1>4, <1>5, <1>7 DEF Next

\* A pulse is merged only into a row the battery has not fallen below since,
\* with any number of sessions, services, timers, errors, reloads and crashes
\* before it, as long as coroutines do not overlap.
THEOREM ChargeMergesOneSession == Spec => MergesOneSession
<1>1. ASSUME MergeInvariant, Next, ~disturbed PROVE MergesIntoSameSession
  <2>. SUFFICES ASSUME NEW s \in Slots,
                       tasks[s].pc = "extend", tasks'[s].pc = "adopt"
                PROVE  Newest(rows).copy.socEnd <= tasks[s].pulse.soc
    BY DEF MergesIntoSameSession
  <2>1. /\ tasks[s] \in Task
        /\ lastCharge[gen] = LastChargeIn(rows)
        /\ ~Dropped(lastCharge[gen], tasks[s].pulse.soc)
    BY <1>1, MergesOnNewest DEF MayMerge
  <2>2. rows # {}
    <3>. SUFFICES ASSUME rows = {} PROVE FALSE
      OBVIOUS
    <3>1. tasks \in [Slots -> Task]
      BY <1>1 DEF MergeInvariant, CopyInvariant, BackfillInvariant,
                  EnergyInvariant, TypeInvariant, TypeOK
    <3>2. ~(Reload \/ Crash)
      BY <3>1 DEF Reload, Crash, NoTask
    <3>3. gen' = gen
      BY <1>1, <3>2, Zenon
         DEF Next, Tick, Drive, SessionOpens, SessionEnds, LogCharge,
             SetLastChargePrice, SetChargePriceById, SetCharge,
             DeleteLastCharge, BackfillChargeEvse, EvseBackfillFires, Call,
             PlugAnswers, Extend, Insert, Adopt, Replayed, Price, Patch, Read,
             Delete, Refresh, TaskFails
    <3>4. PlugAnswers(s) \/ Extend(s) \/ TaskFails(s)
      BY <1>1, <3>3, OwnStep DEF MayMerge
    <3>5. ~PlugAnswers(s) /\ ~TaskFails(s)
      BY <3>1 DEF PlugAnswers, TaskFails, Ends, Goes, NoTask
    <3>6. ~Extend(s)
      BY <3>1, CarriesPulse DEF Extend, Goes, NothingToExtend
    <3>. QED BY <3>4, <3>5, <3>6
  <2>3. LastChargeIn(rows) = Newest(rows).copy /\ Newest(rows) \in Row
    BY <1>1, <2>2, NewestExists
       DEF MergeInvariant, CopyInvariant, BackfillInvariant, EnergyInvariant,
           TypeInvariant, TypeOK, LastChargeIn
  <2>4. Newest(rows).copy.socEnd \in Nat /\ tasks[s].pulse.soc \in Nat
    BY <2>1, <2>3 DEF Row, Copy, Task, Pulse
  <2>. QED BY <2>1, <2>3, <2>4 DEF Dropped, NoCopy
<1>2. MergeInvariant /\ [Next]_vars => [~disturbed => MergesIntoSameSession]_vars
  BY <1>1
<1>. QED BY <1>2, InitFits, NextFits, PTL DEF Spec, MergesOneSession

\* Whatever is discarded, a row that is in the log covers it.
LEMMA CoveredByNewest ==
  ASSUME MergeInvariant, lastCharge[gen] = LastChargeIn(rows), NEW pulse,
         Recent(lastCharge[gen], pulse), Overlaps(lastCharge[gen], pulse)
  PROVE  \E r \in rows : Covers(r, pulse)
<1>1. rows # {} /\ LastChargeIn(rows) = Newest(rows).copy
  BY DEF Recent, LastChargeIn
<1>2. Newest(rows) \in rows
  BY <1>1, NewestExists
     DEF MergeInvariant, CopyInvariant, BackfillInvariant, EnergyInvariant,
         TypeInvariant, TypeOK
<1>. QED BY <1>1, <1>2 DEF Covers

LEMMA PulseCovered ==
  ASSUME MergeInvariant, Next, ~disturbed, NEW s \in Slots, DiscardsPulse(s)
  PROVE  \E r \in rows : Covers(r, tasks[s].pulse)
<1>. DEFINE t == tasks[s]
<1>1. t.pc = "plug" /\ tasks'[s] = NoTask /\ gen' = gen
  BY DEF DiscardsPulse
<1>2. /\ t \in Task /\ t.gen = gen /\ lastCharge[gen] = LastChargeIn(rows)
      /\ tasks \in [Slots -> Task]
  BY <1>1, MergesOnNewest
     DEF MayMerge, MergeInvariant, CopyInvariant, BackfillInvariant,
         EnergyInvariant, TypeInvariant, TypeOK
<1>3. PlugAnswers(s)
  <2>1. MayMerge(t) /\ tasks'[s] # t
    BY <1>1 DEF MayMerge, NoTask
  <2>2. ~Extend(s) /\ ~TaskFails(s)
    BY <1>1 DEF Extend, TaskFails
  <2>. QED BY <1>1, <2>1, <2>2, OwnStep
<1>4. PICK stayed \in BOOLEAN :
        \/ Outcome(lastCharge[t.gen], t.pulse, stayed) = "discard"
        \/ Goes(s, Carries(t.gen, t.pulse,
                           Outcome(lastCharge[t.gen], t.pulse, stayed), soc))
  BY <1>3 DEF PlugAnswers
<1>. DEFINE outcome == Outcome(lastCharge[t.gen], t.pulse, stayed)
<1>. HIDE DEF outcome
<1>5. ~Goes(s, Carries(t.gen, t.pulse, outcome, soc))
  BY <1>1, <1>2, CarriesPulse DEF Goes, NoTask
<1>6. outcome = "discard"
  BY <1>4, <1>5 DEF outcome
<1>7. Recent(lastCharge[gen], t.pulse) /\ Overlaps(lastCharge[gen], t.pulse)
  <2>1. t.pulse \in Pulse
    BY <1>2 DEF Task
  <2>2. Recent(lastCharge[gen], t.pulse) \in BOOLEAN
        /\ Overlaps(lastCharge[gen], t.pulse) \in BOOLEAN
    BY DEF Recent, Overlaps
  <2>3. t.pulse.dropped \in BOOLEAN
    BY <2>1 DEF Pulse
  <2>4. Outcome(lastCharge[gen], t.pulse, stayed) = "discard"
    BY <1>2, <1>6 DEF outcome
  <2>. QED BY <2>2, <2>3, <2>4 DEF Outcome
<1>. QED BY <1>2, <1>7, CoveredByNewest

LEMMA SessionCovered ==
  ASSUME MergeInvariant, Next, ~disturbed, DiscardsSession,
         \A s \in Slots : ~Busy(s)
  PROVE  \E r \in rows : Covers(r, [start |-> session.start, at |-> now])
<1>1. /\ session # NoSession /\ session.id \in gone' /\ soc' > session.soc
      /\ gen' = gen
  BY DEF DiscardsSession
<1>2. /\ session.id \notin Held \cup Booked \cup gone
      /\ tasks \in [Slots -> Task] /\ gen \in Nat /\ session \in SessionRecord
  BY ConstantsAssumption
     DEF MergeInvariant, CopyInvariant, BackfillInvariant, EnergyInvariant,
         Accounts, TypeInvariant, TypeOK, Gens
<1>3. lastCharge[gen] = LastChargeIn(rows)
  BY DEF MergeInvariant, CopyInvariant, InStep, Current, Busy, BusyTask
<1>4. ASSUME NEW s \in Slots, Busy(s) PROVE FALSE
  BY <1>4
<1>5. SessionEnds
  <2>1. ~UNCHANGED gone
    BY <1>1, <1>2
  <2>2. ~(\/ Tick \/ Drive \/ SessionOpens \/ LogCharge \/ SetLastChargePrice
          \/ SetChargePriceById \/ SetCharge \/ DeleteLastCharge
          \/ BackfillChargeEvse \/ EvseBackfillFires)
    BY <2>1, Zenon
       DEF Tick, Drive, SessionOpens, LogCharge, SetLastChargePrice,
           SetChargePriceById, SetCharge, DeleteLastCharge,
           BackfillChargeEvse, EvseBackfillFires, Call, counters
  <2>3. ~(Reload \/ Crash)
    <3>1. (Reload \/ Crash) => gen' = gen + 1
      BY Zenon DEF Reload, Crash, Restarts
    <3>. QED BY <1>1, <1>2, <3>1
  <2>4. ASSUME NEW s \in Slots PROVE tasks[s].pc \in {"done", "replay"}
    BY DEF MergeInvariant, CopyInvariant, Shape, Busy
  <2>5. ASSUME NEW s \in Slots,
               \/ PlugAnswers(s) \/ Extend(s) \/ Insert(s) \/ Adopt(s)
               \/ Price(s) \/ Patch(s) \/ Read(s) \/ Delete(s) \/ Refresh(s)
        PROVE  FALSE
    BY <2>4, <2>5
       DEF PlugAnswers, Extend, Insert, Adopt, Price, Patch, Read, Delete,
           Refresh
  <2>6. ASSUME NEW s \in Slots, Replayed(s) \/ TaskFails(s) PROVE FALSE
    BY <2>1, <2>4, <2>6 DEF Replayed, TaskFails, Holds, counters
  <2>. QED BY <2>2, <2>3, <2>5, <2>6 DEF Next
<1>. DEFINE last == lastCharge[gen]
            pulse(socEnd, evse) ==
              [of |-> session.id, start |-> session.start,
               soc |-> session.soc, at |-> now, socEnd |-> socEnd,
               dropped |-> Dropped(last, session.soc), evse |-> evse]
<1>6. PICK socEnd \in soc..MaxSoc, evse \in EvseReadings, plugged \in PlugReadings :
        LET p == pulse(socEnd, evse)
            asks == plugged /\ last # NoCopy /\ ~p.dropped
        IN /\ soc' = socEnd
           /\ \/ socEnd = session.soc
              \/ Outcome(last, p, FALSE) = "discard"
              \/ UNCHANGED gone
  BY <1>5 DEF SessionEnds
<1>7. Outcome(last, pulse(socEnd, evse), FALSE) = "discard"
  <2>1. session.soc \in Nat /\ socEnd > session.soc
    BY <1>1, <1>2, <1>6 DEF SessionRecord
  <2>2. socEnd # session.soc
    BY <2>1
  <2>. QED BY <1>1, <1>2, <1>6, <2>2
<1>8. /\ Recent(last, [start |-> session.start, at |-> now])
      /\ Overlaps(last, [start |-> session.start, at |-> now])
  BY <1>7 DEF Outcome, Recent, Overlaps
<1>. QED BY <1>3, <1>8, CoveredByNewest

\* Energy is given up only for a row in the log that began within the dedup
\* window and covers the session, whatever the window and however many
\* sessions, services, errors, reloads and crashes came before.
THEOREM ChargeDiscardsOnlyCovered == Spec => DiscardsOnlyCovered
<1>1. MergeInvariant /\ [Next]_vars =>
        [~disturbed =>
           /\ \A s \in Slots :
                DiscardsPulse(s) => \E r \in rows : Covers(r, tasks[s].pulse)
           /\ DiscardsSession /\ (\A s \in Slots : ~Busy(s)) =>
                \E r \in rows :
                  Covers(r, [start |-> session.start, at |-> now])]_vars
  BY PulseCovered, SessionCovered
<1>. QED BY <1>1, InitFits, NextFits, PTL DEF Spec, DiscardsOnlyCovered
=============================================================================
