---------------------------- MODULE JourneyProofs ----------------------------
(***************************************************************************)
(* Theorems about Journey, for any number of coroutines: type correctness, *)
(* and that the journey in memory is the one of the log except while it is *)
(* disturbed, by a rewritten log, by coroutines that overlapped or by a    *)
(* drive logged late.                                                      *)
(***************************************************************************)
EXTENDS Journey, NaturalsInduction, SequenceTheorems, FiniteSetTheorems, TLAPS

-----------------------------------------------------------------------------
(***************************************************************************)
(* Latest: the greatest of finitely many ids.                              *)
(***************************************************************************)
LEMMA LeastNat ==
  ASSUME NEW T, T \subseteq Nat, T # {}
  PROVE  \E x \in T : \A y \in T : x <= y
<1>. DEFINE Less == OpToRel(<, Nat)
<1>1. \A x, y \in Nat : x < y => <<x, y>> \in Less
  BY DEF OpToRel
<1>2. IsWellFoundedOn(Less, Nat)
  BY NatLessThanWellFounded
<1>. HIDE DEF Less
<1>3. PICK x \in T : \A y \in T : ~(<<y, x>> \in Less)
  BY <1>2, WFMin
<1>4. \A y \in T : ~(y < x)
  BY <1>1, <1>3
<1>. QED BY <1>4

LEMMA LatestIs ==
  ASSUME NEW n \in Nat, NEW S, S \subseteq 0..n
  PROVE  /\ Latest(S) \in 0..n
         /\ S # {} => Latest(S) \in S
         /\ \A i \in S : i <= Latest(S)
<1>1. CASE S = {}
  BY <1>1 DEF Latest
<1>2. CASE S # {}
  <2>. DEFINE T == {n - i : i \in S}
  <2>1. \A i \in S : i \in 0..n /\ n - i \in Nat
    OBVIOUS
  <2>2. T \subseteq Nat /\ T # {}
    BY <1>2, <2>1
  <2>3. PICK x \in T : \A y \in T : x <= y
    BY <2>2, LeastNat
  <2>4. PICK i \in S : x = n - i
    BY <2>3
  <2>5. \A j \in S : j <= i
    <3>. TAKE j \in S
    <3>1. n - j \in T
      OBVIOUS
    <3>2. n - i <= n - j
      BY <2>3, <2>4, <3>1
    <3>. QED BY <2>1, <3>2
  <2>6. Latest(S) = CHOOSE k \in S : \A j \in S : j <= k
    BY <1>2 DEF Latest
  <2>7. Latest(S) \in S /\ \A j \in S : j <= Latest(S)
    BY <2>4, <2>5, <2>6
  <2>. QED BY <2>7
<1>. QED BY <1>1, <1>2

LEMMA LatestUnique ==
  ASSUME NEW n \in Nat, NEW S, S \subseteq 0..n,
         NEW i \in S, \A j \in S : j <= i
  PROVE  Latest(S) = i
<1>1. Latest(S) \in S /\ \A j \in S : j <= Latest(S)
  BY LatestIs
<1>2. \A k \in S : k \in Int
  OBVIOUS
<1>3. Latest(S) \in Int /\ i \in Int /\ i <= Latest(S)
  BY <1>1, <1>2
<1>4. Latest(S) <= i
  BY <1>1
<1>. QED BY <1>3, <1>4

LEMMA EmptyTask == NoTask \in Task
BY JourneyAssumption DEF NoTask, Task, Writers, Services

-----------------------------------------------------------------------------
(***************************************************************************)
(* The queries of the log, in a state of TypeOK.                           *)
(***************************************************************************)
LEMMA RowsType ==
  ASSUME TypeOK
  PROVE  /\ Len(rows) \in Nat /\ DOMAIN rows = 1..Len(rows)
         /\ \A i \in 1..Len(rows) : rows[i] \in Row
         /\ Ids \subseteq 1..Len(rows)
         /\ \A i \in Ids : /\ i \in Nat /\ rows[i].journey \in 0..MaxRows
                           /\ rows[i].home \in BOOLEAN
<1>1. rows \in Seq(Row)
  BY DEF TypeOK
<1>2. /\ Len(rows) \in Nat /\ DOMAIN rows = 1..Len(rows)
      /\ \A i \in 1..Len(rows) : rows[i] \in Row
  BY <1>1, LenProperties
<1>. QED BY <1>2 DEF Ids, Row

\* The log grows by a row per writer that was given room, and journeys are
\* numbered no faster than rows are written.
Inserting ==
  {s \in Slots : \/ tasks[s].pc \in {"decide", "mint", "insert"}
                 \/ tasks[s].kind = "recover" /\ tasks[s].pc = "amend"}

BoundInvariant ==
  /\ Len(rows) + Cardinality(Inserting) <= MaxRows
  /\ \A i \in DOMAIN rows : rows[i].journey <= Len(rows)
  /\ current <= Len(rows)
  /\ \A s \in Slots :
       /\ tasks[s].journey <= Len(rows) + 1
       /\ tasks[s].pc # "insert" => tasks[s].journey <= Len(rows)

LEMMA NewestType ==
  ASSUME TypeOK, NEW S, S \subseteq Ids
  PROVE  /\ NewestOf(S) \in 0..Len(rows)
         /\ S # {} => NewestOf(S) \in S
         /\ S = {} => NewestOf(S) = 0
<1>. DEFINE recent == {i \in S : ~rows[i].old}
<1>1. Len(rows) \in Nat /\ S \subseteq 0..Len(rows) /\ recent \subseteq 0..Len(rows)
  BY RowsType
<1>2. Latest(S) \in 0..Len(rows) /\ (S # {} => Latest(S) \in S)
  BY <1>1, LatestIs
<1>3. Latest(recent) \in 0..Len(rows) /\ (recent # {} => Latest(recent) \in recent)
  BY <1>1, LatestIs
<1>4. Latest({}) = 0
  BY DEF Latest
<1>. QED BY <1>2, <1>3, <1>4 DEF NewestOf

LEMMA QueriesType ==
  ASSUME TypeOK, BoundInvariant
  PROVE  /\ OpenInLog \in 0..Len(rows)
         /\ \A open : CompletedInLog(open) \in 0..MaxRows
         /\ LastInLog \in [row : 0..MaxRows, home : BOOLEAN]
         /\ NextId \in 1..Len(rows)+1
<1>0. /\ Len(rows) \in Nat /\ Len(rows) <= MaxRows
      /\ \A i \in Ids : /\ i \in 1..Len(rows)
                        /\ rows[i].journey \in 0..Len(rows)
                        /\ rows[i].home \in BOOLEAN
  BY RowsType DEF BoundInvariant, TypeOK
<1>1. ASSUME NEW S, S \subseteq Ids
      PROVE  JourneyOf(Latest(S)) \in 0..Len(rows)
  <2>1. S \subseteq 0..Len(rows)
    BY <1>0, <1>1
  <2>2. S # {} => Latest(S) \in S
    BY <1>0, <2>1, LatestIs
  <2>. QED BY <1>0, <1>1, <2>2 DEF JourneyOf, Latest
<1>2. OpenInLog \in 0..Len(rows)
  BY <1>1 DEF OpenInLog
<1>3. ASSUME NEW S, S \subseteq Ids
      PROVE  JourneyOf(NewestOf(S)) \in 0..MaxRows
  BY <1>0, <1>3, NewestType, JourneyAssumption DEF JourneyOf
<1>4. \A open : CompletedInLog(open) \in 0..MaxRows
  BY <1>3 DEF CompletedInLog
<1>5. NewestOf(Ids) \in 0..Len(rows) /\ (NewestOf(Ids) # 0 => NewestOf(Ids) \in Ids)
  BY <1>0, NewestType
<1>6. LastInLog \in [row : 0..MaxRows, home : BOOLEAN]
  BY <1>0, <1>5, JourneyAssumption DEF LastInLog
<1>7. NextId \in 1..Len(rows)+1
  <2>1. {rows[i].journey : i \in Ids} \subseteq 0..Len(rows)
    BY <1>0
  <2>2. Latest({rows[i].journey : i \in Ids}) \in 0..Len(rows)
    BY <1>0, <2>1, LatestIs
  <2>. QED BY <1>0, <2>2 DEF NextId
<1>. QED BY <1>2, <1>4, <1>6, <1>7
-----------------------------------------------------------------------------
(***************************************************************************)
(* Type correctness.                                                       *)
(***************************************************************************)
LEMMA MapIsSeq ==
  ASSUME NEW n \in Nat, NEW f \in [1..n -> Row]
  PROVE  f \in Seq(Row) /\ Len(f) = n
<1>1. f \in Seq(Row)
  BY SeqDef
<1>2. DOMAIN f = 1..Len(f) /\ Len(f) \in Nat /\ DOMAIN f = 1..n
  BY <1>1, LenProperties
<1>. QED BY <1>1, <1>2

\* A row is written, and the rows before it stay.
LEMMA AppendIs ==
  ASSUME TypeOK, NEW row \in Row, rows' = Append(rows, row)
  PROVE  /\ rows' \in Seq(Row) /\ Len(rows') = Len(rows) + 1
         /\ DOMAIN rows' = 1..Len(rows) + 1
         /\ rows'[Len(rows) + 1] = row
         /\ \A i \in 1..Len(rows) : rows'[i] = rows[i]
<1>1. rows \in Seq(Row)
  BY DEF TypeOK
<1>. QED BY <1>1, AppendProperties, LenProperties

\* Rows are rewritten in place.
Rewritten == /\ DOMAIN rows' = DOMAIN rows
             /\ \A i \in DOMAIN rows : rows'[i] \in Row
             /\ rows' = [i \in DOMAIN rows |-> rows'[i]]

LEMMA RewrittenIs ==
  ASSUME TypeOK, Rewritten
  PROVE  rows' \in Seq(Row) /\ Len(rows') = Len(rows)
<1>1. Len(rows) \in Nat /\ DOMAIN rows = 1..Len(rows)
  BY RowsType
<1>2. rows' \in [1..Len(rows) -> Row]
  BY <1>1 DEF Rewritten
<1>. QED BY <1>1, <1>2, MapIsSeq

LEMMA StartsType ==
  ASSUME TypeOK, NEW task \in Task, Starts(task)
  PROVE  tasks' \in [Slots -> Task] /\ disturbed' \in BOOLEAN
<1>1. tasks' \in [Slots -> Task]
  BY DEF TypeOK, Starts
<1>2. disturbed' \in BOOLEAN
  BY Zenon DEF Starts
<1>. QED BY <1>1, <1>2

LEMMA BeginType ==
  ASSUME TypeOK, Begin
  PROVE  TypeOK'
<1>1. ASSUME NEW kind \in Writers, NEW fromHome \in BOOLEAN,
             NEW toHome \in BOOLEAN, NEW old \in BOOLEAN,
             StartsWriter(kind, fromHome, toHome, old)
      PROVE  TypeOK'
  <2>1. [NoTask EXCEPT !.kind = kind, !.pc = "decide", !.old = old,
                       !.fromHome = fromHome, !.toHome = toHome] \in Task
    BY EmptyTask DEF Task, NoTask
  <2>. QED BY <1>1, <2>1, StartsType DEF StartsWriter, counters, TypeOK
<1>2. CASE TripOpens \/ TripDiscarded
  BY <1>2 DEF TripOpens, TripDiscarded, counters, TypeOK
<1>3. ASSUME NEW fromHome \in BOOLEAN, NEW toHome \in BOOLEAN,
             TripCloses(fromHome, toHome) \/ SynthStarts(fromHome, toHome)
      PROVE  TypeOK'
  BY <1>1, <1>3 DEF TripCloses, SynthStarts, Writers
<1>4. ASSUME NEW fromHome \in BOOLEAN, NEW toHome \in BOOLEAN,
             NEW old \in BOOLEAN, ManualStarts(fromHome, toHome, old)
      PROVE  TypeOK'
  BY <1>1, <1>4 DEF ManualStarts, Writers
<1>5. ASSUME NEW toHome \in BOOLEAN, OrphanStarts(toHome)
      PROVE  TypeOK'
  <2>1. lastTrip.home \in BOOLEAN
    BY DEF TypeOK
  <2>. QED BY <1>1, <1>5, <2>1 DEF OrphanStarts, Writers
<1>6. ASSUME NEW toHome \in BOOLEAN, LateArrival(toHome)
      PROVE  TypeOK'
  <2>1. [NoTask EXCEPT !.kind = "late", !.pc = "amend", !.toHome = toHome,
                       !.row = lastTrip.row] \in Task
    BY EmptyTask DEF Task, NoTask, TypeOK
  <2>. QED BY <1>6, <2>1, StartsType DEF LateArrival, counters, TypeOK
<1>7. ASSUME NEW kind \in Services, ServiceCalled(kind)
      PROVE  TypeOK'
  <2>1. [NoTask EXCEPT !.kind = kind, !.pc = "amend"] \in Task
    BY EmptyTask DEF Task, NoTask
  <2>2. edits' \in 0..MaxEdits
    BY <1>7, JourneyAssumption DEF ServiceCalled, TypeOK
  <2>. QED BY <1>7, <2>1, <2>2, StartsType DEF ServiceCalled, TypeOK
<1>. QED BY <1>2, <1>3, <1>4, <1>5, <1>6, <1>7 DEF Begin

LEMMA RoomLeft ==
  ASSUME TypeOK, BoundInvariant
  PROVE  /\ IsFiniteSet(Inserting) /\ Cardinality(Inserting) \in Nat
         /\ \A s \in Inserting : Len(rows) < MaxRows
<1>1. IsFiniteSet(Inserting)
  BY JourneyAssumption, FS_Subset DEF Inserting
<1>2. Cardinality(Inserting) \in Nat
  BY <1>1, FS_CardinalityType
<1>3. Inserting # {} => Cardinality(Inserting) # 0
  BY <1>1, FS_EmptySet
<1>4. Len(rows) \in Nat
  BY RowsType
<1>. QED BY <1>1, <1>2, <1>3, <1>4, JourneyAssumption DEF BoundInvariant

LEMMA WritersType ==
  ASSUME TypeOK, BoundInvariant, NEW s \in Slots,
         \/ Decide(s) \/ Mint(s) \/ Insert(s) \/ Absorb(s) \/ FinishWriter(s)
         \/ WriterFails(s)
  PROVE  TypeOK'
<1>0. tasks[s] \in Task /\ Len(rows) \in Nat /\ Len(rows) <= MaxRows
  BY RowsType DEF TypeOK
<1>1. CASE Decide(s)
  <2>1. [tasks[s] EXCEPT !.journey = current,
           !.pc = IF current = 0 /\ Mints(tasks[s]) THEN "mint" ELSE "insert"]
          \in Task
    BY <1>0 DEF Task, TypeOK
  <2>2. tasks' \in [Slots -> Task]
    BY <1>1, <2>1 DEF Decide, TypeOK
  <2>. QED BY <1>1, <2>2 DEF Decide, counters, TypeOK
<1>2. CASE Mint(s)
  <2>1. NextId \in 0..MaxRows
    <3>1. s \in Inserting
      BY <1>2 DEF Mint, Inserting
    <3>. QED BY <1>0, <3>1, QueriesType, RoomLeft, JourneyAssumption
  <2>2. [tasks[s] EXCEPT !.journey = NextId,
           !.stitched = ~tasks[s].fromHome /\ tasks[s].kind # "orphan",
           !.pc = "insert"] \in Task
    BY <1>0, <2>1 DEF Task
  <2>3. tasks' \in [Slots -> Task]
    BY <1>2, <2>2 DEF Mint, TypeOK
  <2>. QED BY <1>2, <2>3 DEF Mint, counters, TypeOK
<1>3. CASE Insert(s)
  <2>1. s \in Inserting
    BY <1>3 DEF Insert, Inserting
  <2>2. Len(rows) < MaxRows
    BY <2>1, RoomLeft
  <2>3. [home |-> tasks[s].toHome, journey |-> tasks[s].journey,
         old |-> tasks[s].old, gone |-> FALSE] \in Row
    BY <1>0 DEF Task, Row
  <2>4. rows' \in Seq(Row) /\ Len(rows') <= MaxRows
    BY <1>0, <1>3, <2>2, <2>3, AppendIs, JourneyAssumption DEF Insert
  <2>5. [tasks[s] EXCEPT !.row = Len(rows) + 1,
           !.pc = IF tasks[s].stitched THEN "absorb" ELSE "finish"] \in Task
    <3>1. Len(rows) + 1 \in 0..MaxRows
      BY <1>0, <2>2, JourneyAssumption
    <3>2. (IF tasks[s].stitched THEN "absorb" ELSE "finish")
            \in {"absorb", "finish"}
      OBVIOUS
    <3>. QED BY <1>0, <3>1, <3>2 DEF Task
  <2>6. tasks' \in [Slots -> Task]
    BY <1>3, <2>5 DEF Insert, TypeOK
  <2>. QED BY <1>3, <2>4, <2>6 DEF Insert, counters, TypeOK
<1>4. CASE Absorb(s)
  <2>1. Rewritten
    <3>1. \A i \in DOMAIN rows :
            rows'[i] \in {rows[i], [rows[i] EXCEPT !.journey = tasks[s].journey]}
      BY <1>4 DEF Absorb
    <3>2. \A i \in DOMAIN rows : rows'[i] \in Row
      BY <1>0, <3>1, RowsType DEF Row, Task
    <3>. QED BY <1>4, <3>2 DEF Absorb, Rewritten
  <2>2. [tasks[s] EXCEPT !.pc = "finish"] \in Task
    BY <1>0 DEF Task
  <2>3. tasks' \in [Slots -> Task]
    BY <1>4, <2>2 DEF Absorb, TypeOK
  <2>. QED BY <1>4, <2>1, <2>3, RewrittenIs DEF Absorb, counters, TypeOK
<1>5. CASE FinishWriter(s)
  <2>1. current' \in 0..MaxRows /\ completed' \in 0..MaxRows
    BY <1>0, <1>5, JourneyAssumption DEF FinishWriter, FollowsRow, Task, TypeOK
  <2>2. lastTrip' \in [row : 0..MaxRows, home : BOOLEAN]
    BY <1>0, <1>5 DEF FinishWriter, Adopts, Task, TypeOK
  <2>3. tasks' \in [Slots -> Task] /\ driving' \in BOOLEAN
    BY <1>5, EmptyTask DEF FinishWriter, TypeOK
  <2>. QED BY <1>5, <2>1, <2>2, <2>3 DEF FinishWriter, counters, TypeOK
<1>6. CASE WriterFails(s)
  <2>1. failures' \in 0..MaxFailures
    BY <1>6, JourneyAssumption DEF WriterFails, TypeOK
  <2>2. tasks' \in [Slots -> Task]
    BY <1>6, EmptyTask DEF WriterFails, TypeOK
  <2>3. disturbed' \in BOOLEAN
    BY <1>6, Zenon DEF WriterFails
  <2>. QED BY <1>6, <2>1, <2>2, <2>3 DEF WriterFails, TypeOK
<1>. QED BY <1>1, <1>2, <1>3, <1>4, <1>5, <1>6

LEMMA RewritesType ==
  ASSUME TypeOK, NEW s \in Slots, NEW kind, Rewrites(s, kind)
  PROVE  /\ tasks' \in [Slots -> Task] /\ disturbed' \in BOOLEAN
         /\ UNCHANGED <<driving, current, completed, lastTrip, up, counters>>
<1>1. [tasks[s] EXCEPT !.pc = "finish"] \in Task
  BY DEF Task, TypeOK
<1>. QED BY <1>1 DEF Rewrites, TypeOK

LEMMA ServicesRewrite ==
  ASSUME TypeOK, NEW s \in Slots, Sets(s) \/ Deletes(s) \/ Purges(s)
  PROVE  Rewritten
<1>0. /\ DOMAIN rows = 1..Len(rows) /\ \A i \in DOMAIN rows : rows[i] \in Row
      /\ rows = [i \in DOMAIN rows |-> rows[i]]
  BY RowsType, LenProperties DEF TypeOK
<1>1. CASE Sets(s)
  <2>1. ASSUME NEW i \in Ids, rows' = [rows EXCEPT ![i].home = ~rows[i].home]
        PROVE  Rewritten
    BY <1>0, <2>1 DEF Rewritten, Row
  <2>2. ASSUME NEW i \in Ids, NEW k \in Ids,
               rows' = [rows EXCEPT ![i].journey = rows[k].journey]
        PROVE  Rewritten
    BY <1>0, <2>2, RowsType DEF Rewritten, Row
  <2>. QED BY <1>1, <2>1, <2>2 DEF Sets
<1>2. CASE Deletes(s)
  BY <1>0, <1>2 DEF Deletes, Rewritten, Row
<1>3. CASE Purges(s)
  <2>1. \A i \in DOMAIN rows :
          rows'[i] \in {rows[i], [rows[i] EXCEPT !.gone = TRUE]}
    BY <1>3 DEF Purges
  <2>2. \A i \in DOMAIN rows : rows'[i] \in Row
    BY <1>0, <2>1 DEF Row
  <2>. QED BY <1>3, <2>2 DEF Purges, Rewritten
<1>. QED BY <1>1, <1>2, <1>3

LEMMA DerivesType ==
  ASSUME TypeOK, BoundInvariant, DerivesJourney \/ DropsGhost \/ RefreshesLast
  PROVE  /\ current' \in 0..Len(rows) /\ completed' \in 0..MaxRows
         /\ lastTrip' \in [row : 0..MaxRows, home : BOOLEAN]
         /\ disturbed' \in BOOLEAN
<1>1. current \in 0..Len(rows) /\ 0 \in 0..Len(rows)
  BY RowsType DEF TypeOK, BoundInvariant
<1>2. CASE DerivesJourney
  BY <1>2, QueriesType DEF DerivesJourney
<1>3. CASE DropsGhost
  <2>1. current' \in 0..Len(rows)
    BY <1>1, <1>3 DEF DropsGhost
  <2>2. completed' \in 0..MaxRows
    BY <1>3, QueriesType DEF DropsGhost
  <2>. QED BY <1>3, <2>1, <2>2, QueriesType DEF DropsGhost, TypeOK
<1>4. CASE RefreshesLast
  BY <1>1, <1>4, QueriesType DEF RefreshesLast, TypeOK
<1>. QED BY <1>2, <1>3, <1>4

LEMMA OthersType ==
  ASSUME TypeOK, BoundInvariant, NEW s \in Slots,
         \/ AmendLate(s) \/ FinishLate(s)
         \/ Sets(s) \/ Deletes(s) \/ Purges(s) \/ Recovers(s)
         \/ FinishService(s)
  PROVE  TypeOK'
<1>0. tasks[s] \in Task /\ Len(rows) \in Nat /\ Len(rows) <= MaxRows
  BY RowsType DEF TypeOK
<1>1. CASE AmendLate(s)
  <2>1. Rewritten
    <3>1. /\ DOMAIN rows = 1..Len(rows) /\ \A i \in DOMAIN rows : rows[i] \in Row
          /\ rows = [i \in DOMAIN rows |-> rows[i]]
      BY RowsType, LenProperties DEF TypeOK
    <3>. QED BY <1>0, <1>1, <3>1 DEF AmendLate, Rewritten, Row, Task
  <2>2. [tasks[s] EXCEPT !.pc = "finish"] \in Task
    BY <1>0 DEF Task
  <2>3. tasks' \in [Slots -> Task]
    BY <1>1, <2>2 DEF AmendLate, TypeOK
  <2>4. disturbed' \in BOOLEAN
    BY <1>1, Zenon DEF AmendLate
  <2>. QED BY <1>1, <2>1, <2>3, <2>4, RewrittenIs DEF AmendLate, counters, TypeOK
<1>2. CASE FinishLate(s)
  <2>1. lastTrip' \in [row : 0..MaxRows, home : BOOLEAN]
    BY <1>0, <1>2 DEF FinishLate, TypeOK, Task
  <2>2. current' \in 0..MaxRows /\ completed' \in 0..MaxRows
    BY <1>2, JourneyAssumption DEF FinishLate, TypeOK
  <2>3. tasks' \in [Slots -> Task]
    BY <1>2, EmptyTask DEF FinishLate, TypeOK
  <2>. QED BY <1>2, <2>1, <2>2, <2>3 DEF FinishLate, counters, TypeOK
<1>3. CASE Sets(s) \/ Deletes(s) \/ Purges(s)
  BY <1>3, RewritesType, ServicesRewrite, RewrittenIs
     DEF Sets, Deletes, Purges, counters, TypeOK
<1>4. CASE Recovers(s)
  <2>1. s \in Inserting
    BY <1>4 DEF Recovers, Rewrites, Inserting
  <2>2. PICK home \in BOOLEAN, old \in BOOLEAN :
          rows' = Append(rows, [home |-> home, journey |-> 0, old |-> old,
                                gone |-> FALSE])
    BY <1>4 DEF Recovers
  <2>3. [home |-> home, journey |-> 0, old |-> old, gone |-> FALSE] \in Row
    BY JourneyAssumption DEF Row
  <2>4. rows' \in Seq(Row) /\ Len(rows') <= MaxRows
    BY <1>0, <2>1, <2>2, <2>3, AppendIs, RoomLeft, JourneyAssumption
  <2>. QED BY <1>4, <2>4, RewritesType DEF Recovers, counters, TypeOK
<1>5. CASE FinishService(s)
  <2>1. tasks' \in [Slots -> Task]
    BY <1>5, EmptyTask DEF FinishService, TypeOK
  <2>2. /\ current' \in 0..Len(rows) /\ completed' \in 0..MaxRows
        /\ lastTrip' \in [row : 0..MaxRows, home : BOOLEAN]
        /\ disturbed' \in BOOLEAN
    BY <1>5, DerivesType DEF FinishService
  <2>3. current' \in 0..MaxRows
    BY <1>0, <2>2, JourneyAssumption
  <2>. QED BY <1>5, <2>1, <2>2, <2>3 DEF FinishService, counters, TypeOK
<1>. QED BY <1>1, <1>2, <1>3, <1>4, <1>5

LEMMA TypeStep == TypeOK /\ BoundInvariant /\ [Next]_vars => TypeOK'
<1>. SUFFICES ASSUME TypeOK, BoundInvariant, [Next]_vars PROVE TypeOK'
  OBVIOUS
<1>1. CASE Resume
  BY <1>1, WritersType, OthersType DEF Resume
<1>2. CASE Crash
  <2>1. crashes' \in 0..MaxCrashes
    BY <1>2, JourneyAssumption DEF Crash, TypeOK
  <2>. QED BY <1>2, <2>1, EmptyTask DEF Crash, TypeOK
<1>3. CASE Start
  <2>1. current' \in 0..MaxRows
    BY <1>3, DerivesType, RowsType, JourneyAssumption DEF Start, TypeOK
  <2>. QED BY <1>3, <2>1, DerivesType DEF Start, counters, TypeOK
<1>4. CASE UNCHANGED vars
  BY <1>4 DEF vars, counters, TypeOK
<1>. QED BY <1>1, <1>2, <1>3, <1>4, BeginType DEF Next
-----------------------------------------------------------------------------
(***************************************************************************)
(* The bounds of the log, and type correctness.                            *)
(***************************************************************************)
LEMMA FewerInserting ==
  ASSUME TypeOK, BoundInvariant, Inserting' \subseteq Inserting
  PROVE  /\ Cardinality(Inserting') \in Nat
         /\ Cardinality(Inserting') <= Cardinality(Inserting)
<1>1. IsFiniteSet(Inserting)
  BY RoomLeft
<1>2. IsFiniteSet(Inserting') /\ Cardinality(Inserting') <= Cardinality(Inserting)
  BY <1>1, FS_Subset
<1>. QED BY <1>2, FS_CardinalityType

LEMMA OneLessInserting ==
  ASSUME TypeOK, BoundInvariant, NEW s \in Inserting,
         Inserting' \subseteq Inserting \ {s}
  PROVE  /\ Cardinality(Inserting') \in Nat
         /\ Cardinality(Inserting') + 1 <= Cardinality(Inserting)
<1>1. IsFiniteSet(Inserting) /\ Cardinality(Inserting) \in Nat
  BY RoomLeft
<1>2. /\ IsFiniteSet(Inserting \ {s})
      /\ Cardinality(Inserting \ {s}) = Cardinality(Inserting) - 1
  BY <1>1, FS_RemoveElement
<1>3. /\ IsFiniteSet(Inserting')
      /\ Cardinality(Inserting') <= Cardinality(Inserting \ {s})
  BY <1>2, FS_Subset
<1>4. Cardinality(Inserting') \in Nat
  BY <1>3, FS_CardinalityType
<1>. QED BY <1>1, <1>2, <1>3, <1>4

\* A coroutine that will write a row starts only when there is room for it.
LEMMA StartsInserting ==
  ASSUME TypeOK, BoundInvariant, NEW task \in Task, Starts(task),
         Room \/ (task.pc = "amend" /\ task.kind # "recover"),
         task.journey = 0, task.pc # "insert", UNCHANGED <<rows, current>>
  PROVE  BoundInvariant'
<1>. PICK s \in Slots : tasks[s] = NoTask /\ tasks' = [tasks EXCEPT ![s] = task]
  BY DEF Starts
<1>0. /\ tasks'[s] = task /\ \A r \in Slots \ {s} : tasks'[r] = tasks[r]
      /\ Len(rows) \in Nat
  BY RowsType DEF TypeOK
<1>1. Len(rows) + Cardinality(Inserting') <= MaxRows
  <2>1. CASE Room
    <3>. DEFINE Busy == {r \in Slots : tasks[r] # NoTask}
    <3>1. IsFiniteSet(Busy) /\ s \notin Busy
      BY FS_Subset, JourneyAssumption
    <3>2. /\ IsFiniteSet(Busy \cup {s})
          /\ Cardinality(Busy \cup {s}) = Cardinality(Busy) + 1
      BY <3>1, FS_AddElement
    <3>3. Cardinality(Busy) \in Nat
      BY <3>1, FS_CardinalityType
    <3>4. Inserting' \subseteq Busy \cup {s}
      BY <1>0 DEF Inserting, NoTask
    <3>5. /\ Cardinality(Inserting') <= Cardinality(Busy \cup {s})
          /\ IsFiniteSet(Inserting')
      BY <3>2, <3>4, FS_Subset
    <3>6. Cardinality(Inserting') \in Nat
      BY <3>5, FS_CardinalityType
    <3>7. Len(rows) + Cardinality(Busy) < MaxRows
      BY <2>1 DEF Room
    <3>. QED BY <1>0, <3>2, <3>3, <3>5, <3>6, <3>7, JourneyAssumption
  <2>2. CASE task.pc = "amend" /\ task.kind # "recover"
    <3>1. Inserting' \subseteq Inserting
      BY <1>0, <2>2 DEF Inserting
    <3>. QED BY <1>0, <3>1, FewerInserting, RoomLeft, JourneyAssumption
             DEF BoundInvariant
  <2>. QED BY <2>1, <2>2
<1>. QED BY <1>0, <1>1 DEF BoundInvariant

LEMMA BeginBound ==
  ASSUME TypeOK, BoundInvariant, Begin
  PROVE  BoundInvariant'
<1>1. ASSUME NEW kind \in Writers, NEW fromHome \in BOOLEAN,
             NEW toHome \in BOOLEAN, NEW old \in BOOLEAN,
             StartsWriter(kind, fromHome, toHome, old)
      PROVE  BoundInvariant'
  <2>. DEFINE task == [NoTask EXCEPT !.kind = kind, !.pc = "decide",
                !.old = old, !.fromHome = fromHome, !.toHome = toHome]
  <2>1. task \in Task /\ task.journey = 0 /\ task.pc # "insert"
    BY EmptyTask DEF Task, NoTask
  <2>2. Room /\ Starts(task) /\ UNCHANGED <<rows, current>>
    BY <1>1 DEF StartsWriter
  <2>. QED BY <2>1, <2>2, StartsInserting
<1>2. CASE TripOpens \/ TripDiscarded
  BY <1>2 DEF TripOpens, TripDiscarded, BoundInvariant, Inserting
<1>3. ASSUME NEW fromHome \in BOOLEAN, NEW toHome \in BOOLEAN,
             TripCloses(fromHome, toHome) \/ SynthStarts(fromHome, toHome)
      PROVE  BoundInvariant'
  BY <1>1, <1>3 DEF TripCloses, SynthStarts, Writers
<1>4. ASSUME NEW fromHome \in BOOLEAN, NEW toHome \in BOOLEAN,
             NEW old \in BOOLEAN, ManualStarts(fromHome, toHome, old)
      PROVE  BoundInvariant'
  BY <1>1, <1>4 DEF ManualStarts, Writers
<1>5. ASSUME NEW toHome \in BOOLEAN, OrphanStarts(toHome)
      PROVE  BoundInvariant'
  <2>1. lastTrip.home \in BOOLEAN
    BY DEF TypeOK
  <2>. QED BY <1>1, <1>5, <2>1 DEF OrphanStarts, Writers
<1>6. ASSUME NEW toHome \in BOOLEAN, LateArrival(toHome)
      PROVE  BoundInvariant'
  <2>. DEFINE task == [NoTask EXCEPT !.kind = "late", !.pc = "amend",
                         !.toHome = toHome, !.row = lastTrip.row]
  <2>1. /\ task \in Task /\ task.journey = 0 /\ task.pc = "amend"
        /\ task.kind # "recover"
    BY EmptyTask DEF Task, NoTask, TypeOK
  <2>2. Starts(task) /\ UNCHANGED <<rows, current>>
    BY <1>6 DEF LateArrival
  <2>. QED BY <2>1, <2>2, StartsInserting
<1>7. ASSUME NEW kind \in Services, ServiceCalled(kind)
      PROVE  BoundInvariant'
  <2>. DEFINE task == [NoTask EXCEPT !.kind = kind, !.pc = "amend"]
  <2>1. /\ task \in Task /\ task.journey = 0 /\ task.pc = "amend"
        /\ task.kind = kind
    BY EmptyTask DEF Task, NoTask
  <2>2. Starts(task) /\ UNCHANGED <<rows, current>>
    BY <1>7 DEF ServiceCalled
  <2>3. Room \/ task.kind # "recover"
    BY <1>7, <2>1 DEF ServiceCalled
  <2>. QED BY <2>1, <2>2, <2>3, StartsInserting
<1>. QED BY <1>2, <1>3, <1>4, <1>5, <1>6, <1>7 DEF Begin

\* What is needed of a step of a coroutine for the bounds to survive it.
TaskEnds(s) ==
  /\ tasks'[s].journey <= Len(rows')
  /\ tasks'[s].pc \in {"idle", "absorb", "finish"}
  /\ \A r \in Slots \ {s} : tasks'[r] = tasks[r]

RowsKept ==
  /\ Len(rows') = Len(rows) /\ DOMAIN rows' = 1..Len(rows)
  /\ \A i \in 1..Len(rows) : rows'[i].journey <= Len(rows)
  /\ current' <= Len(rows)

LEMMA KeptBound ==
  ASSUME TypeOK, TypeOK', BoundInvariant, RowsKept, NEW s \in Slots, TaskEnds(s)
  PROVE  BoundInvariant'
<1>0. /\ Len(rows) \in Nat
      /\ \A r \in Slots : tasks[r].journey \in Nat /\ tasks'[r].journey \in Nat
  <2>1. \A task \in Task : task.journey \in Nat
    BY DEF Task
  <2>. QED BY <2>1, RowsType DEF TypeOK
<1>1. Inserting' \subseteq Inserting
  BY DEF TaskEnds, Inserting
<1>2. Len(rows') + Cardinality(Inserting') <= MaxRows
  BY <1>0, <1>1, FewerInserting, RoomLeft, JourneyAssumption
     DEF RowsKept, BoundInvariant
<1>3. ASSUME NEW r \in Slots
      PROVE  /\ tasks'[r].journey <= Len(rows') + 1
             /\ tasks'[r].pc # "insert" => tasks'[r].journey <= Len(rows')
  <2>1. CASE r = s
    BY <1>0, <2>1 DEF TaskEnds, RowsKept
  <2>2. CASE r # s
    BY <2>2 DEF TaskEnds, RowsKept, BoundInvariant
  <2>. QED BY <2>1, <2>2
<1>. QED BY <1>2, <1>3 DEF RowsKept, BoundInvariant

LEMMA TaskTypes ==
  ASSUME TypeOK, BoundInvariant
  PROVE  /\ Len(rows) \in Nat /\ current \in Nat /\ current <= Len(rows)
         /\ \A s \in Slots : /\ tasks[s] \in Task /\ tasks[s].journey \in Nat
                             /\ tasks[s].journey <= Len(rows) + 1
                             /\ tasks[s].pc # "insert" =>
                                  tasks[s].journey <= Len(rows)
         /\ \A i \in 1..Len(rows) : /\ rows[i].journey \in Nat
                                    /\ rows[i].journey <= Len(rows)
<1>1. /\ Len(rows) \in Nat /\ DOMAIN rows = 1..Len(rows)
      /\ \A i \in 1..Len(rows) : rows[i] \in Row
  BY RowsType
<1>2. current \in Nat /\ \A s \in Slots : tasks[s] \in Task
  BY DEF TypeOK
<1>. QED BY <1>1, <1>2 DEF BoundInvariant, Task, Row

LEMMA WritersBound ==
  ASSUME TypeOK, TypeOK', BoundInvariant, NEW s \in Slots,
         \/ Decide(s) \/ Mint(s) \/ Insert(s) \/ Absorb(s) \/ FinishWriter(s)
         \/ WriterFails(s)
  PROVE  BoundInvariant'
<1>0. /\ Len(rows) \in Nat /\ DOMAIN rows = 1..Len(rows) /\ MaxRows \in Nat
      /\ Cardinality(Inserting) \in Nat
      /\ Len(rows) + Cardinality(Inserting) <= MaxRows
  BY RowsType, RoomLeft, JourneyAssumption DEF BoundInvariant
<1>1. CASE Decide(s) \/ Mint(s)
  <2>1. /\ tasks'[s].pc \in {"mint", "insert"} /\ s \in Inserting
        /\ tasks'[s].journey \in 0..Len(rows)+1
        /\ tasks'[s].pc # "insert" => tasks'[s].journey \in 0..Len(rows)
    <3>1. CASE Decide(s)
      <4>1. /\ tasks'[s].journey = current /\ tasks'[s].pc \in {"mint", "insert"}
            /\ tasks[s].pc = "decide"
        BY <3>1, TaskTypes DEF Decide, TypeOK, Task
      <4>. QED BY <4>1, TaskTypes DEF Inserting
    <3>2. CASE Mint(s)
      <4>1. /\ tasks'[s].journey = NextId /\ tasks'[s].pc = "insert"
            /\ tasks[s].pc = "mint"
        BY <3>2, TaskTypes DEF Mint, TypeOK, Task
      <4>. QED BY <1>0, <4>1, QueriesType DEF Inserting
    <3>. QED BY <1>1, <3>1, <3>2
  <2>2. /\ \A r \in Slots \ {s} : tasks'[r] = tasks[r]
        /\ UNCHANGED <<rows, current>>
    BY <1>1 DEF Decide, Mint, TypeOK
  <2>3. Inserting' \subseteq Inserting
    BY <2>1, <2>2 DEF Inserting
  <2>4. Len(rows) + Cardinality(Inserting') <= MaxRows
    BY <1>0, <2>3, FewerInserting
  <2>5. ASSUME NEW r \in Slots
        PROVE  /\ tasks'[r].journey <= Len(rows) + 1
               /\ tasks'[r].pc # "insert" => tasks'[r].journey <= Len(rows)
    <3>1. CASE r = s
      BY <1>0, <2>1, <3>1
    <3>2. CASE r # s
      BY <2>2, <3>2, TaskTypes
    <3>. QED BY <3>1, <3>2
  <2>. QED BY <2>2, <2>4, <2>5 DEF BoundInvariant
<1>2. CASE Insert(s)
  <2>1. /\ tasks'[s].journey = tasks[s].journey
        /\ tasks'[s].pc \in {"absorb", "finish"} /\ s \in Inserting
        /\ \A r \in Slots \ {s} : tasks'[r] = tasks[r]
        /\ current' = current
    BY <1>2, TaskTypes DEF Insert, TypeOK, Task, Inserting
  <2>2. [home |-> tasks[s].toHome, journey |-> tasks[s].journey,
         old |-> tasks[s].old, gone |-> FALSE] \in Row
    BY TaskTypes DEF Task, Row
  <2>3. /\ Len(rows') = Len(rows) + 1 /\ DOMAIN rows' = 1..Len(rows) + 1
        /\ rows'[Len(rows) + 1].journey = tasks[s].journey
        /\ \A i \in 1..Len(rows) : rows'[i] = rows[i]
    BY <1>2, <2>2, AppendIs DEF Insert
  <2>4. Inserting' \subseteq Inserting \ {s}
    BY <2>1 DEF Inserting
  <2>5. Len(rows') + Cardinality(Inserting') <= MaxRows
    BY <1>0, <2>1, <2>3, <2>4, OneLessInserting
  <2>6. \A i \in DOMAIN rows' : rows'[i].journey <= Len(rows')
    <3>. TAKE i \in DOMAIN rows'
    <3>1. CASE i = Len(rows) + 1
      BY <2>3, <3>1, TaskTypes
    <3>2. CASE i # Len(rows) + 1
      <4>1. i \in 1..Len(rows)
        BY <1>0, <2>3, <3>2
      <4>. QED BY <1>0, <2>3, <4>1, TaskTypes
    <3>. QED BY <3>1, <3>2
  <2>7. ASSUME NEW r \in Slots
        PROVE  tasks'[r].journey <= Len(rows')
    <3>1. tasks'[r].journey = tasks[r].journey
      BY <2>1
    <3>. QED BY <2>3, <3>1, TaskTypes
  <2>8. \A r \in Slots : tasks'[r].journey \in Nat
    BY DEF TypeOK, Task
  <2>. QED BY <1>0, <2>1, <2>3, <2>5, <2>6, <2>7, <2>8, TaskTypes
           DEF BoundInvariant
<1>3. CASE Absorb(s)
  <2>1. /\ tasks'[s].journey = tasks[s].journey /\ tasks'[s].pc = "finish"
        /\ tasks[s].pc = "absorb"
        /\ \A r \in Slots \ {s} : tasks'[r] = tasks[r]
    BY <1>3, TaskTypes DEF Absorb, TypeOK, Task
  <2>2. /\ DOMAIN rows' = DOMAIN rows /\ current' = current
        /\ \A i \in DOMAIN rows :
             rows'[i] \in {rows[i], [rows[i] EXCEPT !.journey = tasks[s].journey]}
    BY <1>3 DEF Absorb
  <2>3. Len(rows') = Len(rows)
    BY <1>0, <2>2, LenProperties DEF TypeOK
  <2>4. \A i \in 1..Len(rows) : rows'[i].journey <= Len(rows)
    <3>1. \A i \in 1..Len(rows) :
            rows'[i].journey \in {rows[i].journey, tasks[s].journey}
      BY <1>0, <2>2, RowsType DEF Row
    <3>. QED BY <2>1, <3>1, TaskTypes
  <2>5. TaskEnds(s)
    BY <2>1, <2>3, TaskTypes DEF TaskEnds
  <2>. QED BY <1>0, <2>2, <2>3, <2>4, <2>5, TaskTypes, KeptBound DEF RowsKept
<1>4. CASE FinishWriter(s) \/ WriterFails(s)
  <2>1. /\ tasks'[s] = NoTask /\ rows' = rows
        /\ \A r \in Slots \ {s} : tasks'[r] = tasks[r]
    BY <1>4 DEF FinishWriter, WriterFails, TypeOK
  <2>2. TaskEnds(s)
    BY <1>0, <2>1 DEF TaskEnds, NoTask
  <2>3. current' <= Len(rows)
    <3>1. CASE FinishWriter(s)
      <4>1. tasks[s].pc = "finish" /\ current' \in {0, tasks[s].journey}
        BY <3>1 DEF FinishWriter, FollowsRow
      <4>. QED BY <1>0, <4>1, TaskTypes
    <3>2. CASE WriterFails(s)
      BY <3>2, TaskTypes DEF WriterFails
    <3>. QED BY <1>4, <3>1, <3>2
  <2>. QED BY <1>0, <2>1, <2>2, <2>3, TaskTypes, KeptBound DEF RowsKept
<1>. QED BY <1>1, <1>2, <1>3, <1>4

LEMMA OthersBound ==
  ASSUME TypeOK, TypeOK', BoundInvariant, NEW s \in Slots,
         \/ AmendLate(s) \/ FinishLate(s)
         \/ Sets(s) \/ Deletes(s) \/ Purges(s) \/ Recovers(s)
         \/ FinishService(s)
  PROVE  BoundInvariant'
<1>0. /\ Len(rows) \in Nat /\ DOMAIN rows = 1..Len(rows) /\ MaxRows \in Nat
      /\ Cardinality(Inserting) \in Nat
      /\ Len(rows) + Cardinality(Inserting) <= MaxRows
  BY RowsType, RoomLeft, JourneyAssumption DEF BoundInvariant
<1>1. CASE AmendLate(s) \/ Sets(s) \/ Deletes(s) \/ Purges(s)
  <2>1. /\ tasks'[s].pc = "finish" /\ tasks'[s].journey = tasks[s].journey
        /\ tasks[s].pc = "amend" /\ current' = current
        /\ \A r \in Slots \ {s} : tasks'[r] = tasks[r]
    <3>1. /\ tasks' = [tasks EXCEPT ![s].pc = "finish"]
          /\ tasks[s].pc = "amend" /\ current' = current
      BY <1>1 DEF AmendLate, Sets, Deletes, Purges, Rewrites
    <3>. QED BY <3>1, TaskTypes DEF TypeOK, Task
  <2>2. DOMAIN rows' = DOMAIN rows
    BY <1>1, ServicesRewrite DEF AmendLate, Rewritten
  <2>3. Len(rows') = Len(rows)
    BY <1>0, <2>2, LenProperties DEF TypeOK
  <2>4. ASSUME NEW i \in 1..Len(rows)
        PROVE  \/ rows'[i].journey = rows[i].journey
               \/ \E k \in 1..Len(rows) : rows'[i].journey = rows[k].journey
    <3>0. rows[i] \in Row
      BY RowsType
    <3>1. CASE AmendLate(s)
      BY <1>0, <3>0, <3>1 DEF AmendLate, Row
    <3>2. CASE Sets(s)
      <4>1. PICK m \in Ids :
              \/ rows' = [rows EXCEPT ![m].home = ~rows[m].home]
              \/ \E k \in Ids :
                   /\ rows[k].journey # 0
                   /\ rows' = [rows EXCEPT ![m].journey = rows[k].journey]
        BY <3>2 DEF Sets
      <4>2. CASE rows' = [rows EXCEPT ![m].home = ~rows[m].home]
        BY <1>0, <3>0, <4>2 DEF Row
      <4>3. CASE \E k \in Ids :
                   rows' = [rows EXCEPT ![m].journey = rows[k].journey]
        <5>1. PICK k \in Ids :
                rows' = [rows EXCEPT ![m].journey = rows[k].journey]
          BY <4>3
        <5>2. k \in 1..Len(rows)
          BY RowsType
        <5>. QED BY <1>0, <3>0, <5>1, <5>2 DEF Row
      <4>. QED BY <4>1, <4>2, <4>3
    <3>3. CASE Deletes(s)
      BY <1>0, <3>0, <3>3 DEF Deletes, Row
    <3>4. CASE Purges(s)
      <4>1. rows'[i] \in {rows[i], [rows[i] EXCEPT !.gone = TRUE]}
        BY <1>0, <3>4 DEF Purges
      <4>. QED BY <3>0, <4>1 DEF Row
    <3>. QED BY <1>1, <3>1, <3>2, <3>3, <3>4
  <2>5. TaskEnds(s)
    BY <2>1, <2>3, TaskTypes DEF TaskEnds
  <2>6. \A i \in 1..Len(rows) : rows'[i].journey <= Len(rows)
    BY <2>4, TaskTypes
  <2>. QED BY <1>0, <2>1, <2>2, <2>3, <2>5, <2>6, TaskTypes, KeptBound DEF RowsKept
<1>2. CASE FinishLate(s) \/ FinishService(s)
  <2>1. /\ tasks'[s] = NoTask /\ rows' = rows
        /\ \A r \in Slots \ {s} : tasks'[r] = tasks[r]
    BY <1>2 DEF FinishLate, FinishService, TypeOK
  <2>2. TaskEnds(s)
    BY <1>0, <2>1 DEF TaskEnds, NoTask
  <2>3. current' <= Len(rows)
    <3>1. CASE FinishLate(s)
      <4>1. current' \in {0, current}
        BY <3>1 DEF FinishLate
      <4>. QED BY <1>0, <4>1, TaskTypes
    <3>2. CASE FinishService(s)
      BY <1>0, <3>2, DerivesType DEF FinishService
    <3>. QED BY <1>2, <3>1, <3>2
  <2>. QED BY <1>0, <2>1, <2>2, <2>3, TaskTypes, KeptBound DEF RowsKept
<1>3. CASE Recovers(s)
  <2>1. /\ tasks'[s].pc = "finish" /\ tasks'[s].journey = tasks[s].journey
        /\ tasks[s].pc = "amend" /\ current' = current /\ s \in Inserting
        /\ \A r \in Slots \ {s} : tasks'[r] = tasks[r]
    BY <1>3, TaskTypes DEF Recovers, Rewrites, TypeOK, Task, Inserting
  <2>2. PICK home \in BOOLEAN, old \in BOOLEAN :
          rows' = Append(rows, [home |-> home, journey |-> 0, old |-> old,
                                gone |-> FALSE])
    BY <1>3 DEF Recovers
  <2>3. [home |-> home, journey |-> 0, old |-> old, gone |-> FALSE] \in Row
    BY JourneyAssumption DEF Row
  <2>4. /\ Len(rows') = Len(rows) + 1 /\ DOMAIN rows' = 1..Len(rows) + 1
        /\ rows'[Len(rows) + 1].journey = 0
        /\ \A i \in 1..Len(rows) : rows'[i] = rows[i]
    BY <2>2, <2>3, AppendIs
  <2>5. Inserting' \subseteq Inserting \ {s}
    BY <2>1 DEF Inserting
  <2>6. Len(rows') + Cardinality(Inserting') <= MaxRows
    BY <1>0, <2>1, <2>4, <2>5, OneLessInserting
  <2>7. \A i \in DOMAIN rows' : rows'[i].journey <= Len(rows')
    <3>. TAKE i \in DOMAIN rows'
    <3>1. CASE i = Len(rows) + 1
      BY <1>0, <2>4, <3>1
    <3>2. CASE i # Len(rows) + 1
      <4>1. i \in 1..Len(rows)
        BY <1>0, <2>4, <3>2
      <4>. QED BY <1>0, <2>4, <4>1, TaskTypes
    <3>. QED BY <3>1, <3>2
  <2>8. ASSUME NEW r \in Slots
        PROVE  /\ tasks'[r].journey <= Len(rows') + 1
               /\ tasks'[r].pc # "insert" => tasks'[r].journey <= Len(rows')
    <3>1. CASE r = s
      BY <2>1, <2>4, <3>1, TaskTypes
    <3>2. CASE r # s
      BY <2>1, <2>4, <3>2, TaskTypes
    <3>. QED BY <3>1, <3>2
  <2>9. current' <= Len(rows')
    BY <2>1, <2>4, TaskTypes
  <2>. QED BY <2>6, <2>7, <2>8, <2>9 DEF BoundInvariant
<1>. QED BY <1>1, <1>2, <1>3

LEMMA BoundStep ==
  TypeOK /\ BoundInvariant /\ [Next]_vars => BoundInvariant'
<1>. SUFFICES ASSUME TypeOK, BoundInvariant, [Next]_vars
              PROVE  BoundInvariant'
  OBVIOUS
<1>0. TypeOK'
  BY TypeStep
<1>1. CASE Resume
  BY <1>0, <1>1, WritersBound, OthersBound DEF Resume
<1>2. CASE Crash
  <2>1. /\ rows' = rows /\ current' = current
        /\ \A s \in Slots : tasks'[s] = NoTask
    BY <1>2 DEF Crash
  <2>2. Inserting' \subseteq Inserting
    BY <2>1 DEF Inserting, NoTask
  <2>3. Len(rows) + Cardinality(Inserting') <= MaxRows
    BY <2>2, FewerInserting, RoomLeft, RowsType, JourneyAssumption
       DEF BoundInvariant
  <2>4. \A s \in Slots : tasks'[s].journey <= Len(rows)
    BY <2>1, RowsType DEF NoTask
  <2>. QED BY <2>1, <2>3, <2>4, TaskTypes, RowsType DEF BoundInvariant, NoTask
<1>3. CASE Start
  BY <1>3, DerivesType DEF Start, BoundInvariant, Inserting
<1>4. CASE UNCHANGED vars
  BY <1>4 DEF vars, BoundInvariant, Inserting
<1>. QED BY <1>1, <1>2, <1>3, <1>4, BeginBound DEF Next

LEMMA InitTyped == Init => TypeOK /\ BoundInvariant
<1>. SUFFICES ASSUME Init PROVE TypeOK /\ BoundInvariant
  OBVIOUS
<1>1. rows \in Seq(Row) /\ Len(rows) = 0 /\ DOMAIN rows = {}
  BY EmptySeq, LenProperties DEF Init
<1>2. TypeOK
  <2>1. lastTrip \in [row : 0..MaxRows, home : BOOLEAN]
    BY JourneyAssumption DEF Init, NoTrip
  <2>2. tasks \in [Slots -> Task]
    BY EmptyTask DEF Init
  <2>3. 0 \in 0..MaxRows /\ 0 \in 0..MaxEdits /\ 0 \in 0..MaxCrashes
    BY JourneyAssumption
  <2>4. 0 \in 0..MaxFailures /\ Len(rows) <= MaxRows
    BY <1>1, JourneyAssumption
  <2>. QED BY <1>1, <2>1, <2>2, <2>3, <2>4 DEF Init, TypeOK
<1>3. Inserting = {}
  BY DEF Init, Inserting, NoTask
<1>4. Cardinality(Inserting) = 0
  BY <1>3, FS_EmptySet
<1>5. BoundInvariant
  BY <1>1, <1>4, JourneyAssumption DEF Init, BoundInvariant, NoTask
<1>. QED BY <1>2, <1>5

\* However many coroutines are suspended, the log keeps to the rows its writers
\* were given room for, and no journey has an id past the number of rows.
THEOREM JourneysTyped == Spec => []TypeOK
<1>1. Init => TypeOK /\ BoundInvariant
  BY InitTyped
<1>2. TypeOK /\ BoundInvariant /\ [Next]_vars => TypeOK' /\ BoundInvariant'
  BY TypeStep, BoundStep
<1>. QED BY <1>1, <1>2, PTL DEF Spec
-----------------------------------------------------------------------------
(***************************************************************************)
(* The journey in memory and the journey of the log, while undisturbed.    *)
(***************************************************************************)
Known(j) == \E i \in Ids : rows[i].journey = j

\* An arrival home is the last word on every row that has a journey.
AllHome == \A i \in Ids : rows[i].journey # 0 =>
                            \E h \in Ids : rows[h].home /\ i <= h

\* What the queries answer, without their maxima.
LogFacts ==
  /\ OpenInLog = 0 <=> AllHome
  /\ \A i \in Ids : /\ \A k \in Ids : k <= i
                    /\ rows[i].journey # 0 /\ ~rows[i].home
                    => OpenInLog = rows[i].journey
  /\ OpenInLog # 0 => Known(OpenInLog)
  /\ \A i \in Ids : rows[i].journey < NextId
  /\ NextId \in 1..Len(rows)+1

LEMMA LogFactsHold == TypeOK /\ BoundInvariant => LogFacts
<1>. SUFFICES ASSUME TypeOK, BoundInvariant PROVE LogFacts
  OBVIOUS
<1>. DEFINE Homes == {i \in Ids : rows[i].home}
            Open == {i \in Ids : rows[i].journey # 0 /\ i > LastHome}
<1>0. /\ Len(rows) \in Nat /\ Ids \subseteq 0..Len(rows)
      /\ \A i \in Ids : /\ i \in 1..Len(rows) /\ i \in Nat
                        /\ rows[i].journey \in 0..Len(rows)
                        /\ rows[i].home \in BOOLEAN
  BY RowsType, TaskTypes
<1>1. /\ LastHome \in 0..Len(rows) /\ (Homes # {} => LastHome \in Homes)
      /\ \A h \in Homes : h <= LastHome
  <2>1. Homes \subseteq 0..Len(rows)
    BY <1>0
  <2>. QED BY <1>0, <2>1, LatestIs DEF LastHome
<1>2. OpenInLog = JourneyOf(Latest(Open))
  BY DEF OpenInLog
<1>3. /\ Open # {} => Latest(Open) \in Open
      /\ \A i \in Open : i <= Latest(Open)
      /\ Open = {} => Latest(Open) = 0
      /\ Latest(Open) \in 0..Len(rows)
  <2>1. Open \subseteq 0..Len(rows)
    BY <1>0
  <2>. QED BY <1>0, <2>1, LatestIs DEF Latest
<1>4. OpenInLog = 0 <=> Open = {}
  BY <1>0, <1>2, <1>3 DEF JourneyOf
<1>5. Open = {} <=> AllHome
  <2>1. ASSUME Open = {}, NEW i \in Ids, rows[i].journey # 0
        PROVE  \E h \in Ids : rows[h].home /\ i <= h
    <3>1. i <= LastHome
      BY <1>0, <1>1, <2>1
    <3>2. LastHome \in Homes
      <4>1. LastHome # 0
        BY <1>0, <3>1
      <4>2. Homes # {}
        BY <4>1 DEF LastHome, Latest
      <4>. QED BY <1>1, <4>2
    <3>. QED BY <3>1, <3>2
  <2>2. ASSUME AllHome, NEW i \in Open
        PROVE  FALSE
    <3>1. PICK h \in Ids : rows[h].home /\ i <= h
      BY <2>2 DEF AllHome
    <3>2. h <= LastHome
      BY <1>1, <3>1
    <3>. QED BY <1>0, <1>1, <3>1, <3>2
  <2>. QED BY <2>1, <2>2 DEF AllHome
<1>6. ASSUME NEW i \in Ids, \A k \in Ids : k <= i,
             rows[i].journey # 0, ~rows[i].home
      PROVE  OpenInLog = rows[i].journey
  <2>1. LastHome < i
    <3>1. CASE Homes = {}
      BY <1>0, <3>1 DEF LastHome, Latest
    <3>2. CASE Homes # {}
      <4>1. LastHome \in Ids /\ rows[LastHome].home
        BY <1>1, <3>2
      <4>2. LastHome <= i /\ LastHome # i
        BY <1>6, <4>1
      <4>. QED BY <1>0, <4>1, <4>2
    <3>. QED BY <3>1, <3>2
  <2>2. i \in Open
    BY <1>6, <2>1
  <2>3. Latest(Open) \in Open /\ i <= Latest(Open)
    <3>. HIDE DEF Open
    <3>. QED BY <1>3, <2>2
  <2>4. Latest(Open) \in Ids
    BY <2>3
  <2>5. Latest(Open) = i
    <3>1. Latest(Open) <= i
      BY <1>6, <2>4
    <3>2. Latest(Open) \in Nat /\ i \in Nat
      BY <1>0, <2>4
    <3>. HIDE DEF Open
    <3>. QED BY <2>3, <3>1, <3>2
  <2>. QED BY <1>0, <1>2, <2>5 DEF JourneyOf
<1>7. OpenInLog # 0 => Known(OpenInLog)
  BY <1>2, <1>3, <1>4 DEF JourneyOf, Known
<1>8. /\ \A i \in Ids : rows[i].journey < NextId
      /\ NextId \in 1..Len(rows)+1
  <2>. DEFINE Used == {rows[i].journey : i \in Ids}
  <2>1. Used \subseteq 0..Len(rows)
    BY <1>0
  <2>2. Latest(Used) \in 0..Len(rows) /\ \A j \in Used : j <= Latest(Used)
    BY <1>0, <2>1, LatestIs
  <2>3. NextId = 1 + Latest(Used)
    BY DEF NextId
  <2>4. \A i \in Ids : rows[i].journey \in Used
    OBVIOUS
  <2>. HIDE DEF Used
  <2>. QED BY <1>0, <2>2, <2>3, <2>4
<1>. QED BY <1>4, <1>5, <1>6, <1>7, <1>8 DEF LogFacts

LEMMA LogFactsNext == TypeOK' /\ BoundInvariant' => LogFacts'
BY LogFactsHold, PTL

LEMMA SameRows ==
  ASSUME rows' = rows
  PROVE  /\ Ids' = Ids /\ OpenInLog' = OpenInLog /\ NextId' = NextId
         /\ Ended' = Ended
         /\ \A j : Known(j)' <=> Known(j)
<1>1. Ids' = Ids
  BY DEF Ids
<1>2. LastHome' = LastHome
  BY <1>1 DEF LastHome
<1>3. OpenInLog' = OpenInLog
  BY <1>1, <1>2 DEF OpenInLog, JourneyOf
<1>4. NextId' = NextId
  BY <1>1 DEF NextId
<1>5. Ended' = Ended
  BY <1>1, <1>3 DEF Ended
<1>6. \A j : Known(j)' <=> Known(j)
  BY <1>1 DEF Known
<1>. QED BY <1>1, <1>3, <1>4, <1>5, <1>6
-----------------------------------------------------------------------------
\* The points a coroutine can be suspended at.
TaskFits(t) ==
  /\ t.pc = "idle" => t = NoTask
  /\ t.pc \in {"decide", "mint", "insert", "absorb"} => t.kind \in Writers
  /\ t.pc = "amend" => t.kind \in {"late"} \cup Services
  /\ t.pc = "finish" => t.kind # "none"
  /\ t.pc \in {"decide", "mint"} => ~t.stitched
  /\ t.old => t.kind \in Writers

ShapeInvariant ==
  \A s \in Slots : TaskFits(tasks[s]) /\ (up \/ tasks[s] = NoTask)

\* Undisturbed, one coroutine at most is suspended, and no row, nor the one it
\* has just written, is of a drive that ended before those of other rows.
InOrder == \A i \in Ids : ~rows[i].old
Lone(s) == \A r \in Slots \ {s} : tasks[r] = NoTask

AloneInvariant ==
  ~disturbed =>
    /\ InOrder
    /\ \A s \in Slots : tasks[s] # NoTask => Lone(s)
    /\ \A s \in Slots : ~(tasks[s].old /\ tasks[s].pc \in {"absorb", "finish"})

\* Memory follows the log while no row is half written.
Agrees == current = OpenInLog /\ \A i \in Ids : i <= lastTrip.row

DecidedAt(s) ==
  /\ \/ tasks[s].journey = current
     \/ current = 0 /\ tasks[s].journey = NextId
  /\ tasks[s].stitched => tasks[s].toHome /\ tasks[s].journey # 0

WrittenAt(s) ==
  /\ tasks[s].row = Len(rows) /\ Len(rows) \in Ids
  /\ OpenInLog = IF tasks[s].toHome THEN 0 ELSE tasks[s].journey
  /\ tasks[s].journey # 0 =>
       Known(tasks[s].journey) /\ tasks[s].journey # completed
  /\ tasks[s].pc = "absorb" =>
       tasks[s].toHome /\ tasks[s].journey # 0 /\ rows[Len(rows)].home

AmendedAt(s) ==
  tasks[s].toHome /\ OpenInLog = 0 /\ \A i \in Ids : i <= lastTrip.row

Halfway(s) ==
  /\ tasks[s].pc \in {"decide", "mint", "insert", "amend"} => Agrees
  /\ tasks[s].pc = "mint" => current = 0 /\ Mints(tasks[s])
  /\ tasks[s].pc = "insert" => DecidedAt(s)
  /\ tasks[s].pc \in {"absorb", "finish"} /\ tasks[s].kind \in Writers =>
       WrittenAt(s)
  /\ tasks[s].kind = "late" => tasks[s].row = lastTrip.row /\ tasks[s].row # 0
  /\ tasks[s].kind = "late" /\ tasks[s].pc = "finish" => AmendedAt(s)
  /\ tasks[s].kind \in Services => tasks[s].pc # "finish"

MemoryKnown ==
  /\ current # 0 => Known(current)
  /\ completed # 0 => Known(completed) /\ completed # current
  /\ lastTrip.row = 0 \/ lastTrip.row \in Ids

MemoryInvariant ==
  up /\ ~disturbed =>
    /\ MemoryKnown
    /\ Settled => Agrees
    /\ \A s \in Slots : Halfway(s)
-----------------------------------------------------------------------------
LEMMA TaskTaken ==
  ASSUME TypeOK, NEW s \in Slots, NEW task, tasks' = [tasks EXCEPT ![s] = task]
  PROVE  tasks'[s] = task /\ \A r \in Slots \ {s} : tasks'[r] = tasks[r]
BY DEF TypeOK

LEMMA NoTaskFits == TaskFits(NoTask)
BY DEF TaskFits, NoTask, Writers, Services

\* What is started with a task that fits keeps the shape.
LEMMA StartsShape ==
  ASSUME TypeOK, ShapeInvariant, NEW task, TaskFits(task), Starts(task),
         up, UNCHANGED <<rows, up>>
  PROVE  ShapeInvariant'
<1>1. PICK s \in Slots : tasks' = [tasks EXCEPT ![s] = task]
  BY DEF Starts
<1>2. tasks'[s] = task /\ \A r \in Slots \ {s} : tasks'[r] = tasks[r]
  BY <1>1, TaskTaken
<1>3. \A r \in Slots : TaskFits(tasks'[r])
  BY <1>2 DEF ShapeInvariant
<1>. QED BY <1>3 DEF ShapeInvariant

LEMMA BeginShape ==
  ASSUME TypeOK, ShapeInvariant, Begin
  PROVE  ShapeInvariant'
<1>1. ASSUME NEW kind \in Writers, NEW fromHome \in BOOLEAN,
             NEW toHome \in BOOLEAN, NEW old \in BOOLEAN,
             StartsWriter(kind, fromHome, toHome, old)
      PROVE  ShapeInvariant'
  <2>. DEFINE task == [NoTask EXCEPT !.kind = kind, !.pc = "decide",
                !.old = old, !.fromHome = fromHome, !.toHome = toHome]
  <2>1. TaskFits(task)
    BY DEF TaskFits, NoTask, Writers
  <2>. QED BY <1>1, <2>1, StartsShape DEF StartsWriter
<1>2. CASE TripOpens \/ TripDiscarded
  BY <1>2 DEF TripOpens, TripDiscarded, ShapeInvariant
<1>3. ASSUME NEW fromHome \in BOOLEAN, NEW toHome \in BOOLEAN,
             TripCloses(fromHome, toHome) \/ SynthStarts(fromHome, toHome)
      PROVE  ShapeInvariant'
  BY <1>1, <1>3 DEF TripCloses, SynthStarts, Writers
<1>4. ASSUME NEW fromHome \in BOOLEAN, NEW toHome \in BOOLEAN,
             NEW old \in BOOLEAN, ManualStarts(fromHome, toHome, old)
      PROVE  ShapeInvariant'
  BY <1>1, <1>4 DEF ManualStarts, Writers
<1>5. ASSUME NEW toHome \in BOOLEAN, OrphanStarts(toHome)
      PROVE  ShapeInvariant'
  <2>1. lastTrip.home \in BOOLEAN
    BY DEF TypeOK
  <2>. QED BY <1>1, <1>5, <2>1 DEF OrphanStarts, Writers
<1>6. ASSUME NEW toHome \in BOOLEAN, LateArrival(toHome)
      PROVE  ShapeInvariant'
  <2>. DEFINE task == [NoTask EXCEPT !.kind = "late", !.pc = "amend",
                         !.toHome = toHome, !.row = lastTrip.row]
  <2>1. TaskFits(task)
    BY DEF TaskFits, NoTask, Writers
  <2>. QED BY <1>6, <2>1, StartsShape DEF LateArrival
<1>7. ASSUME NEW kind \in Services, ServiceCalled(kind)
      PROVE  ShapeInvariant'
  <2>. DEFINE task == [NoTask EXCEPT !.kind = kind, !.pc = "amend"]
  <2>1. TaskFits(task)
    BY DEF TaskFits, NoTask, Writers, Services
  <2>. QED BY <1>7, <2>1, StartsShape DEF ServiceCalled
<1>. QED BY <1>2, <1>3, <1>4, <1>5, <1>6, <1>7 DEF Begin

LEMMA ResumeShape ==
  ASSUME TypeOK, BoundInvariant, ShapeInvariant, NEW s \in Slots,
         \/ Decide(s) \/ Mint(s) \/ Insert(s) \/ Absorb(s) \/ FinishWriter(s)
         \/ WriterFails(s) \/ AmendLate(s) \/ FinishLate(s)
         \/ Sets(s) \/ Deletes(s) \/ Purges(s) \/ Recovers(s) \/ FinishService(s)
  PROVE  ShapeInvariant'
<1>0. /\ tasks[s] \in Task /\ TaskFits(tasks[s])
      /\ DOMAIN rows = 1..Len(rows) /\ \A i \in DOMAIN rows : rows[i] \in Row
  BY RowsType DEF TypeOK, ShapeInvariant
<1>1. /\ \A r \in Slots \ {s} : tasks'[r] = tasks[r]
      /\ TaskFits(tasks'[s])
  <2>1. CASE Decide(s) \/ Mint(s)
    <3>1. /\ tasks'[s].kind = tasks[s].kind /\ tasks'[s].old = tasks[s].old
          /\ tasks[s].pc \in {"decide", "mint"}
          /\ tasks'[s].pc = "insert"
               \/ (tasks'[s].pc = "mint" /\ tasks'[s].stitched = tasks[s].stitched)
          /\ \A r \in Slots \ {s} : tasks'[r] = tasks[r]
      BY <1>0, <2>1 DEF Decide, Mint, TypeOK, Task
    <3>. QED BY <1>0, <3>1 DEF TaskFits
  <2>2. CASE Insert(s) \/ Absorb(s)
    <3>1. /\ tasks'[s].kind = tasks[s].kind /\ tasks'[s].old = tasks[s].old
          /\ tasks[s].pc \in {"insert", "absorb"}
          /\ tasks'[s].pc \in {"absorb", "finish"}
          /\ \A r \in Slots \ {s} : tasks'[r] = tasks[r]
      BY <1>0, <2>2 DEF Insert, Absorb, TypeOK, Task
    <3>. QED BY <1>0, <3>1 DEF TaskFits, Writers
  <2>3. CASE FinishWriter(s) \/ WriterFails(s) \/ FinishLate(s) \/ FinishService(s)
    <3>1. tasks' = [tasks EXCEPT ![s] = NoTask]
      BY <2>3 DEF FinishWriter, WriterFails, FinishLate, FinishService
    <3>. QED BY <3>1, TaskTaken, NoTaskFits
  <2>4. CASE AmendLate(s) \/ Sets(s) \/ Deletes(s) \/ Purges(s) \/ Recovers(s)
    <3>1. tasks' = [tasks EXCEPT ![s].pc = "finish"] /\ tasks[s].pc = "amend"
      BY <2>4 DEF AmendLate, Sets, Deletes, Purges, Recovers, Rewrites
    <3>2. /\ tasks'[s].kind = tasks[s].kind /\ tasks'[s].old = tasks[s].old
          /\ tasks'[s].pc = "finish"
          /\ \A r \in Slots \ {s} : tasks'[r] = tasks[r]
      BY <1>0, <3>1 DEF TypeOK, Task
    <3>. QED BY <1>0, <3>1, <3>2 DEF TaskFits, Services
  <2>. QED BY <2>1, <2>2, <2>3, <2>4
<1>2. up' = up /\ (up \/ tasks'[s] = NoTask)
  <2>1. up' = up
    BY DEF Decide, Mint, Insert, Absorb, FinishWriter, WriterFails, AmendLate,
           FinishLate, Sets, Deletes, Purges, Recovers, Rewrites, FinishService
  <2>2. tasks[s].pc # "idle" \/ tasks'[s] = NoTask
    <3>1. tasks'[s] = NoTask \/ tasks[s].kind = "late"
          \/ tasks[s].pc \in {"decide", "mint", "insert", "absorb", "amend"}
      BY TaskTaken
         DEF Decide, Mint, Insert, Absorb, FinishWriter, WriterFails, AmendLate,
             FinishLate, Sets, Deletes, Purges, Recovers, Rewrites, FinishService
    <3>. QED BY <1>0, <3>1 DEF TaskFits, NoTask
  <2>. QED BY <1>0, <2>1, <2>2 DEF ShapeInvariant, NoTask
<1>3. ASSUME NEW r \in Slots
      PROVE  TaskFits(tasks'[r]) /\ (up' \/ tasks'[r] = NoTask)
  BY <1>1, <1>2 DEF ShapeInvariant
<1>. QED BY <1>3 DEF ShapeInvariant

LEMMA ShapeStep ==
  ASSUME TypeOK, BoundInvariant, ShapeInvariant, [Next]_vars
  PROVE  ShapeInvariant'
<1>1. CASE Crash
  <2>1. \A s \in Slots : tasks'[s] = NoTask
    BY <1>1 DEF Crash
  <2>. QED BY <2>1, NoTaskFits DEF ShapeInvariant
<1>2. CASE Start
  BY <1>2 DEF Start, ShapeInvariant
<1>3. CASE UNCHANGED vars
  BY <1>3 DEF vars, ShapeInvariant
<1>. QED BY <1>1, <1>2, <1>3, BeginShape, ResumeShape DEF Next, Resume
-----------------------------------------------------------------------------
\* Rows are inserted in order, and only a rewrite touches which are there.
LEMMA OrderKept ==
  ASSUME TypeOK, BoundInvariant, AloneInvariant, NEW s \in Slots,
         \/ Decide(s) \/ Mint(s) \/ Insert(s) \/ Absorb(s) \/ FinishWriter(s)
         \/ WriterFails(s) \/ AmendLate(s) \/ FinishLate(s),
         ~disturbed'
  PROVE  InOrder'
<1>0. /\ tasks[s] \in Task
      /\ DOMAIN rows = 1..Len(rows) /\ \A i \in DOMAIN rows : rows[i] \in Row
  BY RowsType DEF TypeOK
<1>1. ~disturbed
  BY DEF Decide, Mint, Insert, Absorb, FinishWriter, WriterFails, AmendLate,
         FinishLate
<1>2. InOrder
  BY <1>1 DEF AloneInvariant
<1>3. CASE Insert(s)
  <2>1. [home |-> tasks[s].toHome, journey |-> tasks[s].journey,
         old |-> tasks[s].old, gone |-> FALSE] \in Row
    BY <1>0 DEF Task, Row
  <2>2. /\ DOMAIN rows' = 1..Len(rows) + 1 /\ Len(rows) \in Nat
        /\ rows'[Len(rows) + 1].old = tasks[s].old
        /\ \A i \in 1..Len(rows) : rows'[i] = rows[i]
    BY <1>3, <2>1, AppendIs, RowsType DEF Insert
  <2>3. ~tasks[s].old
    BY <1>3 DEF Insert
  <2>. QED BY <1>0, <1>2, <2>2, <2>3 DEF InOrder, Ids
<1>4. CASE Absorb(s)
  <2>1. \A i \in DOMAIN rows :
          rows'[i] \in {rows[i], [rows[i] EXCEPT !.journey = tasks[s].journey]}
    BY <1>4 DEF Absorb
  <2>2. \A i \in DOMAIN rows : /\ rows'[i].old = rows[i].old
                               /\ rows'[i].gone = rows[i].gone
    BY <1>0, <2>1 DEF Row
  <2>3. DOMAIN rows' = DOMAIN rows
    BY <1>4 DEF Absorb
  <2>. QED BY <1>2, <2>2, <2>3 DEF InOrder, Ids
<1>5. CASE AmendLate(s)
  BY <1>0, <1>2, <1>5 DEF AmendLate, InOrder, Ids, Row
<1>6. CASE Decide(s) \/ Mint(s) \/ FinishWriter(s) \/ WriterFails(s) \/ FinishLate(s)
  <2>1. rows' = rows
    BY <1>6 DEF Decide, Mint, FinishWriter, WriterFails, FinishLate
  <2>. QED BY <1>2, <2>1 DEF InOrder, Ids
<1>. QED BY <1>3, <1>4, <1>5, <1>6

\* What a step of the one coroutine leaves of the others: nothing.
LEMMA LoneKept ==
  ASSUME TypeOK, NEW s \in Slots, Lone(s),
         NEW task, tasks' = [tasks EXCEPT ![s] = task]
  PROVE  \A r \in Slots : tasks'[r] # NoTask => r = s /\ Lone(r)'
<1>1. \A r \in Slots \ {s} : tasks'[r] = NoTask
  BY TaskTaken DEF Lone
<1>2. Lone(s)'
  BY <1>1 DEF Lone
<1>. QED BY <1>1, <1>2

LEMMA BeginAlone ==
  ASSUME TypeOK, AloneInvariant, Begin
  PROVE  AloneInvariant'
<1>1. ASSUME NEW task, Starts(task), task.pc \in {"decide", "amend"}, rows' = rows
      PROVE  AloneInvariant'
  <2>. SUFFICES ASSUME ~disturbed' PROVE AloneInvariant'
    BY DEF AloneInvariant
  <2>1. ~disturbed /\ Settled
    BY <1>1 DEF Starts
  <2>2. PICK s \in Slots : tasks' = [tasks EXCEPT ![s] = task]
    BY <1>1 DEF Starts
  <2>3. Lone(s)
    BY <2>1 DEF Lone, Settled
  <2>4. \A r \in Slots : tasks'[r] # NoTask => Lone(r)'
    BY <2>2, <2>3, LoneKept
  <2>5. \A r \in Slots : tasks'[r].pc \in {"decide", "amend", "idle"}
    <3>1. tasks'[s] = task /\ \A r \in Slots \ {s} : tasks'[r] = NoTask
      BY <2>2, <2>3, TaskTaken DEF Lone
    <3>. QED BY <1>1, <3>1 DEF NoTask
  <2>6. InOrder'
    BY <1>1, <2>1 DEF AloneInvariant, InOrder, Ids
  <2>. QED BY <2>4, <2>5, <2>6 DEF AloneInvariant
<1>2. ASSUME NEW kind, NEW fromHome, NEW toHome, NEW old,
             StartsWriter(kind, fromHome, toHome, old)
      PROVE  AloneInvariant'
  <2>. DEFINE task == [NoTask EXCEPT !.kind = kind, !.pc = "decide",
                !.old = old, !.fromHome = fromHome, !.toHome = toHome]
  <2>1. task.pc = "decide"
    BY DEF NoTask
  <2>2. Starts(task) /\ rows' = rows
    BY <1>2 DEF StartsWriter
  <2>. HIDE DEF task
  <2>. QED BY <1>1, <2>1, <2>2
<1>3. ASSUME NEW toHome, LateArrival(toHome)
      PROVE  AloneInvariant'
  <2>. DEFINE task == [NoTask EXCEPT !.kind = "late", !.pc = "amend",
                         !.toHome = toHome, !.row = lastTrip.row]
  <2>1. task.pc = "amend"
    BY DEF NoTask
  <2>2. Starts(task) /\ rows' = rows
    BY <1>3 DEF LateArrival
  <2>. HIDE DEF task
  <2>. QED BY <1>1, <2>1, <2>2
<1>4. ASSUME NEW kind, ServiceCalled(kind)
      PROVE  AloneInvariant'
  <2>. DEFINE task == [NoTask EXCEPT !.kind = kind, !.pc = "amend"]
  <2>1. task.pc = "amend"
    BY DEF NoTask
  <2>2. Starts(task) /\ rows' = rows
    BY <1>4 DEF ServiceCalled
  <2>. HIDE DEF task
  <2>. QED BY <1>1, <2>1, <2>2
<1>5. CASE TripOpens \/ TripDiscarded
  BY <1>5 DEF TripOpens, TripDiscarded, AloneInvariant, InOrder, Ids, Lone
<1>. QED BY <1>2, <1>3, <1>4, <1>5
         DEF Begin, TripCloses, SynthStarts, ManualStarts, OrphanStarts

LEMMA ResumeAlone ==
  ASSUME TypeOK, BoundInvariant, ShapeInvariant, AloneInvariant, NEW s \in Slots,
         \/ Decide(s) \/ Mint(s) \/ Insert(s) \/ Absorb(s) \/ FinishWriter(s)
         \/ WriterFails(s) \/ AmendLate(s) \/ FinishLate(s)
         \/ Sets(s) \/ Deletes(s) \/ Purges(s) \/ Recovers(s) \/ FinishService(s)
  PROVE  AloneInvariant'
<1>. SUFFICES ASSUME ~disturbed' PROVE AloneInvariant'
  BY DEF AloneInvariant
<1>0. /\ tasks[s] \in Task /\ TaskFits(tasks[s]) /\ tasks[s] # NoTask
      /\ \E task : tasks' = [tasks EXCEPT ![s] = task]
  <2>1. tasks[s] \in Task /\ TaskFits(tasks[s])
    BY DEF TypeOK, ShapeInvariant
  <2>2. tasks[s].pc # "idle" \/ tasks[s].kind \in Writers
    BY <2>1 DEF Decide, Mint, Insert, Absorb, FinishWriter, WriterFails, AmendLate,
           FinishLate, Sets, Deletes, Purges, Recovers, Rewrites, FinishService
  <2>3. \E task : tasks' = [tasks EXCEPT ![s] = task]
    BY DEF Decide, Mint, Insert, Absorb, FinishWriter, WriterFails, AmendLate,
           FinishLate, Sets, Deletes, Purges, Recovers, Rewrites, FinishService
  <2>4. NoTask.pc = "idle" /\ NoTask.kind \notin Writers
    BY DEF NoTask, Writers
  <2>5. tasks[s] # NoTask
    BY <2>2, <2>4
  <2>. QED BY <2>1, <2>3, <2>5
<1>1. CASE FinishService(s)
  <2>1. tasks' = [tasks EXCEPT ![s] = NoTask] /\ rows' = rows
    BY <1>1 DEF FinishService
  <2>2. Lone(s) /\ InOrder
    <3>1. CASE disturbed
      <4>1. DerivesJourney
        BY <1>1, <3>1 DEF FinishService, DropsGhost, RefreshesLast
      <4>2. ~Crowded /\ ~(\E i \in Ids : rows[i].old)
        BY <4>1 DEF DerivesJourney
      <4>. QED BY <1>0, <4>2 DEF Crowded, Lone, InOrder
    <3>2. CASE ~disturbed
      BY <1>0, <3>2 DEF AloneInvariant
    <3>. QED BY <3>1, <3>2
  <2>3. \A r \in Slots : tasks'[r] = NoTask
    BY <2>1, <2>2, TaskTaken DEF Lone
  <2>4. InOrder'
    BY <2>1, <2>2 DEF InOrder, Ids
  <2>. QED BY <2>3, <2>4 DEF AloneInvariant, NoTask
<1>2. CASE Sets(s) \/ Deletes(s) \/ Purges(s) \/ Recovers(s)
  BY <1>2 DEF Sets, Deletes, Purges, Recovers, Rewrites
<1>3. CASE \/ Decide(s) \/ Mint(s) \/ Insert(s) \/ Absorb(s) \/ FinishWriter(s)
           \/ WriterFails(s) \/ AmendLate(s) \/ FinishLate(s)
  <2>1. ~disturbed
    BY <1>3 DEF Decide, Mint, Insert, Absorb, FinishWriter, WriterFails, AmendLate,
           FinishLate
  <2>2. Lone(s) /\ InOrder'
    BY <1>0, <1>3, <2>1, OrderKept DEF AloneInvariant
  <2>3. \A r \in Slots : tasks'[r] # NoTask => r = s /\ Lone(r)'
    BY <1>0, <2>2, LoneKept
  <2>4. ~(tasks'[s].old /\ tasks'[s].pc \in {"absorb", "finish"})
    <3>1. CASE Decide(s) \/ Mint(s)
      <4>1. CASE Decide(s)
        BY <1>0, <4>1 DEF Decide, TypeOK, Task
      <4>2. CASE Mint(s)
        BY <1>0, <4>2 DEF Mint, TypeOK, Task
      <4>. QED BY <3>1, <4>1, <4>2
    <3>2. CASE Insert(s)
      <4>1. tasks'[s].old = tasks[s].old /\ ~tasks[s].old
        BY <1>0, <3>2 DEF Insert, TypeOK, Task
      <4>. QED BY <4>1
    <3>3. CASE Absorb(s)
      <4>1. tasks'[s].old = tasks[s].old /\ tasks[s].pc = "absorb"
        BY <1>0, <3>3 DEF Absorb, TypeOK, Task
      <4>. QED BY <2>1, <4>1 DEF AloneInvariant
    <3>4. CASE AmendLate(s)
      <4>1. tasks'[s].old = tasks[s].old /\ tasks[s].kind = "late"
        BY <1>0, <3>4 DEF AmendLate, TypeOK, Task
      <4>. QED BY <1>0, <4>1 DEF TaskFits, Writers
    <3>5. CASE FinishWriter(s) \/ WriterFails(s) \/ FinishLate(s)
      <4>1. tasks'[s] = NoTask
        BY <3>5, TaskTaken DEF FinishWriter, WriterFails, FinishLate
      <4>. QED BY <4>1 DEF NoTask
    <3>. QED BY <1>3, <3>1, <3>2, <3>3, <3>4, <3>5
  <2>. QED BY <2>2, <2>3, <2>4 DEF AloneInvariant, NoTask
<1>. QED BY <1>1, <1>2, <1>3

LEMMA AloneStep ==
  ASSUME TypeOK, BoundInvariant, ShapeInvariant, AloneInvariant, [Next]_vars
  PROVE  AloneInvariant'
<1>1. CASE Crash
  <2>1. /\ rows' = rows /\ disturbed' = disturbed
        /\ \A s \in Slots : tasks'[s] = NoTask
    BY <1>1 DEF Crash
  <2>. QED BY <2>1 DEF AloneInvariant, InOrder, Ids, NoTask
<1>2. CASE Start
  <2>1. /\ rows' = rows /\ DerivesJourney
        /\ \A s \in Slots : tasks'[s] = NoTask
    BY <1>2 DEF Start, ShapeInvariant
  <2>2. ~disturbed' => InOrder'
    BY <2>1 DEF DerivesJourney, InOrder, Ids
  <2>. QED BY <2>1, <2>2 DEF AloneInvariant, NoTask
<1>3. CASE UNCHANGED vars
  BY <1>3 DEF vars, AloneInvariant, InOrder, Ids, Lone
<1>. QED BY <1>1, <1>2, <1>3, BeginAlone, ResumeAlone DEF Next, Resume
-----------------------------------------------------------------------------
LEMMA KnownKept ==
  ASSUME MemoryKnown, UNCHANGED <<rows, current, completed, lastTrip>>
  PROVE  MemoryKnown'
<1>1. Ids' = Ids
  BY SameRows
<1>. QED BY <1>1 DEF MemoryKnown, Known

\* While one coroutine at most is suspended, the others have nothing halfway.
LEMMA LoneMemory ==
  ASSUME TypeOK, NEW s \in Slots, Lone(s),
         NEW task, tasks' = [tasks EXCEPT ![s] = task],
         MemoryKnown', Halfway(s)', Settled' => Agrees'
  PROVE  MemoryInvariant'
<1>1. \A r \in Slots \ {s} : tasks'[r] = NoTask
  BY TaskTaken DEF Lone
<1>2. \A r \in Slots \ {s} : Halfway(r)'
  BY <1>1 DEF Halfway, NoTask, Writers, Services
<1>. QED BY <1>2 DEF MemoryInvariant

LEMMA StartsMemory ==
  ASSUME TypeOK, MemoryInvariant, up, NEW task, Starts(task),
         UNCHANGED <<rows, current, completed, lastTrip, up>>,
         task.pc \in {"decide", "amend"},
         task.kind = "late" => /\ task.pc = "amend"
                               /\ task.row = lastTrip.row /\ task.row # 0
  PROVE  MemoryInvariant'
<1>. SUFFICES ASSUME ~disturbed' PROVE MemoryInvariant'
  BY DEF MemoryInvariant
<1>0. ~disturbed /\ Settled
  BY DEF Starts
<1>1. PICK s \in Slots : tasks' = [tasks EXCEPT ![s] = task]
  BY DEF Starts
<1>2. tasks'[s] = task /\ Lone(s)
  BY <1>0, <1>1, TaskTaken DEF Lone, Settled
<1>3. Agrees /\ MemoryKnown
  BY <1>0 DEF MemoryInvariant
<1>4. Agrees' /\ MemoryKnown'
  BY <1>3, KnownKept, SameRows DEF Agrees
<1>5. Halfway(s)'
  BY <1>2, <1>4 DEF Halfway
<1>. QED BY <1>1, <1>2, <1>4, <1>5, LoneMemory

LEMMA BeginMemory ==
  ASSUME TypeOK, MemoryInvariant, Begin
  PROVE  MemoryInvariant'
<1>1. ASSUME NEW kind \in Writers, NEW fromHome, NEW toHome, NEW old,
             StartsWriter(kind, fromHome, toHome, old)
      PROVE  MemoryInvariant'
  <2>. DEFINE task == [NoTask EXCEPT !.kind = kind, !.pc = "decide",
                !.old = old, !.fromHome = fromHome, !.toHome = toHome]
  <2>1. task.pc = "decide" /\ task.kind # "late"
    BY DEF NoTask, Writers
  <2>2. /\ up /\ Starts(task)
        /\ UNCHANGED <<rows, current, completed, lastTrip, up>>
    BY <1>1 DEF StartsWriter
  <2>. HIDE DEF task
  <2>. QED BY <2>1, <2>2, StartsMemory
<1>2. CASE TripOpens \/ TripDiscarded
  <2>1. UNCHANGED <<rows, current, completed, lastTrip, tasks, up, disturbed>>
    BY <1>2 DEF TripOpens, TripDiscarded
  <2>. QED BY <2>1, SameRows, KnownKept
           DEF MemoryInvariant, Agrees, Settled, Halfway, DecidedAt, WrittenAt,
               AmendedAt, Known
<1>3. ASSUME NEW fromHome \in BOOLEAN, NEW toHome \in BOOLEAN,
             TripCloses(fromHome, toHome) \/ SynthStarts(fromHome, toHome)
      PROVE  MemoryInvariant'
  BY <1>1, <1>3 DEF TripCloses, SynthStarts, Writers
<1>4. ASSUME NEW fromHome \in BOOLEAN, NEW toHome \in BOOLEAN,
             NEW old \in BOOLEAN, ManualStarts(fromHome, toHome, old)
      PROVE  MemoryInvariant'
  BY <1>1, <1>4 DEF ManualStarts, Writers
<1>5. ASSUME NEW toHome \in BOOLEAN, OrphanStarts(toHome)
      PROVE  MemoryInvariant'
  BY <1>1, <1>5 DEF OrphanStarts, Writers
<1>6. ASSUME NEW toHome \in BOOLEAN, LateArrival(toHome)
      PROVE  MemoryInvariant'
  <2>. DEFINE task == [NoTask EXCEPT !.kind = "late", !.pc = "amend",
                         !.toHome = toHome, !.row = lastTrip.row]
  <2>1. /\ up /\ Starts(task) /\ lastTrip.row # 0
        /\ UNCHANGED <<rows, current, completed, lastTrip, up>>
    BY <1>6 DEF LateArrival
  <2>2. task.pc = "amend" /\ task.row = lastTrip.row
    BY DEF NoTask
  <2>. HIDE DEF task
  <2>. QED BY <2>1, <2>2, StartsMemory
<1>7. ASSUME NEW kind \in Services, ServiceCalled(kind)
      PROVE  MemoryInvariant'
  <2>. DEFINE task == [NoTask EXCEPT !.kind = kind, !.pc = "amend"]
  <2>1. /\ up /\ Starts(task)
        /\ UNCHANGED <<rows, current, completed, lastTrip, up>>
    BY <1>7 DEF ServiceCalled
  <2>2. task.pc = "amend" /\ task.kind # "late"
    BY DEF NoTask, Services
  <2>. HIDE DEF task
  <2>. QED BY <2>1, <2>2, StartsMemory
<1>. QED BY <1>2, <1>3, <1>4, <1>5, <1>6, <1>7 DEF Begin

\* The row a writer inserts: the newest, and seen by every query.
LEMMA InsertIs ==
  ASSUME TypeOK, BoundInvariant, NEW s \in Slots, Insert(s)
  PROVE  /\ Len(rows) \in Nat /\ Len(rows') = Len(rows) + 1
         /\ Ids' = Ids \cup {Len(rows) + 1}
         /\ \A i \in Ids : i \in Nat /\ i <= Len(rows) /\ rows'[i] = rows[i]
         /\ rows'[Len(rows) + 1].home = tasks[s].toHome
         /\ rows'[Len(rows) + 1].journey = tasks[s].journey
         /\ tasks'[s].row = Len(rows) + 1
         /\ tasks'[s].pc = IF tasks[s].stitched THEN "absorb" ELSE "finish"
         /\ tasks'[s].kind = tasks[s].kind
         /\ tasks'[s].journey = tasks[s].journey
         /\ tasks'[s].toHome = tasks[s].toHome
         /\ tasks'[s].stitched = tasks[s].stitched
         /\ UNCHANGED <<current, completed, lastTrip, up>>
<1>0. tasks[s] \in Task
  BY DEF TypeOK
<1>1. [home |-> tasks[s].toHome, journey |-> tasks[s].journey,
       old |-> tasks[s].old, gone |-> FALSE] \in Row
  BY <1>0 DEF Task, Row
<1>2. /\ Len(rows') = Len(rows) + 1 /\ DOMAIN rows' = 1..Len(rows) + 1
      /\ rows'[Len(rows) + 1] = [home |-> tasks[s].toHome,
            journey |-> tasks[s].journey, old |-> tasks[s].old, gone |-> FALSE]
      /\ \A i \in 1..Len(rows) : rows'[i] = rows[i]
  BY <1>1, AppendIs DEF Insert
<1>3. /\ Len(rows) \in Nat /\ DOMAIN rows = 1..Len(rows)
      /\ Ids \subseteq 1..Len(rows)
  BY RowsType
<1>4. Ids' = Ids \cup {Len(rows) + 1}
  <2>1. ASSUME NEW i
        PROVE  i \in Ids' <=> i \in Ids \/ i = Len(rows) + 1
    <3>1. i \in 1..Len(rows) + 1 <=> i \in 1..Len(rows) \/ i = Len(rows) + 1
      BY <1>3
    <3>2. ~rows'[Len(rows) + 1].gone
      BY <1>2
    <3>. QED BY <1>2, <1>3, <3>1, <3>2 DEF Ids
  <2>. QED BY <2>1
<1>5. /\ tasks'[s].row = Len(rows) + 1
      /\ tasks'[s].pc = IF tasks[s].stitched THEN "absorb" ELSE "finish"
      /\ tasks'[s].kind = tasks[s].kind /\ tasks'[s].journey = tasks[s].journey
      /\ tasks'[s].toHome = tasks[s].toHome
      /\ tasks'[s].stitched = tasks[s].stitched
      /\ UNCHANGED <<current, completed, lastTrip, up>>
  BY <1>0 DEF Insert, TypeOK, Task
<1>. QED BY <1>2, <1>3, <1>4, <1>5

\* What the row does to the journeys of the log.
LEMMA InsertOpens ==
  ASSUME TypeOK, TypeOK', BoundInvariant, BoundInvariant', NEW s \in Slots,
         Insert(s), Agrees, DecidedAt(s), tasks[s].toHome \in BOOLEAN
  PROVE  OpenInLog' = IF tasks[s].toHome THEN 0 ELSE tasks[s].journey
<1>. DEFINE n == Len(rows) + 1
<1>1. /\ n \in Nat /\ Ids' = Ids \cup {n}
      /\ \A i \in Ids : i \in Nat /\ i <= n /\ rows'[i] = rows[i]
      /\ rows'[n].home = tasks[s].toHome /\ rows'[n].journey = tasks[s].journey
  BY InsertIs
<1>2. LogFacts /\ LogFacts'
  BY LogFactsHold, LogFactsNext
<1>. HIDE DEF n
<1>3. CASE tasks[s].toHome
  <2>1. n \in Ids' /\ rows'[n].home /\ \A i \in Ids' : i <= n
    BY <1>1, <1>3
  <2>2. AllHome'
    BY <2>1 DEF AllHome
  <2>. QED BY <1>2, <1>3, <2>2 DEF LogFacts
<1>4. CASE ~tasks[s].toHome /\ tasks[s].journey # 0
  BY <1>1, <1>2, <1>4 DEF LogFacts
<1>5. CASE ~tasks[s].toHome /\ tasks[s].journey = 0
  <2>1. current = 0
    <3>1. NextId # 0
      BY <1>2, RowsType DEF LogFacts
    <3>. QED BY <1>5, <3>1 DEF DecidedAt
  <2>2. AllHome
    BY <1>2, <2>1 DEF Agrees, LogFacts
  <2>3. AllHome'
    <3>1. ASSUME NEW i \in Ids', rows'[i].journey # 0
          PROVE  \E h \in Ids' : rows'[h].home /\ i <= h
      <4>1. i \in Ids /\ rows[i].journey # 0
        BY <1>1, <1>5, <3>1
      <4>2. PICK h \in Ids : rows[h].home /\ i <= h
        BY <2>2, <4>1 DEF AllHome
      <4>. QED BY <1>1, <4>2
    <3>. QED BY <3>1 DEF AllHome
  <2>. QED BY <1>2, <1>5, <2>3 DEF LogFacts
<1>. QED BY <1>3, <1>4, <1>5

LEMMA InsertMemory ==
  ASSUME TypeOK, TypeOK', BoundInvariant, BoundInvariant',
         ShapeInvariant, AloneInvariant, MemoryInvariant, NEW s \in Slots, Insert(s)
  PROVE  MemoryInvariant'
<1>0. /\ UNCHANGED <<current, completed, lastTrip, up>>
      /\ disturbed => disturbed'
      /\ tasks[s].pc = "insert" /\ tasks[s] \in Task /\ TaskFits(tasks[s])
  BY DEF Insert, TypeOK, ShapeInvariant
<1>. SUFFICES ASSUME up, ~disturbed, ~disturbed' PROVE MemoryInvariant'
  BY <1>0 DEF MemoryInvariant
<1>1. Agrees /\ DecidedAt(s) /\ MemoryKnown
  BY <1>0 DEF MemoryInvariant, Halfway
<1>. DEFINE n == Len(rows) + 1
<1>2. /\ n \in Nat /\ Ids' = Ids \cup {n} /\ Len(rows') = n
      /\ \A i \in Ids : rows'[i] = rows[i]
      /\ rows'[n].home = tasks[s].toHome /\ rows'[n].journey = tasks[s].journey
      /\ tasks'[s].row = n
  <2>1. Len(rows) \in Nat
    BY RowsType
  <2>2. Ids' = Ids \cup {n} /\ Len(rows') = n
    BY InsertIs
  <2>3. /\ \A i \in Ids : rows'[i] = rows[i]
        /\ rows'[n].home = tasks[s].toHome /\ rows'[n].journey = tasks[s].journey
    BY InsertIs
  <2>4. tasks'[s].row = n
    BY InsertIs
  <2>. QED BY <2>1, <2>2, <2>3, <2>4
<1>3. /\ tasks'[s].pc = IF tasks[s].stitched THEN "absorb" ELSE "finish"
      /\ tasks'[s].kind = tasks[s].kind /\ tasks'[s].journey = tasks[s].journey
      /\ tasks'[s].toHome = tasks[s].toHome
      /\ tasks'[s].stitched = tasks[s].stitched
  BY InsertIs
<1>. HIDE DEF n
<1>4. OpenInLog' = IF tasks[s].toHome THEN 0 ELSE tasks[s].journey
  BY <1>0, <1>1, InsertOpens DEF Task
<1>5. MemoryKnown'
  BY <1>0, <1>1, <1>2 DEF MemoryKnown, Known
<1>6. tasks[s].journey # 0 => tasks[s].journey # completed
  <2>1. \A i \in Ids : rows[i].journey # NextId
    <3>1. LogFacts
      BY LogFactsHold
    <3>. QED BY <3>1, RowsType DEF LogFacts
  <2>. QED BY <1>1, <2>1 DEF DecidedAt, MemoryKnown, Known
<1>7. WrittenAt(s)'
  <2>1. Known(tasks[s].journey)'
    BY <1>2, <1>3 DEF Known
  <2>. QED BY <1>0, <1>1, <1>2, <1>3, <1>4, <1>6 DEF WrittenAt, DecidedAt, Known
<1>8. Halfway(s)'
  <2>1. tasks'[s].pc \in {"absorb", "finish"} /\ tasks'[s].kind \in Writers
    BY <1>0, <1>3 DEF TaskFits
  <2>. QED BY <1>7, <2>1 DEF Halfway, Writers, Services
<1>9. ~Settled'
  <2>1. tasks'[s] # NoTask
    BY <1>0, <1>3 DEF NoTask, TaskFits, Writers
  <2>. QED BY <2>1 DEF Settled
<1>10. Lone(s) /\ \E task : tasks' = [tasks EXCEPT ![s] = task]
  <2>1. tasks[s].pc = "insert" /\ NoTask.pc = "idle"
    BY DEF Insert, NoTask
  <2>2. ~disturbed
    BY DEF Insert
  <2>3. Lone(s)
    BY <2>1, <2>2 DEF AloneInvariant
  <2>4. \E task : tasks' = [tasks EXCEPT ![s] = task]
    BY DEF Insert
  <2>. QED BY <2>3, <2>4
<1>. QED BY <1>5, <1>8, <1>9, <1>10, LoneMemory

\* The absorbed rows had no journey and are given one the log knows.
LEMMA AbsorbKeeps ==
  ASSUME TypeOK, TypeOK', BoundInvariant, BoundInvariant', NEW s \in Slots,
         Absorb(s), WrittenAt(s), tasks[s].pc = "absorb"
  PROVE  /\ Ids' = Ids /\ Len(rows') = Len(rows)
         /\ \A j : j # 0 => (Known(j)' <=> Known(j))
         /\ OpenInLog = 0 /\ OpenInLog' = 0 /\ Ended' = Ended
<1>0. /\ Len(rows) \in Nat /\ DOMAIN rows = 1..Len(rows)
      /\ Ids \subseteq 1..Len(rows) /\ \A i \in Ids : rows[i] \in Row
  BY RowsType
<1>. DEFINE j == tasks[s].journey
<1>1. /\ DOMAIN rows' = DOMAIN rows
      /\ \A i \in DOMAIN rows :
           \/ rows'[i] = rows[i]
           \/ /\ i \in Ids /\ rows[i].journey = 0
              /\ rows'[i] = [rows[i] EXCEPT !.journey = j]
  BY DEF Absorb
<1>2. Len(rows') = Len(rows)
  BY <1>0, <1>1, LenProperties DEF TypeOK
<1>3. \A i \in 1..Len(rows) : /\ rows'[i].gone = rows[i].gone
                              /\ rows'[i].home = rows[i].home
                              /\ \/ rows'[i].journey = rows[i].journey
                                 \/ rows[i].journey = 0 /\ rows'[i].journey = j
  BY <1>0, <1>1, RowsType DEF Row
<1>4. Ids' = Ids
  BY <1>0, <1>1, <1>3 DEF Ids
<1>5. j # 0 /\ Known(j) /\ rows[Len(rows)].home /\ Len(rows) \in Ids /\ OpenInLog = 0
  BY DEF WrittenAt, Known
<1>. HIDE DEF j
<1>6. \A k : k # 0 => (Known(k)' <=> Known(k))
  <2>. SUFFICES ASSUME NEW k, k # 0
                PROVE  (\E i \in Ids : rows'[i].journey = k)
                         <=> \E i \in Ids : rows[i].journey = k
    BY <1>4 DEF Known
  <2>1. ASSUME NEW i \in Ids, rows'[i].journey = k
        PROVE  \E m \in Ids : rows[m].journey = k
    BY <1>0, <1>3, <1>5, <2>1 DEF Known
  <2>2. ASSUME NEW i \in Ids, rows[i].journey = k
        PROVE  rows'[i].journey = k
    BY <1>0, <1>3, <2>2
  <2>. QED BY <2>1, <2>2
<1>7. OpenInLog' = 0
  <2>1. \A i \in Ids : i <= Len(rows)
    BY <1>0
  <2>2. rows'[Len(rows)].home
    BY <1>0, <1>3, <1>5
  <2>3. AllHome'
    BY <1>4, <1>5, <2>1, <2>2 DEF AllHome
  <2>. QED BY <2>3, LogFactsNext DEF LogFacts
<1>8. Ended' = Ended
  <2>1. Ended = {rows[i].journey : i \in Ids} \ {0}
    BY <1>5 DEF Ended
  <2>2. Ended' = {rows'[i].journey : i \in Ids} \ {0}
    BY <1>4, <1>7 DEF Ended
  <2>3. ASSUME NEW k, k # 0
        PROVE  (\E i \in Ids : rows'[i].journey = k)
                 <=> \E i \in Ids : rows[i].journey = k
    BY <1>4, <1>6, <2>3 DEF Known
  <2>. QED BY <2>1, <2>2, <2>3
<1>. QED BY <1>2, <1>4, <1>5, <1>6, <1>7, <1>8

LEMMA WritersMemory ==
  ASSUME TypeOK, TypeOK', BoundInvariant, BoundInvariant',
         ShapeInvariant, AloneInvariant, MemoryInvariant, NEW s \in Slots,
         \/ Decide(s) \/ Mint(s) \/ Absorb(s) \/ FinishWriter(s) \/ WriterFails(s)
  PROVE  MemoryInvariant'
<1>0. /\ tasks[s] \in Task /\ TaskFits(tasks[s]) /\ up' = up
      /\ tasks[s].pc # "idle" \/ tasks[s].kind \in Writers
      /\ \E task : tasks' = [tasks EXCEPT ![s] = task]
  BY DEF TypeOK, ShapeInvariant, Decide, Mint, Absorb, FinishWriter, WriterFails
<1>. SUFFICES ASSUME up, ~disturbed, ~disturbed' PROVE MemoryInvariant'
  <2>1. disturbed => disturbed'
    BY DEF Decide, Mint, Absorb, FinishWriter, WriterFails
  <2>. QED BY <1>0, <2>1 DEF MemoryInvariant
<1>1. MemoryKnown /\ Halfway(s)
  BY DEF MemoryInvariant
<1>7. ASSUME MemoryKnown', Halfway(s)', Settled' => Agrees'
      PROVE  MemoryInvariant'
  <2>1. Lone(s)
    BY <1>0 DEF AloneInvariant, NoTask, Writers
  <2>. QED BY <1>0, <1>7, <2>1, LoneMemory
<1>2. CASE Decide(s)
  <2>1. /\ tasks[s].pc = "decide" /\ tasks'[s].kind = tasks[s].kind
        /\ tasks'[s].journey = current
        /\ tasks'[s].pc = IF current = 0 /\ Mints(tasks[s]) THEN "mint"
                                                            ELSE "insert"
        /\ tasks'[s].fromHome = tasks[s].fromHome
        /\ tasks'[s].toHome = tasks[s].toHome
        /\ tasks'[s].stitched = tasks[s].stitched
        /\ UNCHANGED <<rows, current, completed, lastTrip>>
    BY <1>0, <1>2 DEF Decide, TypeOK, Task
  <2>2. Agrees /\ ~tasks[s].stitched
    BY <1>0, <1>1, <2>1 DEF Halfway, TaskFits
  <2>3. Agrees' /\ MemoryKnown'
    BY <1>1, <2>1, <2>2, KnownKept, SameRows DEF Agrees
  <2>4. tasks'[s].pc = "mint" => current' = 0 /\ Mints(tasks[s])'
    BY <2>1 DEF Mints
  <2>5. tasks'[s].pc = "insert" => DecidedAt(s)'
    BY <2>1, <2>2 DEF DecidedAt
  <2>6. tasks'[s].kind \in Writers /\ tasks'[s].pc \in {"mint", "insert"}
    BY <1>0, <2>1 DEF TaskFits
  <2>7. Halfway(s)'
    BY <2>3, <2>4, <2>5, <2>6 DEF Halfway, Writers, Services
  <2>. QED BY <1>7, <2>3, <2>7
<1>3. CASE Mint(s)
  <2>1. /\ tasks[s].pc = "mint" /\ tasks'[s].kind = tasks[s].kind
        /\ tasks'[s].journey = NextId /\ tasks'[s].pc = "insert"
        /\ tasks'[s].toHome = tasks[s].toHome
        /\ tasks'[s].stitched = (~tasks[s].fromHome /\ tasks[s].kind # "orphan")
        /\ UNCHANGED <<rows, current, completed, lastTrip>>
    BY <1>0, <1>3 DEF Mint, TypeOK, Task
  <2>2. Agrees /\ current = 0 /\ Mints(tasks[s]) /\ tasks[s].kind \in Writers
    BY <1>0, <1>1, <2>1 DEF Halfway, TaskFits
  <2>3. Agrees' /\ MemoryKnown'
    BY <1>1, <2>1, <2>2, KnownKept, SameRows DEF Agrees
  <2>4. NextId' = NextId /\ NextId # 0
    BY <2>1, SameRows, LogFactsHold, RowsType DEF LogFacts
  <2>5. DecidedAt(s)'
    BY <2>1, <2>2, <2>4 DEF DecidedAt, Mints
  <2>6. Halfway(s)'
    BY <2>1, <2>2, <2>3, <2>5 DEF Halfway, Writers, Services
  <2>. QED BY <1>7, <2>3, <2>6
<1>4. CASE Absorb(s)
  <2>1. /\ tasks[s].pc = "absorb" /\ tasks'[s].kind = tasks[s].kind
        /\ tasks'[s].pc = "finish" /\ tasks'[s].row = tasks[s].row
        /\ tasks'[s].journey = tasks[s].journey
        /\ tasks'[s].toHome = tasks[s].toHome
        /\ UNCHANGED <<current, completed, lastTrip>>
    BY <1>0, <1>4 DEF Absorb, TypeOK, Task
  <2>2. WrittenAt(s) /\ tasks[s].kind \in Writers
    BY <1>0, <1>1, <2>1 DEF Halfway, TaskFits
  <2>3. /\ Ids' = Ids /\ Len(rows') = Len(rows) /\ OpenInLog' = 0
        /\ \A j : j # 0 => (Known(j)' <=> Known(j))
    BY <1>4, <2>1, <2>2, AbsorbKeeps
  <2>4. MemoryKnown'
    BY <1>1, <2>1, <2>3 DEF MemoryKnown, Known
  <2>5. WrittenAt(s)'
    <3>1. PICK j : j = tasks[s].journey
      OBVIOUS
    <3>2. j # 0 => Known(j)'
      BY <2>2, <2>3, <3>1 DEF WrittenAt
    <3>3. tasks'[s].journey # 0 =>
            \E i \in Ids' : rows'[i].journey = tasks'[s].journey
      BY <2>1, <3>1, <3>2 DEF Known
    <3>. QED BY <2>1, <2>2, <2>3, <3>3 DEF WrittenAt, Known
  <2>6. Halfway(s)' /\ ~Settled'
    BY <2>1, <2>2, <2>5 DEF Halfway, Settled, NoTask, Writers, Services
  <2>. QED BY <1>7, <2>4, <2>6
<1>5. CASE FinishWriter(s)
  <2>1. /\ tasks[s].pc = "finish" /\ tasks[s].kind \in Writers
        /\ FollowsRow(tasks[s]) /\ tasks'[s] = NoTask /\ rows' = rows
        /\ lastTrip' = [row |-> tasks[s].row, home |-> tasks[s].toHome]
    <3>1. ~tasks[s].old
      BY <1>5 DEF AloneInvariant, FinishWriter
    <3>. QED BY <1>0, <1>5, <3>1, TaskTaken DEF FinishWriter, Adopts, TaskFits
  <2>2. WrittenAt(s)
    BY <1>1, <2>1 DEF Halfway
  <2>3. /\ Ids' = Ids /\ OpenInLog' = OpenInLog
        /\ \A j : Known(j)' <=> Known(j)
    BY <2>1, SameRows
  <2>4. lastTrip'.row = Len(rows) /\ \A i \in Ids : i <= Len(rows)
    BY <2>1, <2>2, RowsType DEF WrittenAt
  <2>5. Agrees'
    <3>1. current' = OpenInLog
      BY <2>1, <2>2 DEF FollowsRow, WrittenAt
    <3>. QED BY <2>3, <2>4, <3>1 DEF Agrees
  <2>6. MemoryKnown'
    <3>1. lastTrip'.row \in Ids'
      BY <2>2, <2>3, <2>4 DEF WrittenAt
    <3>2. CASE tasks[s].toHome /\ tasks[s].journey # 0
      <4>1. completed' = tasks[s].journey /\ current' = 0
        BY <2>1, <3>2 DEF FollowsRow
      <4>. QED BY <2>2, <2>3, <3>1, <3>2, <4>1 DEF MemoryKnown, WrittenAt, Known
    <3>3. CASE ~(tasks[s].toHome /\ tasks[s].journey # 0)
      <4>1. completed' = completed /\ current' = tasks[s].journey
        BY <2>1, <3>3 DEF FollowsRow
      <4>. QED BY <1>1, <2>2, <2>3, <3>1, <4>1 DEF MemoryKnown, WrittenAt, Known
    <3>. QED BY <3>2, <3>3
  <2>7. Halfway(s)'
    BY <2>1, <2>5 DEF Halfway, NoTask, Writers, Services
  <2>. QED BY <1>7, <2>5, <2>6, <2>7
<1>6. CASE WriterFails(s)
  <2>1. /\ tasks[s].pc \notin {"absorb", "finish"} /\ tasks[s].kind \in Writers
        /\ tasks'[s] = NoTask
        /\ UNCHANGED <<rows, current, completed, lastTrip>>
    BY <1>6, TaskTaken DEF WriterFails
  <2>0. tasks[s].pc # "idle"
    BY <1>0, <2>1 DEF TaskFits, NoTask, Writers
  <2>2. Agrees
    BY <1>0, <1>1, <2>0, <2>1 DEF Halfway, Task
  <2>3. Agrees' /\ MemoryKnown'
    BY <1>1, <2>1, <2>2, KnownKept, SameRows DEF Agrees
  <2>4. Halfway(s)'
    BY <2>1, <2>3 DEF Halfway, NoTask, Writers, Services
  <2>. QED BY <1>7, <2>3, <2>4
<1>. QED BY <1>2, <1>3, <1>4, <1>5, <1>6

LEMMA DerivedMemory ==
  ASSUME TypeOK, TypeOK', BoundInvariant, rows' = rows, DerivesJourney,
         ~disturbed'
  PROVE  Agrees' /\ MemoryKnown'
<1>1. /\ Ids' = Ids /\ OpenInLog' = OpenInLog
      /\ Len(rows) \in Nat /\ Ids \subseteq 0..Len(rows)
      /\ Ids \subseteq DOMAIN rows /\ 0 \notin Ids
  BY SameRows, RowsType
<1>2. NewestOf(Ids) = Latest(Ids)
  <2>1. {i \in Ids : ~rows[i].old} = Ids
    BY DEF DerivesJourney
  <2>. QED BY <2>1 DEF NewestOf
<1>3. LastInLog.row = Latest(Ids)
  BY <1>2 DEF LastInLog
<1>4. Agrees'
  <2>1. \A i \in Ids : i <= Latest(Ids)
    BY <1>1, LatestIs
  <2>. QED BY <1>1, <1>3, <2>1 DEF Agrees, DerivesJourney
<1>5. lastTrip'.row = 0 \/ lastTrip'.row \in Ids'
  BY <1>1, <1>3, LatestIs DEF DerivesJourney, Latest
<1>6. current' # 0 => Known(current')
  BY LogFactsHold DEF LogFacts, DerivesJourney
<1>7. completed' # 0 => Known(completed') /\ completed' # current'
  <2>. DEFINE S == {i \in Ids : rows[i].journey \notin {0, OpenInLog}}
  <2>1. NewestOf(S) = 0 \/ NewestOf(S) \in S
    BY <1>1, NewestType
  <2>2. completed' = JourneyOf(NewestOf(S)) /\ current' = OpenInLog
    BY DEF DerivesJourney, CompletedInLog
  <2>. QED BY <2>1, <2>2 DEF JourneyOf, Known
<1>. QED BY <1>1, <1>4, <1>5, <1>6, <1>7 DEF MemoryKnown, Known

LEMMA OthersMemory ==
  ASSUME TypeOK, TypeOK', BoundInvariant, BoundInvariant',
         ShapeInvariant, AloneInvariant, AloneInvariant', MemoryInvariant, NEW s \in Slots,
         \/ AmendLate(s) \/ FinishLate(s)
         \/ Sets(s) \/ Deletes(s) \/ Purges(s) \/ Recovers(s) \/ FinishService(s)
  PROVE  MemoryInvariant'
<1>0. /\ tasks[s] \in Task /\ TaskFits(tasks[s]) /\ up' = up
      /\ tasks[s].pc # "idle"
      /\ \E task : tasks' = [tasks EXCEPT ![s] = task]
  BY DEF TypeOK, ShapeInvariant, AmendLate, FinishLate, Sets, Deletes, Purges,
         Recovers, Rewrites, FinishService
<1>. SUFFICES ASSUME up, ~disturbed' PROVE MemoryInvariant'
  BY <1>0 DEF MemoryInvariant
<1>5. ASSUME Lone(s), MemoryKnown', Halfway(s)', Settled' => Agrees'
      PROVE  MemoryInvariant'
  BY <1>0, <1>5, LoneMemory
<1>6. ~disturbed => Lone(s)
  BY <1>0 DEF AloneInvariant, NoTask
<1>1. CASE Sets(s) \/ Deletes(s) \/ Purges(s) \/ Recovers(s)
  BY <1>1 DEF Sets, Deletes, Purges, Recovers, Rewrites
<1>2. CASE AmendLate(s)
  <2>1. /\ ~disturbed /\ tasks[s].toHome /\ tasks[s].kind = "late"
        /\ tasks[s].pc = "amend"
    BY <1>2 DEF AmendLate
  <2>2. /\ MemoryKnown /\ Agrees
        /\ tasks[s].row = lastTrip.row /\ lastTrip.row \in Ids
    BY <2>1 DEF MemoryInvariant, Halfway, MemoryKnown
  <2>3. /\ tasks'[s].kind = "late" /\ tasks'[s].pc = "finish"
        /\ tasks'[s].row = tasks[s].row /\ tasks'[s].toHome = tasks[s].toHome
        /\ UNCHANGED <<current, completed, lastTrip>>
    BY <1>0, <1>2, <2>1 DEF AmendLate, TypeOK, Task
  <2>4. /\ Ids' = Ids /\ rows'[lastTrip.row].home
        /\ \A i \in Ids : rows'[i].journey = rows[i].journey
    <3>1. \A i \in DOMAIN rows : rows[i] \in Row
      BY RowsType
    <3>2. rows' = [rows EXCEPT ![lastTrip.row].home = tasks[s].toHome]
      BY <1>2, <2>2 DEF AmendLate
    <3>3. /\ DOMAIN rows' = DOMAIN rows
          /\ \A i \in DOMAIN rows : /\ rows'[i].gone = rows[i].gone
                                    /\ rows'[i].journey = rows[i].journey
      BY <3>1, <3>2 DEF Row
    <3>4. rows'[lastTrip.row].home
      BY <2>1, <2>2, <3>1, <3>2 DEF Row, Ids
    <3>. QED BY <3>3, <3>4 DEF Ids
  <2>5. OpenInLog' = 0
    <3>1. AllHome'
      BY <2>2, <2>4 DEF AllHome, Agrees
    <3>. QED BY <3>1, LogFactsNext DEF LogFacts
  <2>6. MemoryKnown'
    BY <2>2, <2>3, <2>4 DEF MemoryKnown, Known
  <2>7. AmendedAt(s)'
    BY <2>1, <2>2, <2>3, <2>4, <2>5 DEF AmendedAt, Agrees
  <2>8. Halfway(s)' /\ ~Settled'
    <3>1. lastTrip.row # 0
      BY <2>2, RowsType
    <3>. QED BY <2>2, <2>3, <2>7, <3>1 DEF Halfway, Settled, NoTask, Writers, Services
  <2>. QED BY <1>5, <1>6, <2>1, <2>6, <2>8
<1>3. CASE FinishLate(s)
  <2>1. /\ ~disturbed /\ tasks[s].kind = "late" /\ tasks[s].pc = "finish"
        /\ tasks'[s] = NoTask /\ rows' = rows /\ lastTrip'.row = lastTrip.row
    BY <1>3, TaskTaken DEF FinishLate, TypeOK
  <2>2. MemoryKnown /\ AmendedAt(s)
    BY <2>1 DEF MemoryInvariant, Halfway
  <2>3. Ids' = Ids /\ OpenInLog' = OpenInLog
    BY <2>1, SameRows
  <2>4. /\ current' = 0
        /\ completed' = IF current # 0 THEN current ELSE completed
    BY <1>3, <2>2 DEF FinishLate, AmendedAt
  <2>5. Agrees'
    BY <2>1, <2>2, <2>3, <2>4 DEF Agrees, AmendedAt
  <2>6. MemoryKnown'
    BY <2>1, <2>2, <2>3, <2>4 DEF MemoryKnown, Known
  <2>7. Halfway(s)'
    BY <2>1, <2>5 DEF Halfway, NoTask, Writers, Services
  <2>. QED BY <1>5, <1>6, <2>1, <2>5, <2>6, <2>7
<1>4. CASE FinishService(s)
  <2>1. rows' = rows /\ tasks'[s] = NoTask /\ tasks[s].pc = "finish"
    BY <1>4, TaskTaken DEF FinishService
  <2>2. DerivesJourney
    <3>1. tasks[s].kind \in Services
      BY <1>4 DEF FinishService, Services
    <3>2. disturbed
      BY <2>1, <3>1 DEF MemoryInvariant, Halfway
    <3>. QED BY <1>4, <3>2 DEF FinishService, DropsGhost, RefreshesLast
  <2>3. Agrees' /\ MemoryKnown'
    BY <2>1, <2>2, DerivedMemory
  <2>4. Halfway(s)'
    BY <2>1, <2>3 DEF Halfway, NoTask, Writers, Services
  <2>5. Lone(s)
    <3>1. ~Crowded
      BY <1>0, <2>2 DEF DerivesJourney
    <3>2. tasks[s] # NoTask
      BY <2>1 DEF NoTask
    <3>. QED BY <3>1, <3>2 DEF Crowded, Lone
  <2>. QED BY <1>5, <2>3, <2>4, <2>5
<1>. QED BY <1>1, <1>2, <1>3, <1>4

LEMMA MemoryStep ==
  ASSUME TypeOK, BoundInvariant, ShapeInvariant, AloneInvariant,
         MemoryInvariant, [Next]_vars
  PROVE  MemoryInvariant'
<1>0. TypeOK' /\ BoundInvariant' /\ AloneInvariant'
  BY TypeStep, BoundStep, AloneStep
<1>1. CASE Resume
  BY <1>0, <1>1, InsertMemory, WritersMemory, OthersMemory DEF Resume
<1>2. CASE Crash
  BY <1>2 DEF Crash, MemoryInvariant
<1>3. CASE Start
  <2>. SUFFICES ASSUME ~disturbed' PROVE MemoryInvariant'
    BY DEF MemoryInvariant
  <2>1. /\ rows' = rows /\ tasks' = tasks /\ DerivesJourney
        /\ \A s \in Slots : tasks[s] = NoTask
    BY <1>3 DEF Start, ShapeInvariant
  <2>2. Agrees' /\ MemoryKnown'
    BY <1>0, <2>1, DerivedMemory
  <2>3. \A s \in Slots : Halfway(s)'
    BY <2>1, <2>2 DEF Halfway, NoTask, Writers, Services
  <2>. QED BY <2>2, <2>3 DEF MemoryInvariant
<1>4. CASE UNCHANGED vars
  <2>1. UNCHANGED <<rows, current, completed, lastTrip, tasks, up, disturbed>>
    BY <1>4 DEF vars
  <2>. QED BY <2>1, SameRows, KnownKept
           DEF MemoryInvariant, Agrees, Settled, Halfway, DecidedAt, WrittenAt,
               AmendedAt, Known
<1>. QED BY <1>1, <1>2, <1>3, <1>4, BeginMemory DEF Next

JourneyInvariant ==
  TypeOK /\ BoundInvariant /\ ShapeInvariant /\ AloneInvariant /\ MemoryInvariant

LEMMA JourneyInductive == Spec => []JourneyInvariant
<1>1. Init => JourneyInvariant
  <2>. SUFFICES ASSUME Init PROVE JourneyInvariant
    OBVIOUS
  <2>1. TypeOK /\ BoundInvariant
    BY InitTyped
  <2>2. Ids = {} /\ DOMAIN rows = {}
    BY LenProperties, EmptySeq DEF Init, Ids
  <2>3. ShapeInvariant
    BY <2>2, NoTaskFits DEF Init, ShapeInvariant
  <2>4. AllHome
    BY <2>2 DEF AllHome
  <2>5. Agrees
    BY <2>1, <2>2, <2>4, LogFactsHold DEF Init, LogFacts, Agrees
  <2>6. MemoryKnown
    BY DEF Init, MemoryKnown, NoTrip
  <2>7. \A s \in Slots : Halfway(s)
    BY <2>5 DEF Init, Halfway, NoTask, Writers, Services
  <2>8. AloneInvariant
    BY <2>2 DEF Init, AloneInvariant, InOrder, NoTask
  <2>. QED BY <2>1, <2>3, <2>5, <2>6, <2>7, <2>8 DEF JourneyInvariant, MemoryInvariant
<1>2. JourneyInvariant /\ [Next]_vars => JourneyInvariant'
  BY TypeStep, BoundStep, ShapeStep, AloneStep, MemoryStep DEF JourneyInvariant
<1>. QED BY <1>1, <1>2, PTL DEF Spec

\* After a restart the log gives back the journey the coordinator had open, and
\* gives back none when none was open, however often the log was rewritten and
\* the journey derived again before (AloneInvariant: undisturbed, one coroutine
\* at a time writes rows in order).
THEOREM RestartFindsJourney == Spec => []ResumeFindsJourney
<1>1. JourneyInvariant => ResumeFindsJourney
  BY DEF JourneyInvariant, MemoryInvariant, ResumeFindsJourney, Agrees
<1>. QED BY <1>1, JourneyInductive, PTL

\* The journey the sensors call completed is never the one under way, while
\* memory and log are undisturbed.
THEOREM CompletedJourneyIsOver == Spec => []CompletedIsOver
<1>1. JourneyInvariant => CompletedIsOver
  BY DEF JourneyInvariant, MemoryInvariant, CompletedIsOver, MemoryKnown
<1>. QED BY <1>1, JourneyInductive, PTL

\* A step that leaves the rows leaves the contract's state; what changes them is
\* an insert, an absorption, a late arrival, or declared by disturbed.
LEMMA InsertContract ==
  ASSUME TypeOK, TypeOK', BoundInvariant, BoundInvariant', NEW s \in Slots,
         Insert(s), Agrees, MemoryKnown, DecidedAt(s)
  PROVE  Contract!Next \/ UNCHANGED <<OpenInLog, Ended>>
<1>. DEFINE n == Len(rows) + 1
            j == tasks[s].journey
<1>1. /\ Ids' = Ids \cup {n}
      /\ \A i \in Ids : rows'[i] = rows[i]
      /\ rows'[n].journey = j
  BY InsertIs
<1>2. tasks[s].toHome \in BOOLEAN /\ j \in 0..MaxRows
  BY DEF TypeOK, Task
<1>3. OpenInLog' = IF tasks[s].toHome THEN 0 ELSE j
  BY <1>2, InsertOpens
<1>4. {rows'[i].journey : i \in Ids'} = {rows[i].journey : i \in Ids} \cup {j}
  <2>1. {rows'[i].journey : i \in Ids'} = {rows'[i].journey : i \in Ids} \cup {j}
    BY <1>1
  <2>2. {rows'[i].journey : i \in Ids} = {rows[i].journey : i \in Ids}
    BY <1>1
  <2>. QED BY <2>1, <2>2
<1>5. OpenInLog = current /\ (current # 0 => Known(current))
  BY DEF Agrees, MemoryKnown
<1>6. NextId # 0 /\ ~Known(NextId)
  BY LogFactsHold, RowsType DEF LogFacts, Known
<1>. DEFINE Used == {rows[i].journey : i \in Ids}
<1>7. Ended = Used \ {0, current} /\ Ended' = (Used \cup {j}) \ {0, OpenInLog'}
  BY <1>4, <1>5 DEF Ended
<1>8. (current # 0 => current \in Used) /\ NextId \notin Used
  BY <1>5, <1>6 DEF Known
<1>. HIDE DEF n, j, Used
<1>9. j = current \/ (current = 0 /\ j = NextId)
  BY DEF DecidedAt, j
<1>10. CASE j = current /\ j # 0 /\ tasks[s].toHome
  <2>1. Ended' = Ended \cup {OpenInLog}
    BY <1>3, <1>5, <1>7, <1>8, <1>10
  <2>. QED BY <1>3, <1>5, <1>10, <2>1
           DEF Contract!Next, Contract!Arrives, Contract!None
<1>11. CASE j = current /\ ~(j # 0 /\ tasks[s].toHome)
  <2>1. OpenInLog' = OpenInLog
    BY <1>3, <1>5, <1>11
  <2>2. Ended' = Ended
    BY <1>5, <1>7, <1>8, <1>11, <2>1
  <2>. QED BY <2>1, <2>2
<1>12. CASE current = 0 /\ j = NextId
  <2>1. j \in 1..MaxRows /\ j \notin Ended /\ OpenInLog = 0
    BY <1>2, <1>5, <1>6, <1>7, <1>8, <1>12
  <2>2. CASE tasks[s].toHome
    <3>1. OpenInLog' = OpenInLog /\ Ended' = Ended \cup {j}
      BY <1>3, <1>6, <1>7, <1>12, <2>1, <2>2
    <3>. QED BY <2>1, <3>1 DEF Contract!Next, Contract!RoundTrip, Contract!None
  <2>3. CASE ~tasks[s].toHome
    <3>1. OpenInLog' = j /\ Ended' = Ended
      BY <1>3, <1>7, <1>8, <1>12, <2>3
    <3>. QED BY <2>1, <3>1 DEF Contract!Next, Contract!Departs, Contract!None
  <2>. QED BY <2>2, <2>3
<1>. QED BY <1>9, <1>10, <1>11, <1>12

LEMMA LateContract ==
  ASSUME TypeOK, TypeOK', BoundInvariant, BoundInvariant', NEW s \in Slots,
         AmendLate(s), tasks[s].toHome, Agrees, MemoryKnown,
         tasks[s].row = lastTrip.row, lastTrip.row # 0
  PROVE  Contract!Next \/ UNCHANGED <<OpenInLog, Ended>>
<1>1. lastTrip.row \in Ids /\ \A i \in Ids : i <= lastTrip.row
  BY DEF MemoryKnown, Agrees
<1>2. /\ Ids' = Ids /\ rows'[lastTrip.row].home
      /\ \A i \in Ids : rows'[i].journey = rows[i].journey
  <2>1. \A i \in DOMAIN rows : rows[i] \in Row
    BY RowsType
  <2>2. rows' = [rows EXCEPT ![lastTrip.row].home = tasks[s].toHome]
    BY DEF AmendLate
  <2>3. /\ DOMAIN rows' = DOMAIN rows
        /\ \A i \in DOMAIN rows : /\ rows'[i].gone = rows[i].gone
                                  /\ rows'[i].journey = rows[i].journey
    BY <2>1, <2>2 DEF Row
  <2>4. rows'[lastTrip.row].home
    BY <1>1, <2>1, <2>2 DEF Row, Ids
  <2>. QED BY <2>3, <2>4 DEF Ids
<1>3. OpenInLog' = 0
  <2>1. AllHome'
    BY <1>1, <1>2 DEF AllHome
  <2>. QED BY <2>1, LogFactsNext DEF LogFacts
<1>. DEFINE Used == {rows[i].journey : i \in Ids}
<1>4. Ended = Used \ {0, OpenInLog} /\ Ended' = Used \ {0}
  BY <1>2, <1>3 DEF Ended
<1>5. OpenInLog # 0 => OpenInLog \in Used
  BY LogFactsHold DEF LogFacts, Known
<1>. HIDE DEF Used
<1>6. CASE OpenInLog = 0
  BY <1>3, <1>4, <1>6
<1>7. CASE OpenInLog # 0
  <2>1. Ended' = Ended \cup {OpenInLog}
    BY <1>4, <1>5, <1>7
  <2>. QED BY <1>3, <1>7, <2>1 DEF Contract!Next, Contract!Arrives, Contract!None
<1>. QED BY <1>6, <1>7

LEMMA ContractStep ==
  ASSUME JourneyInvariant, JourneyInvariant', [Next]_vars
  PROVE  disturbed' \/ Contract!Next \/ UNCHANGED <<OpenInLog, Ended>>
<1>0. TypeOK /\ TypeOK' /\ BoundInvariant /\ BoundInvariant'
      /\ ShapeInvariant /\ MemoryInvariant
  BY DEF JourneyInvariant
<1>1. CASE rows' = rows
  BY <1>1, SameRows
<1>2. CASE rows' # rows
  <2>. SUFFICES ASSUME ~disturbed'
                PROVE  Contract!Next \/ UNCHANGED <<OpenInLog, Ended>>
    OBVIOUS
  <2>1. PICK s \in Slots : \/ Insert(s) \/ Absorb(s) \/ AmendLate(s) \/ Sets(s)
                           \/ Deletes(s) \/ Purges(s) \/ Recovers(s)
    <3>1. Resume
      BY <1>2 DEF Next, Begin, TripOpens, TripDiscarded, TripCloses, SynthStarts,
                  ManualStarts, OrphanStarts, LateArrival, ServiceCalled,
                  StartsWriter, Crash, Start, vars
    <3>. QED BY <1>2, <3>1 DEF Resume, Decide, Mint, FinishWriter, WriterFails,
                               FinishLate, FinishService
  <2>2. tasks[s] # NoTask /\ ~disturbed
    <3>1. tasks[s].pc # "idle"
      BY <2>1 DEF Insert, Absorb, AmendLate, Sets, Deletes, Purges, Recovers,
                  Rewrites
    <3>2. disturbed => disturbed'
      BY <2>1, Zenon DEF Insert, Absorb, AmendLate, Sets, Deletes, Purges,
                         Recovers, Rewrites
    <3>. QED BY <3>1, <3>2 DEF NoTask
  <2>3. MemoryKnown /\ Halfway(s)
    BY <1>0, <2>2 DEF ShapeInvariant, MemoryInvariant
  <2>4. CASE Insert(s)
    <3>1. Agrees /\ DecidedAt(s)
      BY <2>3, <2>4 DEF Insert, Halfway
    <3>. QED BY <1>0, <2>3, <2>4, <3>1, InsertContract
  <2>5. CASE Absorb(s)
    <3>1. tasks[s].pc = "absorb"
      BY <2>5 DEF Absorb
    <3>2. tasks[s].kind \in Writers
      BY <1>0, <3>1 DEF ShapeInvariant, TaskFits
    <3>3. WrittenAt(s)
      BY <2>3, <3>1, <3>2 DEF Halfway
    <3>. QED BY <1>0, <2>5, <3>1, <3>3, AbsorbKeeps
  <2>6. CASE AmendLate(s)
    <3>1. /\ tasks[s].toHome /\ Agrees
          /\ tasks[s].row = lastTrip.row /\ lastTrip.row # 0
      BY <2>3, <2>6 DEF AmendLate, Halfway
    <3>. QED BY <1>0, <2>3, <2>6, <3>1, LateContract
  <2>7. CASE Sets(s) \/ Deletes(s) \/ Purges(s) \/ Recovers(s)
    BY <2>7 DEF Sets, Deletes, Purges, Recovers, Rewrites
  <2>. QED BY <2>1, <2>4, <2>5, <2>6, <2>7
<1>. QED BY <1>1, <1>2

\* The log keeps the contract of journeys, through crashes between any two
\* database calls of a coroutine: a departure opens one, an arrival home ends it,
\* and none that ended goes on, in every step that leaves it undisturbed.
THEOREM JourneysFulfilContract == Spec => FulfilsContract
<1>1. JourneyInvariant /\ JourneyInvariant' /\ [Next]_vars =>
        [disturbed' \/ Contract!Next]_<<OpenInLog, Ended>>
  BY ContractStep
<1>. QED BY <1>1, JourneyInductive, PTL DEF Spec, FulfilsContract
=============================================================================
