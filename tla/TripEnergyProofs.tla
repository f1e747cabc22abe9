--------------------------- MODULE TripEnergyProofs ---------------------------
(***************************************************************************)
(* The energy of a trip row: that what a charge delivered is credited once *)
(* at most, that a row which claims a charge has one, that a figure of the *)
(* car is about its own row, and that heal_history repeats the close, for  *)
(* every value of the constants.                                           *)
(***************************************************************************)
EXTENDS TripEnergy, FiniteSums

USE DEF Ids, Instants, Socs, Null

LEMMA BoundedMax ==
  ASSUME NEW S, S \subseteq Int, S # {}, NEW n \in Int, \A x \in S : x <= n
  PROVE  Max(S) \in S /\ \A x \in S : x <= Max(S)
<1>. DEFINE T == {n - x : x \in S}
<1>1. T \subseteq Nat /\ T # {}
  <2>1. \A x \in S : n - x \in Nat
    OBVIOUS
  <2>2. T # {}
    OBVIOUS
  <2>. QED BY <2>1, <2>2
<1>2. PICK t \in T : \A u \in T : t <= u
  <2>. HIDE DEF T
  <2>. QED BY <1>1, LeastNat
<1>3. PICK m \in S : t = n - m
  OBVIOUS
<1>4. \A x \in S : m >= x
  <2>. TAKE x \in S
  <2>1. n - x \in T
    OBVIOUS
  <2>2. n - m <= n - x
    BY <1>2, <1>3, <2>1
  <2>3. n \in Int /\ x \in Int /\ m \in Int
    OBVIOUS
  <2>. HIDE DEF T
  <2>. QED BY <2>2, <2>3
<1>. HIDE DEF T
<1>5. \A y \in S : Max(S) \in S /\ Max(S) >= y
  BY <1>4 DEF Max
<1>. QED BY <1>5

-----------------------------------------------------------------------------
(* What a charge credits a row with.                                       *)

LEMMA ShareBound ==
  ASSUME NEW k \in Nat, NEW a \in Nat, NEW b \in Nat, a <= b, 0 < b
  PROVE  (k * a) \div b \in 0..k
<1>1. k * a \in Nat /\ k * b \in Nat /\ k * a <= k * b
  <2>1. PICK d \in Nat : b = a + d
    <3>1. b - a \in Nat /\ b = a + (b - a)
      OBVIOUS
    <3>. QED BY <3>1
  <2>2. k * b = k * a + k * d
    BY <2>1
  <2>3. k * d \in Nat /\ k * a \in Nat
    BY <2>1
  <2>. QED BY <2>2, <2>3
<1>2. PICK x \in Nat : x = k * a
  BY <1>1
<1>3. \A z \in Nat : z \div b \in Int /\ z \div b >= 0 /\ b * (z \div b) <= z
  OBVIOUS
<1>4. PICK q \in Int : q = x \div b /\ q >= 0 /\ b * q <= x
  BY <1>3
<1>5. ASSUME q > k PROVE FALSE
  <2>1. PICK p \in Nat : q = k + 1 + p
    <3>1. q - k - 1 \in Nat /\ q = k + 1 + (q - k - 1)
      BY <1>5
    <3>. QED BY <3>1
  <2>2. b * (k + 1 + p) = b * k + b + b * p
    BY <2>1
  <2>3. PICK y \in Nat, z \in Nat : y = b * k /\ z = b * p /\ y = k * b
    BY <2>1
  <2>4. b * q = y + b + z
    BY <2>1, <2>2, <2>3
  <2>5. x <= y
    BY <1>1, <1>2, <2>3
  <2>6. y + b + z <= x
    BY <1>4, <2>4
  <2>. QED BY <2>5, <2>6, <2>3
<1>. QED BY <1>2, <1>4, <1>5

LEMMA CreditedBounds ==
  ASSUME NEW c \in Charge, NEW r \in Row
  PROVE  /\ Credited(c, r) \in 0..c.kwh
         /\ HealCredited(c, r) = Credited(c, r)
<1>1. /\ c.kwh \in Nat /\ c.end \in Int /\ c.start \in Int /\ Start(c) \in Int
      /\ c.socStart \in Socs /\ c.socEnd \in Socs
      /\ r.start \in Int /\ r.end \in Int /\ r.socStart \in Socs
  BY ConstantsAssumption DEF Charge, Row, Start
<1>2. Socs \subseteq Int
  BY ConstantsAssumption
<1>3. Tolerance \in Nat
  BY ConstantsAssumption
<1>4. Apportioned(c, r.socStart) \in 0..c.kwh
  <2>1. CASE /\ c.socStart < c.socEnd
             /\ r.socStart > c.socStart /\ r.socStart < c.socEnd
    <3>1. (c.kwh * (c.socEnd - r.socStart)) \div (c.socEnd - c.socStart) \in 0..c.kwh
      <4>1. /\ c.socEnd - r.socStart \in Nat /\ c.socEnd - c.socStart \in Nat
            /\ c.socEnd - r.socStart <= c.socEnd - c.socStart
            /\ 0 < c.socEnd - c.socStart
        BY <1>1, <1>2, <2>1
      <4>. QED BY <1>1, <4>1, ShareBound
    <3>2. 0 \in 0..c.kwh
      BY <1>1
    <3>. QED BY <1>1, <1>2, <2>1, <3>1, <3>2 DEF Apportioned
  <2>2. CASE ~(/\ c.socStart < c.socEnd
               /\ r.socStart > c.socStart /\ r.socStart < c.socEnd)
    BY <1>1, <1>2, <2>2 DEF Apportioned
  <2>. QED BY <2>1, <2>2
<1>5. HealCredited(c, r) = Credited(c, r)
  BY <1>1, <1>3 DEF HealCredited, Credited
<1>6. 0 \in 0..c.kwh /\ c.kwh \in 0..c.kwh
  BY <1>1
<1>7. Credited(c, r) \in 0..c.kwh
  BY <1>4, <1>6, Zenon DEF Credited
<1>. QED BY <1>5, <1>7

LEMMA CreditedInside ==
  ASSUME NEW c, NEW r, Credited(c, r) # 0
  PROVE  r.start <= c.end /\ c.end <= r.end
<1>1. ~(r.start <= c.end /\ c.end <= r.end) => Credited(c, r) = 0
  BY Zenon DEF Credited
<1>. QED BY <1>1

(* Of the charges in C, what is credited to a row, and what came before it. *)
CreditAmong(C, r) == SumFunction([c \in C |-> Credited(c, r)])
Between(C, prevEnd, r) ==
  {d \in C : prevEnd <= d.end /\ d.end <= r.start + Tolerance}
BeforeAmong(C, prevEnd, r) ==
  IF prevEnd = Null \/ prevEnd >= r.start THEN 0
  ELSE SumFunction([c \in Between(C, prevEnd, r) |-> c.kwh])

LEMMA CreditNat ==
  ASSUME NEW C, C \subseteq Charges, IsFiniteSet(C), NEW r \in Row
  PROVE  CreditAmong(C, r) \in Nat
<1>. DEFINE w == [c \in C |-> Credited(c, r)]
<1>1. \A c \in C : c \in Charge /\ c.kwh \in Nat
  BY ConstantsAssumption DEF Charge
<1>2. \A c \in C : w[c] \in Nat
  BY <1>1, CreditedBounds
<1>3. SumFunction(w) = SumFunctionOnSet(w, C)
  BY DEF SumFunction
<1>4. CreditAmong(C, r) = SumFunction(w)
  BY DEF CreditAmong
<1>. HIDE DEF w
<1>. QED BY <1>2, <1>3, <1>4, SumNat

LEMMA BeforeNat ==
  ASSUME NEW C, C \subseteq Charges, IsFiniteSet(C), NEW p, NEW r
  PROVE  BeforeAmong(C, p, r) \in Nat
<1>. DEFINE B == Between(C, p, r)
            w == [c \in B |-> c.kwh]
<1>1. \A c \in C : c.kwh \in Nat
  BY ConstantsAssumption DEF Charge
<1>2. B \in SUBSET C
  BY DEF Between
<1>. HIDE DEF B
<1>3. IsFiniteSet(B)
  BY <1>2, FS_Subset
<1>4. \A c \in B : w[c] \in Nat
  BY <1>1, <1>2
<1>5. SumFunction(w) = SumFunctionOnSet(w, B)
  BY DEF SumFunction
<1>6. SumFunctionOnSet(w, B) \in Nat
  <2>. HIDE DEF w
  <2>. QED BY <1>3, <1>4, SumNat
<1>. QED BY <1>5, <1>6 DEF BeforeAmong, B

\* A charge that credits a row with nothing may come and go.
LEMMA CreditKept ==
  ASSUME NEW C, C \subseteq Charges, IsFiniteSet(C), NEW r \in Row,
         NEW c \in Charges, c \notin C, Credited(c, r) = 0
  PROVE  CreditAmong(C \cup {c}, r) = CreditAmong(C, r)
<1>. DEFINE D == C \cup {c}
            w == [x \in D |-> Credited(x, r)]
            v == [x \in C |-> Credited(x, r)]
<1>1. \A x \in D : w[x] \in Int
  <2>1. \A x \in D : x \in Charge /\ x.kwh \in Nat
    BY ConstantsAssumption DEF Charge
  <2>. QED BY <2>1, CreditedBounds
<1>2. \A x \in C : v[x] = w[x]
  OBVIOUS
<1>3. SumFunction(w) = SumFunctionOnSet(w, D) /\ SumFunction(v) = SumFunctionOnSet(v, C)
  BY DEF SumFunction
<1>4. CreditAmong(D, r) = SumFunction(w) /\ CreditAmong(C, r) = SumFunction(v)
  BY DEF CreditAmong
<1>5. w[c] = 0 /\ c \in D /\ D \ {c} = C
  OBVIOUS
<1>6. IsFiniteSet(D)
  BY FS_AddElement
<1>. HIDE DEF D, w, v
<1>7. SumFunctionOnSet(w, D) = w[c] + SumFunctionOnSet(w, C)
  BY <1>1, <1>5, <1>6, SumTakes
<1>8. SumFunctionOnSet(w, C) = SumFunctionOnSet(v, C)
  BY <1>2, SumSame
<1>9. SumFunctionOnSet(w, C) \in Int
  <2>1. \A x \in C : w[x] \in Int
    BY <1>1, <1>5
  <2>. QED BY <2>1, SumInt
<1>10. CreditAmong(D, r) = CreditAmong(C, r)
  BY <1>3, <1>4, <1>5, <1>7, <1>8, <1>9
<1>. QED BY <1>10 DEF D
-----------------------------------------------------------------------------
(***************************************************************************)
(* The inductive invariant.  Trips are driven one after the other; a row   *)
(* that claims a charge claims more than the battery lost; a figure of the *)
(* car that waits to be read or written is about a trip it may be stored   *)
(* for; the rows nothing has disturbed are what the close made of them.    *)
(***************************************************************************)
Windows ==
  /\ Stored \subseteq 1..driven
  /\ \A i \in Stored : trips[i].start < trips[i].end /\ trips[i].end <= now
  /\ \A i, j \in Stored : i < j => trips[i].end < trips[j].start

Claims(r) ==
  r.source = "soc_plus_charge" =>
    UsedKnown(r) /\ r.during > 0 /\ r.energy > Used(r)

Labelled == \A i \in Stored \ byHand : Claims(trips[i])

\* What a row may hold of the car: a figure of an earlier trip only if it was
\* published again, of a later one only if as long or of no known length.
Fits(f, i) ==
  /\ f.of <= driven
  /\ f.of # 0 /\ f.of < i => f.again
  /\ f.of > i /\ f.of \in Stored /\ i \in Stored /\ f.km # 0 =>
       trips[f.of].km = trips[i].km

\* What the sensor shows: the length of the drive it is about, and nothing
\* published after a later trip ended, unless published again.
Shows ==
  /\ sensor.figure.of <= driven
  /\ sensor.kwh > 0 /\ sensor.figure.of # 0 =>
       /\ sensor.figure.of \in Stored /\ sensor.figure.km # 0 =>
            sensor.figure.km = trips[sensor.figure.of].km
       /\ \A i \in Stored : sensor.figure.of < i =>
            sensor.figure.again \/ sensor.changed < trips[i].end

Figures ==
  /\ pending \subseteq 1..driven
  /\ \A h \in healing : h.id <= driven /\ Fits(h.figure, h.id)
  /\ \A i \in Stored : trips[i].source = "vehicle" => Fits(trips[i].figure, i)
  /\ Shows

PrevEnd(i) == IF Prev(i) = 0 THEN Null ELSE trips[Prev(i)].end

\* What no rule of heal_history would change.
Settled(r) ==
  /\ r.source = "soc_plus_charge" =>
       /\ r.during > 0 /\ UsedKnown(r) /\ r.during + Used(r) > 0
       /\ r.energy = r.during + Used(r)
  /\ r.source = "soc" =>
       r.during = 0 /\ UsedKnown(r) /\ Used(r) > 0 /\ r.energy = Used(r)
  /\ r.source \in {"estimated", "none"} =>
       /\ UsedKnown(r) => Used(r) <= 0 /\ (r.during = 0 \/ r.during + Used(r) <= 0)
       /\ r.published => ~Rose(r)

AsClosed ==
  \A i \in asClosed :
    /\ trips[i].during = CreditAmong(charges, trips[i])
    /\ trips[i].before = BeforeAmong(charges, PrevEnd(i), trips[i])
    /\ Settled(trips[i])

IInv ==
  /\ TypeOK /\ IsFiniteSet(charges)
  /\ Windows /\ Labelled /\ Figures /\ AsClosed
-----------------------------------------------------------------------------
(* Rows, and the helpers on them.                                          *)
LEMMA StoredRow ==
  ASSUME TypeOK
  PROVE  /\ Stored \subseteq Ids /\ Ids \subseteq Int
         /\ \A i \in Stored : trips[i] \in Row
         /\ \A r \in Row : r # NoRow
<1>1. \A r \in Row : r # NoRow
  <2>1. \A r \in Row : r.end \in 0..MaxTime
    BY DEF Row
  <2>2. NoRow.end = -1
    BY DEF NoRow
  <2>. QED BY <2>1, <2>2, ConstantsAssumption
<1>. QED BY <1>1, ConstantsAssumption DEF TypeOK, Stored

LEMMA RowType ==
  ASSUME NEW r \in Row
  PROVE  /\ r.start \in Nat /\ r.end \in Nat /\ r.energy \in Nat
         /\ r.during \in Nat /\ r.before \in Nat /\ r.figure \in Figure
         /\ r.socStart \in Int /\ r.socEnd \in Int /\ Used(r) \in Int
         /\ r.socStart \in Socs /\ r.socEnd \in Socs
         /\ r.km \in Distances /\ r.source \in Sources
         /\ r.published \in BOOLEAN /\ r.locked \in BOOLEAN
BY ConstantsAssumption DEF Row, Used

LEMMA PrevIs ==
  ASSUME TypeOK, NEW i \in Ids
  PROVE  /\ Prev(i) \in Stored \cup {0} /\ Prev(i) < i /\ Prev(i) \in Nat
         /\ \A j \in Stored : j < i => j <= Prev(i)
<1>. DEFINE S == {j \in Stored : j < i} \cup {0}
<1>1. i \in Nat /\ i > 0 /\ Stored \subseteq Nat
  BY StoredRow, ConstantsAssumption
<1>2. S \subseteq Int /\ S # {} /\ \A x \in S : x <= i
  <2>1. 0 \in S
    OBVIOUS
  <2>2. \A x \in S : x \in Nat /\ x <= i
    BY <1>1
  <2>. HIDE DEF S
  <2>. QED BY <2>1, <2>2
<1>3. Prev(i) = Max(S)
  BY DEF Prev
<1>4. Prev(i) \in S /\ \A x \in S : x <= Prev(i)
  <2>1. i \in Int
    BY <1>1
  <2>. HIDE DEF S
  <2>. QED BY <1>2, <1>3, <2>1, BoundedMax
<1>5. \A j \in Stored : j < i => j <= Prev(i)
  BY <1>4
<1>6. Prev(i) \in Stored \cup {0} /\ Prev(i) < i
  BY <1>1, <1>4
<1>7. Prev(i) \in Nat
  <2>. HIDE DEF S
  <2>1. CASE Prev(i) = 0
    BY <2>1
  <2>2. CASE Prev(i) \in Stored
    BY <1>1, <2>2
  <2>. QED BY <1>6, <2>1, <2>2
<1>. QED BY <1>5, <1>6, <1>7

LEMMA LastEndIs ==
  ASSUME TypeOK, Windows
  PROVE  /\ LastEnd \in {trips[i].end : i \in Stored} \cup {Null}
         /\ \A i \in Stored : trips[i].end <= LastEnd
         /\ LastEnd \in Int
<1>. DEFINE S == {trips[i].end : i \in Stored} \cup {Null}
<1>1. \A i \in Stored : trips[i].end \in Nat /\ trips[i].end <= now
  BY StoredRow, RowType DEF Windows
<1>2. now \in Nat
  BY ConstantsAssumption DEF TypeOK
<1>3. S \subseteq Int /\ S # {} /\ \A x \in S : x <= now
  BY <1>1, <1>2
<1>4. LastEnd = Max(S)
  BY DEF LastEnd
<1>5. LastEnd \in S /\ \A x \in S : x <= LastEnd
  <2>1. now \in Int
    BY <1>2
  <2>. HIDE DEF S
  <2>. QED BY <1>3, <1>4, <2>1, BoundedMax
<1>. QED BY <1>3, <1>5

(* What is credited depends on the window and on the first reading.        *)
LEMMA CreditSame ==
  ASSUME NEW C, NEW r, NEW s, r.start = s.start, r.end = s.end,
         r.socStart = s.socStart
  PROVE  CreditAmong(C, r) = CreditAmong(C, s)
<1>1. \A c \in C : Credited(c, r) = Credited(c, s)
  BY DEF Credited
<1>2. [c \in C |-> Credited(c, r)] = [c \in C |-> Credited(c, s)]
  BY <1>1
<1>. QED BY <1>2 DEF CreditAmong

LEMMA BeforeSame ==
  ASSUME NEW C, NEW p, NEW r, NEW s, r.start = s.start
  PROVE  BeforeAmong(C, p, r) = BeforeAmong(C, p, s)
BY DEF BeforeAmong, Between

LEMMA HealCreditsAlike ==
  ASSUME TypeOK, NEW r \in Row
  PROVE  HealDuring(r) = CreditAmong(charges, r)
<1>1. \A c \in charges : HealCredited(c, r) = Credited(c, r)
  BY ConstantsAssumption, CreditedBounds DEF TypeOK
<1>2. [c \in charges |-> HealCredited(c, r)] = [c \in charges |-> Credited(c, r)]
  BY <1>1
<1>. QED BY <1>2 DEF HealDuring, CreditAmong
-----------------------------------------------------------------------------
(* The row of a close.                                                     *)
Rung(r, m, e, s) ==
  /\ m = [r EXCEPT !.energy = e, !.source = s]
  /\ s \notin {"soc_plus_charge", "vehicle"}
  /\ s = "soc" => UsedKnown(r) /\ Used(r) > 0 /\ e = Used(r)
  /\ s \in {"none", "estimated"} => ~(UsedKnown(r) /\ Used(r) > 0)
  /\ s = "none" => e = 0

LEMMA MeasuredIs ==
  ASSUME NEW r \in Row, r.source = "none", r.energy = 0,
         NEW pack \in Nat, NEW power \in Nat
  PROVE  \E e \in Nat, s \in Sources : Rung(r, Measured(r, pack, power), e, s)
<1>. DEFINE P(e, s) == Rung(r, Measured(r, pack, power), e, s)
<1>1. Used(r) \in Int /\ r.km \in Nat
  BY RowType, ConstantsAssumption
<1>2. /\ "pack_energy" \in Sources /\ "soc" \in Sources /\ "none" \in Sources
      /\ "power_integration" \in Sources /\ "estimated" \in Sources
  BY DEF Sources
<1>3. CASE pack > 0
  <2>1. P(pack, "pack_energy")
    BY <1>3 DEF Measured, Rung
  <2>. QED BY <1>2, <2>1
<1>4. CASE pack = 0 /\ UsedKnown(r) /\ Used(r) > 0
  <2>1. P(Used(r), "soc") /\ Used(r) \in Nat
    BY <1>1, <1>4 DEF Measured, Rung
  <2>. QED BY <1>2, <2>1
<1>5. CASE pack = 0 /\ ~(UsedKnown(r) /\ Used(r) > 0) /\ power > 0
  <2>1. P(power, "power_integration")
    BY <1>5 DEF Measured, Rung
  <2>. QED BY <1>2, <2>1
<1>6. CASE pack = 0 /\ ~(UsedKnown(r) /\ Used(r) > 0) /\ power = 0
  <2>1. Measured(r, pack, power) \in {[r EXCEPT !.energy = r.km, !.source = "estimated"], r}
    BY <1>6 DEF Measured
  <2>2. r = [r EXCEPT !.energy = 0, !.source = "none"]
    BY DEF Row
  <2>3. CASE Measured(r, pack, power) = r
    <3>1. P(0, "none")
      BY <1>6, <2>2, <2>3 DEF Rung
    <3>. QED BY <1>2, <3>1
  <2>4. CASE Measured(r, pack, power) = [r EXCEPT !.energy = r.km, !.source = "estimated"]
    <3>1. P(r.km, "estimated")
      BY <1>6, <2>4 DEF Rung
    <3>. QED BY <1>1, <1>2, <3>1
  <2>. QED BY <2>1, <2>3, <2>4
<1>. QED BY <1>3, <1>4, <1>5, <1>6

ClosedRow(start, socs, km, meter) ==
  LET r == Opened(start, socs, km)
  IN Published(Corrected([Measured(r, meter[1], meter[2]) EXCEPT
                            !.during = During(r), !.before = Before(LastEnd, r)]))

LEMMA ClosedRowIs ==
  ASSUME TypeOK, IsFiniteSet(charges),
         NEW start \in Instants, NEW socs \in TripSocs, NEW km \in Distances,
         NEW meter \in Meters, NEW r, r = ClosedRow(start, socs, km, meter)
  PROVE  /\ r \in Row /\ r.start = start /\ r.end = now /\ r.km = km
         /\ r.figure = NoFigure
         /\ r.source # "vehicle"
         /\ Claims(r) /\ Settled(r)
         /\ r.during = CreditAmong(charges, r)
         /\ r.before = BeforeAmong(charges, LastEnd, r)
<1>. DEFINE o == Opened(start, socs, km)
<1>1. /\ o \in Row /\ o.source = "none" /\ o.energy = 0
      /\ o.figure = NoFigure /\ o.km = km
      /\ o.start = start /\ o.end = now /\ ~o.published
  <2>1. socs[1] \in Socs /\ socs[2] \in Socs
    BY ConstantsAssumption
  <2>2. NoFigure \in Figure
    BY ConstantsAssumption DEF NoFigure, Figure
  <2>. QED BY <2>1, <2>2, ConstantsAssumption DEF Opened, Row, Sources, TypeOK
<1>. HIDE DEF o
<1>2. meter[1] \in Nat /\ meter[2] \in Nat
  BY ConstantsAssumption
<1>3. PICK e \in Nat, s \in Sources :
        /\ Measured(o, meter[1], meter[2]) = [o EXCEPT !.energy = e, !.source = s]
        /\ s \notin {"soc_plus_charge", "vehicle"}
        /\ s = "soc" => UsedKnown(o) /\ Used(o) > 0 /\ e = Used(o)
        /\ s \in {"none", "estimated"} => ~(UsedKnown(o) /\ Used(o) > 0)
        /\ s = "none" => e = 0
  <2>1. PICK e \in Nat, s \in Sources : Rung(o, Measured(o, meter[1], meter[2]), e, s)
    BY <1>1, <1>2, MeasuredIs
  <2>. QED BY <2>1 DEF Rung
<1>4. PICK d \in Nat : d = During(o) /\ d = CreditAmong(charges, o)
  <2>1. During(o) = CreditAmong(charges, o)
    BY DEF During, CreditAmong
  <2>2. CreditAmong(charges, o) \in Nat
    BY <1>1, CreditNat DEF TypeOK
  <2>. QED BY <2>1, <2>2
<1>5. PICK b \in Nat : b = Before(LastEnd, o) /\ b = BeforeAmong(charges, LastEnd, o)
  <2>1. Before(LastEnd, o) = BeforeAmong(charges, LastEnd, o)
    BY DEF Before, BeforeAmong, Between
  <2>2. BeforeAmong(charges, LastEnd, o) \in Nat
    BY BeforeNat DEF TypeOK
  <2>. QED BY <2>1, <2>2
<1>. DEFINE m == [o EXCEPT !.energy = e, !.source = s]
            q == [m EXCEPT !.during = d, !.before = b]
            t == Corrected(q)
<1>6. r = Published(t)
  BY <1>3, <1>4, <1>5 DEF ClosedRow, o
<1>7. /\ m \in Row /\ m.energy = e /\ m.source = s /\ m.start = o.start
      /\ m.end = o.end /\ m.socStart = o.socStart /\ m.socEnd = o.socEnd
      /\ m.km = o.km /\ m.figure = o.figure /\ m.published = o.published
  BY <1>1 DEF Row
<1>. HIDE DEF m
<1>8. /\ q \in Row /\ q.energy = e /\ q.source = s /\ q.during = d /\ q.before = b
      /\ q.start = o.start /\ q.end = o.end /\ q.socStart = o.socStart
      /\ q.socEnd = o.socEnd /\ q.km = o.km /\ q.figure = o.figure
      /\ q.published = o.published
  BY <1>7 DEF Row
<1>. HIDE DEF q
<1>9. Used(q) = Used(o) /\ UsedKnown(q) = UsedKnown(o) /\ Used(q) \in Int
  BY <1>8, RowType DEF Used, UsedKnown
<1>. DEFINE credited == /\ d > 0 /\ UsedKnown(q) /\ d + Used(q) > 0
                        /\ s \in {"none", "soc", "estimated"}
<1>10. /\ t \in Row /\ t.during = d /\ t.before = b
       /\ t.start = o.start /\ t.end = o.end /\ t.socStart = o.socStart
       /\ t.socEnd = o.socEnd /\ t.km = o.km /\ t.figure = o.figure
       /\ credited => t.source = "soc_plus_charge" /\ t.energy = d + Used(q)
       /\ ~credited => t.source = s /\ t.energy = e
  <2>1. CASE credited
    <3>1. t = [q EXCEPT !.energy = d + Used(q), !.source = "soc_plus_charge"]
      BY <1>8, <2>1 DEF Corrected
    <3>2. d + Used(q) \in Nat /\ "soc_plus_charge" \in Sources
      BY <1>9, <2>1 DEF Sources
    <3>. HIDE DEF t, credited
    <3>. QED BY <1>8, <2>1, <3>1, <3>2 DEF Row
  <2>2. CASE ~credited
    <3>1. t = q
      BY <1>8, <2>2 DEF Corrected
    <3>. HIDE DEF t, credited
    <3>. QED BY <1>8, <2>2, <3>1
  <2>. QED BY <2>1, <2>2
<1>. HIDE DEF t
<1>. DEFINE p == t.energy > 0 /\ ~(Rose(t) /\ t.source = "estimated")
<1>11. /\ r \in Row /\ r.energy = t.energy /\ r.source = t.source
       /\ r.during = d /\ r.before = b /\ r.start = o.start /\ r.end = o.end
       /\ r.socStart = o.socStart /\ r.socEnd = o.socEnd /\ r.km = o.km
       /\ r.figure = o.figure /\ r.published = p
  <2>1. r = [t EXCEPT !.published = p]
    BY <1>6 DEF Published
  <2>2. p \in BOOLEAN
    OBVIOUS
  <2>. HIDE DEF p
  <2>. QED BY <1>10, <2>1, <2>2 DEF Row
<1>12. /\ Used(r) = Used(o) /\ UsedKnown(r) = UsedKnown(o) /\ Used(r) \in Int
       /\ Rose(t) = Rose(r)
  BY <1>10, <1>11, RowType DEF Used, UsedKnown, Rose
<1>13. /\ r.source \in {"soc_plus_charge", s}
       /\ r.source = "soc_plus_charge" => /\ d > 0 /\ UsedKnown(r) /\ d + Used(r) > 0
                                          /\ r.energy = d + Used(r)
       /\ r.source # "soc_plus_charge" =>
            /\ r.source = s /\ r.energy = e
            /\ s \in {"none", "soc", "estimated"} =>
                 ~(d > 0 /\ UsedKnown(r) /\ d + Used(r) > 0)
  BY <1>3, <1>9, <1>10, <1>11, <1>12
<1>14. Claims(r)
  BY <1>11, <1>12, <1>13 DEF Claims
<1>15. Settled(r)
  <2>1. CASE r.source = "soc_plus_charge"
    BY <1>11, <1>13, <2>1 DEF Settled
  <2>2. CASE r.source = "soc"
    BY <1>3, <1>11, <1>12, <1>13, <2>2 DEF Settled
  <2>3. CASE r.source \in {"none", "estimated"}
    <3>1. UsedKnown(r) => Used(r) <= 0 /\ (d = 0 \/ d + Used(r) <= 0)
      BY <1>3, <1>12, <1>13, <2>3
    <3>2. r.published => ~Rose(r)
      <4>1. s = "none" => e = 0
        BY <1>3
      <4>2. r.published => r.energy > 0 /\ ~(Rose(r) /\ r.source = "estimated")
        BY <1>11, <1>12
      <4>3. r.source = "none" => r.energy = 0
        BY <1>13, <4>1
      <4>. HIDE DEF p
      <4>. QED BY <2>3, <4>2, <4>3
    <3>. QED BY <1>11, <2>3, <3>1, <3>2 DEF Settled
  <2>4. CASE r.source \notin {"soc_plus_charge", "soc", "none", "estimated"}
    BY <2>4 DEF Settled
  <2>. QED BY <2>1, <2>2, <2>3, <2>4
<1>16. /\ r.during = CreditAmong(charges, r)
       /\ r.before = BeforeAmong(charges, LastEnd, r)
  <2>1. CreditAmong(charges, r) = CreditAmong(charges, o)
    BY <1>11, CreditSame
  <2>2. BeforeAmong(charges, LastEnd, r) = BeforeAmong(charges, LastEnd, o)
    BY <1>11, BeforeSame
  <2>. QED BY <1>4, <1>5, <1>11, <2>1, <2>2
<1>17. r.source # "vehicle"
  BY <1>3, <1>13
<1>. QED BY <1>1, <1>11, <1>14, <1>15, <1>16, <1>17
-----------------------------------------------------------------------------
(* The row heal_history makes of a row.                                    *)
SameDrive(r, s) ==
  /\ s.start = r.start /\ s.end = r.end /\ s.km = r.km
  /\ s.figure = r.figure

LEMMA RederivedIs ==
  ASSUME NEW r \in Row, NEW q, q = Rederived(r)
  PROVE  /\ q \in Row /\ SameDrive(r, q)
         /\ q.source = "vehicle" => r.source = "vehicle"
         /\ (r.source = "soc_plus_charge" => UsedKnown(r) /\ r.energy > Used(r))
              => Claims(q)
         /\ Settled(r) /\ r.source \in {"soc_plus_charge", "soc", "estimated", "none"}
              => q = r
<1>1. /\ Used(r) \in Int /\ r.during \in Nat /\ r.energy \in Nat
      /\ r.published \in BOOLEAN /\ r.source \in Sources
  BY RowType
<1>2. /\ "soc_plus_charge" \in Sources /\ "soc" \in Sources /\ "none" \in Sources
  BY DEF Sources
<1>. DEFINE sum == r.during + Used(r)
            charged == r.during > 0 /\ UsedKnown(r)
            drop == UsedKnown(r) /\ Used(r) > 0
<1>3. CASE charged /\ sum > 0 /\ sum = r.energy
  <2>1. q = r
    BY <1>3 DEF Rederived
  <2>2. (r.source = "soc_plus_charge" => UsedKnown(r) /\ r.energy > Used(r)) => Claims(r)
    BY <1>3 DEF Claims
  <2>. QED BY <2>1, <2>2 DEF SameDrive
<1>4. CASE charged /\ sum > 0 /\ sum # r.energy
  <2>1. q = [r EXCEPT !.energy = sum, !.source = "soc_plus_charge"]
    BY <1>4 DEF Rederived
  <2>2. sum \in Nat
    BY <1>1, <1>4
  <2>3. /\ q \in Row /\ SameDrive(r, q) /\ q.source = "soc_plus_charge"
        /\ q.energy = sum /\ q.during = r.during
        /\ q.socStart = r.socStart /\ q.socEnd = r.socEnd
    <3>. HIDE DEF sum
    <3>. QED BY <1>2, <2>1, <2>2 DEF Row, SameDrive
  <2>4. Used(q) = Used(r) /\ UsedKnown(q) = UsedKnown(r)
    BY <2>3 DEF Used, UsedKnown
  <2>5. Claims(q)
    BY <1>1, <1>4, <2>3, <2>4 DEF Claims
  <2>6. ~(Settled(r) /\ r.source \in {"soc_plus_charge", "soc", "estimated", "none"})
    <3>1. CASE r.source = "soc_plus_charge"
      BY <1>4, <3>1 DEF Settled
    <3>2. CASE r.source = "soc"
      BY <1>1, <1>4, <3>2 DEF Settled
    <3>3. CASE r.source \in {"estimated", "none"}
      BY <1>1, <1>4, <3>3 DEF Settled
    <3>. QED BY <3>1, <3>2, <3>3
  <2>. QED BY <2>3, <2>5, <2>6
<1>5. CASE ~charged /\ drop /\ Used(r) = r.energy
  <2>1. q = r
    BY <1>5 DEF Rederived
  <2>2. (r.source = "soc_plus_charge" => UsedKnown(r) /\ r.energy > Used(r)) => Claims(r)
    BY <1>1, <1>5 DEF Claims
  <2>. QED BY <2>1, <2>2 DEF SameDrive
<1>6. CASE ~charged /\ drop /\ Used(r) # r.energy
  <2>1. q = [r EXCEPT !.energy = Used(r), !.source = "soc"]
    BY <1>6 DEF Rederived
  <2>2. PICK u \in Nat : u = Used(r)
    BY <1>1, <1>6
  <2>3. q \in Row /\ SameDrive(r, q) /\ q.source = "soc"
    <3>1. q = [r EXCEPT !.energy = u, !.source = "soc"]
      BY <2>1, <2>2
    <3>. QED BY <1>2, <3>1 DEF Row, SameDrive
  <2>4. Claims(q)
    BY <2>3 DEF Claims
  <2>5. ~(Settled(r) /\ r.source \in {"soc_plus_charge", "soc", "estimated", "none"})
    <3>1. CASE r.source = "soc_plus_charge"
      BY <1>6, <3>1 DEF Settled
    <3>2. CASE r.source = "soc"
      BY <1>1, <1>6, <3>2 DEF Settled
    <3>3. CASE r.source \in {"estimated", "none"}
      BY <1>1, <1>6, <3>3 DEF Settled
    <3>. QED BY <3>1, <3>2, <3>3
  <2>. QED BY <2>3, <2>4, <2>5
<1>7. CASE ~(charged /\ sum > 0) /\ ~(~charged /\ drop)
  <2>. DEFINE p == r.published /\ ~Rose(r)
              s == IF r.during = 0 /\ r.source = "soc_plus_charge"
                   THEN "none" ELSE r.source
  <2>1. q = [r EXCEPT !.published = p, !.source = s]
    BY <1>7 DEF Rederived
  <2>2. p \in BOOLEAN /\ s \in Sources
    BY <1>1, <1>2
  <2>. HIDE DEF p, s
  <2>3. /\ q \in Row /\ SameDrive(r, q) /\ q.source = s /\ q.published = p
        /\ q.energy = r.energy /\ q.during = r.during
        /\ q.socStart = r.socStart /\ q.socEnd = r.socEnd
    BY <2>1, <2>2 DEF Row, SameDrive
  <2>4. Used(q) = Used(r) /\ UsedKnown(q) = UsedKnown(r)
    BY <2>3 DEF Used, UsedKnown
  <2>5. s = "vehicle" => r.source = "vehicle"
    BY DEF s
  <2>6. s = "soc_plus_charge" => r.source = "soc_plus_charge" /\ r.during > 0
    BY <1>1 DEF s
  <2>7. (r.source = "soc_plus_charge" => UsedKnown(r) /\ r.energy > Used(r)) => Claims(q)
    BY <2>3, <2>4, <2>6 DEF Claims
  <2>8. ASSUME Settled(r), r.source \in {"soc_plus_charge", "soc", "estimated", "none"}
        PROVE  q = r
    <3>1. r.source \in {"estimated", "none"}
      <4>1. r.source # "soc_plus_charge"
        BY <1>7, <2>8 DEF Settled
      <4>2. r.source # "soc"
        BY <1>1, <1>7, <2>8 DEF Settled
      <4>. QED BY <2>8, <4>1, <4>2
    <3>2. s = r.source
      BY <3>1 DEF s
    <3>3. p = r.published
      <4>1. r.published => ~Rose(r)
        BY <2>8, <3>1 DEF Settled
      <4>. QED BY <1>1, <4>1 DEF p
    <3>4. q = [r EXCEPT !.published = r.published, !.source = r.source]
      BY <2>1, <3>2, <3>3
    <3>. QED BY <3>4 DEF Row
  <2>. QED BY <2>3, <2>5, <2>7, <2>8
<1>. QED BY <1>3, <1>4, <1>5, <1>6, <1>7

LEMMA HealedIs ==
  ASSUME TypeOK, IsFiniteSet(charges), NEW i \in Stored, NEW h, h = Healed(i)
  PROVE  /\ h \in Row /\ SameDrive(trips[i], h)
         /\ h.source = "vehicle" => trips[i].source = "vehicle"
         /\ Claims(trips[i]) => Claims(h)
         /\ /\ trips[i].during = CreditAmong(charges, trips[i])
            /\ trips[i].before = BeforeAmong(charges, PrevEnd(i), trips[i])
            /\ Settled(trips[i])
            => \/ h = trips[i]
               \/ trips[i].source = "pack_energy"
               \/ Reanchors(i, trips[i])
<1>1. PICK r : r = trips[i] /\ r \in Row
  BY StoredRow
<1>2. PICK d \in Nat : d = HealDuring(r) /\ d = CreditAmong(charges, r)
  BY <1>1, HealCreditsAlike, CreditNat DEF TypeOK
<1>3. PICK b \in Nat : /\ b = BeforeAmong(charges, PrevEnd(i), r)
                       /\ b = IF Prev(i) = 0 THEN 0 ELSE Before(trips[Prev(i)].end, r)
  <2>1. BeforeAmong(charges, PrevEnd(i), r) \in Nat
    BY BeforeNat DEF TypeOK
  <2>2. BeforeAmong(charges, PrevEnd(i), r)
          = IF Prev(i) = 0 THEN 0 ELSE Before(trips[Prev(i)].end, r)
    BY DEF BeforeAmong, Between, PrevEnd, Before
  <2>. QED BY <2>1, <2>2
<1>. DEFINE q == [r EXCEPT !.during = d, !.before = b]
            a == IF Reanchors(i, q)
                 THEN [q EXCEPT !.socStart = trips[Prev(i)].socEnd] ELSE q
<1>4. h = IF q.source \in {"power_integration", "vehicle"} THEN a ELSE Rederived(a)
  BY <1>1, <1>2, <1>3 DEF Healed
<1>5. /\ q \in Row /\ SameDrive(r, q) /\ q.during = d /\ q.before = b
      /\ q.socStart = r.socStart /\ q.socEnd = r.socEnd /\ q.energy = r.energy
      /\ q.source = r.source
  BY <1>1 DEF Row, SameDrive
<1>6. r.during = d /\ r.before = b => q = r
  BY <1>1 DEF Row
<1>. HIDE DEF q
<1>7. /\ a \in Row /\ SameDrive(r, a) /\ a.source = r.source /\ a.energy = r.energy
      /\ UsedKnown(r) => UsedKnown(a) /\ Used(a) <= Used(r)
      /\ a.during = d
      /\ ~Reanchors(i, q) => a = q
  <2>1. CASE Reanchors(i, q)
    <3>1. PICK x : x = trips[Prev(i)].socEnd
      OBVIOUS
    <3>2. a = [q EXCEPT !.socStart = x]
      BY <2>1, <3>1
    <3>3. x # Null /\ q.socStart > x /\ x \in Socs
      <4>1. Prev(i) \in Stored
        BY <2>1, PrevIs, StoredRow DEF Reanchors
      <4>2. trips[Prev(i)] \in Row
        BY <4>1, StoredRow
      <4>. QED BY <2>1, <3>1, <4>2, RowType DEF Reanchors
    <3>4. /\ a \in Row /\ SameDrive(q, a) /\ a.source = q.source
          /\ a.energy = q.energy /\ a.socStart = x /\ a.socEnd = q.socEnd
          /\ a.during = q.during
      <4>. HIDE DEF a
      <4>. QED BY <1>5, <3>2, <3>3 DEF Row, SameDrive
    <3>5. UsedKnown(r) => UsedKnown(a) /\ Used(a) <= Used(r)
      <4>1. /\ q.socStart \in Int /\ q.socEnd \in Int /\ x \in Int
        BY <1>5, <3>4, RowType
      <4>. HIDE DEF a
      <4>. QED BY <1>5, <3>3, <3>4, <4>1 DEF UsedKnown, Used
    <3>. HIDE DEF a
    <3>. QED BY <1>5, <2>1, <3>4, <3>5 DEF SameDrive
  <2>2. CASE ~Reanchors(i, q)
    <3>1. a = q
      BY <2>2
    <3>2. UsedKnown(r) => UsedKnown(q) /\ Used(q) <= Used(r)
      <4>1. Used(q) = Used(r) /\ UsedKnown(q) = UsedKnown(r) /\ Used(q) \in Int
        BY <1>5, RowType DEF UsedKnown, Used
      <4>. QED BY <4>1
    <3>. HIDE DEF a
    <3>. QED BY <1>5, <2>2, <3>1, <3>2
  <2>. QED BY <2>1, <2>2
<1>. HIDE DEF a
<1>8. Claims(r) =>
        (a.source = "soc_plus_charge" => UsedKnown(a) /\ a.energy > Used(a))
  <2>1. Used(a) \in Int /\ Used(r) \in Int /\ a.energy \in Int
    BY <1>1, <1>7, RowType
  <2>. QED BY <1>7, <2>1 DEF Claims
<1>9. CASE r.source \in {"power_integration", "vehicle"}
  <2>1. h = a
    BY <1>4, <1>5, <1>9
  <2>2. Claims(h)
    BY <1>7, <1>9, <2>1 DEF Claims
  <2>3. r.during = d /\ r.before = b => h = r \/ Reanchors(i, r)
    BY <1>6, <1>7, <2>1
  <2>. QED BY <1>1, <1>2, <1>3, <1>7, <2>1, <2>2, <2>3
<1>10. CASE r.source \notin {"power_integration", "vehicle"}
  <2>1. h = Rederived(a)
    BY <1>4, <1>5, <1>10
  <2>2. /\ h \in Row /\ SameDrive(a, h)
        /\ h.source = "vehicle" => a.source = "vehicle"
        /\ (a.source = "soc_plus_charge" => UsedKnown(a) /\ a.energy > Used(a))
             => Claims(h)
        /\ Settled(a) /\ a.source \in {"soc_plus_charge", "soc", "estimated", "none"}
             => h = a
    BY <1>7, <2>1, RederivedIs
  <2>3. SameDrive(r, h)
    BY <1>7, <2>2 DEF SameDrive
  <2>4. ASSUME r.during = d, r.before = b, Settled(r), ~Reanchors(i, r),
               r.source # "pack_energy"
        PROVE  h = r
    <3>1. a = r
      BY <1>6, <1>7, <2>4
    <3>2. r.source \in {"soc_plus_charge", "soc", "estimated", "none"}
      BY <1>1, <1>10, <2>4, RowType DEF Sources
    <3>. QED BY <2>2, <2>4, <3>1, <3>2
  <2>. QED BY <1>1, <1>2, <1>3, <1>7, <1>8, <1>10, <2>2, <2>3, <2>4
<1>. QED BY <1>9, <1>10
-----------------------------------------------------------------------------
(* Types.                                                                  *)
LEMMA TypeInit == Init => TypeOK /\ IsFiniteSet(charges)
<1>1. NoFigure \in Figure
  BY ConstantsAssumption DEF NoFigure, Figure
<1>. QED BY <1>1, ConstantsAssumption, FS_EmptySet DEF Init, TypeOK, Stored

\* A step that only gives a row for a row, or takes one away.
LEMMA RowSet ==
  ASSUME TypeOK, NEW i \in Ids, NEW r \in Row \cup {NoRow},
         trips' = [trips EXCEPT ![i] = r]
  PROVE  /\ trips' \in [Ids -> Row \cup {NoRow}]
         /\ r \in Row => Stored' = Stored \cup {i}
         /\ r = NoRow => Stored' = Stored \ {i}
<1>1. trips' \in [Ids -> Row \cup {NoRow}]
  BY DEF TypeOK
<1>2. \A j \in Ids : trips'[j] = IF j = i THEN r ELSE trips[j]
  BY DEF TypeOK
<1>3. r \in Row => r # NoRow
  BY StoredRow
<1>4. r \in Row => Stored' = Stored \cup {i}
  BY <1>2, <1>3 DEF Stored
<1>5. r = NoRow => Stored' = Stored \ {i}
  BY <1>2 DEF Stored
<1>. QED BY <1>1, <1>4, <1>5

LEMMA CloseType ==
  ASSUME IInv, NEW start \in Instants, NEW socs \in TripSocs, NEW km \in Distances,
         NEW meter \in Meters, Close(start, socs, km, meter)
  PROVE  /\ TypeOK' /\ Stored' = Stored \cup {driven + 1}
         /\ driven + 1 \in Ids /\ driven + 1 \notin Stored
         /\ trips'[driven + 1] = ClosedRow(start, socs, km, meter)
         /\ \A j \in Stored : trips'[j] = trips[j]
<1>1. TypeOK /\ IsFiniteSet(charges) /\ Windows
  BY DEF IInv
<1>2. PICK r : r = ClosedRow(start, socs, km, meter) /\ r \in Row
  BY <1>1, ClosedRowIs
<1>3. trips' = [trips EXCEPT ![driven + 1] = r]
  <2>. DEFINE o == Opened(start, socs, km)
              c == Published(Corrected([Measured(o, meter[1], meter[2]) EXCEPT
                     !.during = During(o), !.before = Before(LastEnd, o)]))
  <2>1. trips' = [trips EXCEPT ![driven + 1] = c]
    BY Zenon DEF Close
  <2>2. ClosedRow(start, socs, km, meter) = c
    BY Zenon DEF ClosedRow
  <2>. HIDE DEF o, c
  <2>. QED BY <1>2, <2>1, <2>2, Zenon
<1>4. driven + 1 \in Ids /\ driven + 1 \notin Stored
  <2>1. driven < MaxTrips
    BY Zenon DEF Close
  <2>2. driven \in Nat /\ Stored \subseteq 1..driven
    BY <1>1, ConstantsAssumption DEF TypeOK, Windows
  <2>. QED BY <2>1, <2>2, ConstantsAssumption
<1>5. trips' \in [Ids -> Row \cup {NoRow}] /\ Stored' = Stored \cup {driven + 1}
  BY <1>1, <1>2, <1>3, <1>4, RowSet
<1>6. trips'[driven + 1] = r /\ \A j \in Stored : trips'[j] = trips[j]
  BY <1>1, <1>3, <1>4 DEF TypeOK, Stored
<1>7. TypeOK'
  <2>1. UNCHANGED <<now, charges, sensor, healing, byHand, edits>>
    BY DEF Close
  <2>2. driven' \in 0..MaxTrips
    BY <1>4 DEF Close
  <2>3. pending' \subseteq Ids
    BY <1>1, <1>4 DEF Close, TypeOK
  <2>4. asClosed' \subseteq Stored'
    BY <1>1, <1>5 DEF Close, TypeOK
  <2>. QED BY <1>1, <1>5, <2>1, <2>2, <2>3, <2>4 DEF TypeOK
<1>. QED BY <1>2, <1>4, <1>5, <1>6, <1>7

\* A row patched, by the user or by the car, and the trips about it.
LEMMA PatchRow ==
  ASSUME TypeOK, NEW i \in Stored, NEW r \in Row, trips' = [trips EXCEPT ![i] = r]
  PROVE  /\ trips' \in [Ids -> Row \cup {NoRow}] /\ Stored' = Stored
         /\ trips'[i] = r /\ \A j \in Stored : j # i => trips'[j] = trips[j]
<1>1. i \in Ids
  BY DEF Stored
<1>2. trips' \in [Ids -> Row \cup {NoRow}] /\ Stored' = Stored
  <2>1. r \in Row \cup {NoRow}
    OBVIOUS
  <2>2. trips' \in [Ids -> Row \cup {NoRow}] /\ Stored' = Stored \cup {i}
    BY <1>1, <2>1, RowSet
  <2>3. Stored \cup {i} = Stored
    OBVIOUS
  <2>. QED BY <2>2, <2>3
<1>3. trips'[i] = r /\ \A j \in Stored : j # i => trips'[j] = trips[j]
  <2>1. DOMAIN trips = Ids
    BY DEF TypeOK
  <2>2. trips'[i] = r
    BY <1>1, <2>1, Zenon
  <2>3. \A j \in Ids : j # i => trips'[j] = trips[j]
    BY <2>1
  <2>. QED BY <2>2, <2>3, StoredRow
<1>. QED BY <1>2, <1>3

LEMMA PatchType ==
  ASSUME TypeOK, NEW i \in Ids, NEW r \in Row, Patch(i, r), byHand' \subseteq Ids
  PROVE  TypeOK' /\ i \in Stored
<1>1. i \in Stored /\ trips' = [trips EXCEPT ![i] = r]
  BY DEF Patch
<1>2. trips' \in [Ids -> Row \cup {NoRow}] /\ Stored' = Stored
  BY <1>1, PatchRow
<1>3. UNCHANGED <<now, driven, charges, sensor, pending, healing>>
  BY DEF Patch
<1>4. edits' \in 0..MaxEdits
  BY ConstantsAssumption DEF Patch, TypeOK
<1>5. asClosed' \subseteq Stored'
  BY <1>2 DEF Patch, TypeOK
<1>. QED BY <1>1, <1>2, <1>3, <1>4, <1>5 DEF TypeOK

LEMMA SetTripEnergyType ==
  ASSUME TypeOK, NEW i \in Ids, NEW e \in Energies, SetTripEnergy(i, e)
  PROVE  /\ TypeOK' /\ i \in Stored
         /\ [trips[i] EXCEPT !.energy = e, !.published = TRUE, !.locked = TRUE] \in Row
<1>. DEFINE r == [trips[i] EXCEPT !.energy = e, !.published = TRUE, !.locked = TRUE]
<1>1. i \in Stored /\ Patch(i, r)
  BY DEF SetTripEnergy, Patch
<1>2. trips[i] \in Row /\ e \in Nat
  BY <1>1, StoredRow, ConstantsAssumption
<1>3. r \in Row
  BY <1>2 DEF Row
<1>4. byHand' \subseteq Ids
  BY DEF SetTripEnergy, TypeOK
<1>. HIDE DEF r
<1>5. TypeOK'
  BY <1>1, <1>3, <1>4, PatchType
<1>. QED BY <1>1, <1>3, <1>5 DEF r

LEMMA SetTripSocType ==
  ASSUME TypeOK, NEW i \in Ids, NEW soc \in 0..FullSoc, SetTripSoc(i, soc)
  PROVE  TypeOK' /\ i \in Stored /\ [trips[i] EXCEPT !.socStart = soc] \in Row
<1>. DEFINE r == [trips[i] EXCEPT !.socStart = soc]
<1>1. i \in Stored /\ Patch(i, r)
  BY DEF SetTripSoc, Patch
<1>2. trips[i] \in Row /\ soc \in Socs
  BY <1>1, StoredRow
<1>3. r \in Row
  BY <1>2 DEF Row
<1>4. byHand' \subseteq Ids
  BY DEF SetTripSoc, TypeOK
<1>. HIDE DEF r
<1>5. TypeOK'
  BY <1>1, <1>3, <1>4, PatchType
<1>. QED BY <1>1, <1>3, <1>5 DEF r

LEMMA DeleteTripType ==
  ASSUME TypeOK, NEW i \in Ids, DeleteTrip(i)
  PROVE  /\ TypeOK' /\ Stored' = Stored \ {i}
         /\ \A j \in Stored' : trips'[j] = trips[j]
<1>1. trips' = [trips EXCEPT ![i] = NoRow]
  BY DEF DeleteTrip
<1>2. trips' \in [Ids -> Row \cup {NoRow}] /\ Stored' = Stored \ {i}
  BY <1>1, RowSet
<1>3. \A j \in Stored' : trips'[j] = trips[j]
  BY <1>1, <1>2 DEF TypeOK, Stored
<1>4. UNCHANGED <<now, driven, charges, sensor, pending, healing, byHand>>
  BY DEF DeleteTrip
<1>5. edits' \in 0..MaxEdits
  BY ConstantsAssumption DEF DeleteTrip, TypeOK
<1>6. asClosed' \subseteq Stored'
  <2>1. \A j \in asClosed : j < i => j # i
    BY StoredRow DEF TypeOK
  <2>. QED BY <1>2, <2>1 DEF DeleteTrip, TypeOK
<1>. QED BY <1>2, <1>3, <1>4, <1>5, <1>6 DEF TypeOK

HealedByCar(h) ==
  [trips[h.id] EXCEPT !.energy = h.kwh, !.source = "vehicle",
                      !.published = TRUE, !.locked = TRUE, !.figure = h.figure]

LEMMA HealWritesType ==
  ASSUME TypeOK, NEW h \in healing, HealWrites(h)
  PROVE  /\ TypeOK' /\ Stored' = Stored
         /\ \A j \in Stored : j # h.id => trips'[j] = trips[j]
         /\ h.id \in Stored => /\ trips'[h.id] = HealedByCar(h)
                               /\ HealedByCar(h) \in Row
<1>1. h.id \in Ids /\ h.kwh \in Nat /\ h.figure \in Figure
  BY ConstantsAssumption DEF TypeOK, Heal
<1>2. UNCHANGED <<now, driven, charges, sensor, pending, byHand, edits>>
  BY DEF HealWrites
<1>3. healing' \subseteq Heal /\ asClosed' \subseteq asClosed
  BY DEF HealWrites, TypeOK
<1>4. CASE h.id \in Stored
  <2>1. trips' = [trips EXCEPT ![h.id] = HealedByCar(h)]
    BY <1>4 DEF HealWrites, HealedByCar
  <2>2. HealedByCar(h) \in Row
    <3>1. trips[h.id] \in Row /\ "vehicle" \in Sources
      BY <1>4, StoredRow DEF Sources
    <3>. QED BY <1>1, <3>1 DEF Row, HealedByCar
  <2>3. /\ trips' \in [Ids -> Row \cup {NoRow}] /\ Stored' = Stored
        /\ trips'[h.id] = HealedByCar(h)
        /\ \A j \in Stored : j # h.id => trips'[j] = trips[j]
    BY <1>4, <2>1, <2>2, PatchRow
  <2>. QED BY <1>2, <1>3, <2>2, <2>3 DEF TypeOK
<1>5. CASE h.id \notin Stored
  <2>1. trips' = trips
    BY <1>5 DEF HealWrites
  <2>2. Stored' = Stored
    BY <2>1 DEF Stored
  <2>. QED BY <1>2, <1>3, <1>5, <2>1, <2>2 DEF TypeOK
<1>. QED BY <1>4, <1>5

LEMMA HealHistoryType ==
  ASSUME TypeOK, IsFiniteSet(charges), HealHistory
  PROVE  TypeOK' /\ Stored' = Stored /\ \A i \in Stored : trips'[i] = Healed(i)
<1>1. \A i \in Ids : trips'[i] = IF i \in Stored THEN Healed(i) ELSE NoRow
  BY DEF HealHistory
<1>2. \A i \in Stored : Healed(i) \in Row /\ Healed(i) # NoRow
  BY HealedIs, StoredRow
<1>3. trips' \in [Ids -> Row \cup {NoRow}]
  <2>1. \A i \in Ids : (IF i \in Stored THEN Healed(i) ELSE NoRow) \in Row \cup {NoRow}
    BY <1>2
  <2>. QED BY <2>1 DEF HealHistory
<1>4. Stored' = Stored
  BY <1>1, <1>2 DEF Stored
<1>5. UNCHANGED <<now, driven, charges, sensor, pending, healing, byHand, edits>>
  BY DEF HealHistory
<1>6. asClosed' \subseteq Stored'
  BY <1>4 DEF HealHistory, TypeOK
<1>7. \A i \in Stored : trips'[i] = Healed(i)
  BY <1>1, StoredRow
<1>. QED BY <1>3, <1>4, <1>5, <1>6, <1>7 DEF TypeOK

SensorType == [changed : Instants, kwh : Energies \cup {0}, figure : Figure]

\* What is published again says what it said.
LEMMA RepublishedIs ==
  ASSUME TypeOK
  PROVE  /\ Republished \in SensorType
         /\ Republished.kwh = sensor.kwh /\ Republished.changed = now
         /\ Republished.figure.of = sensor.figure.of
         /\ Republished.figure.km = sensor.figure.km
         /\ Republished.figure.again
<1>. DEFINE f == [sensor.figure EXCEPT !.again = TRUE]
<1>1. /\ f \in Figure /\ f.of = sensor.figure.of /\ f.km = sensor.figure.km
      /\ f.again
  BY DEF TypeOK, Figure
<1>2. Republished = [sensor EXCEPT !.changed = now, !.figure = f]
  BY DEF Republished, TypeOK
<1>. HIDE DEF f
<1>. QED BY <1>1, <1>2 DEF SensorType, TypeOK

LEMMA OtherType ==
  ASSUME TypeOK,
         \/ Tick
         \/ \E c \in Charges : LogCharge(c) \/ DeleteCharge(c)
         \/ \E of \in 0..MaxTrips, kwh \in Energies, km \in Distances \cup {0} :
              CarReports(of, kwh, km)
         \/ CarReturns
         \/ \E i \in Ids : HealFires(i)
         \/ Restart
  PROVE  TypeOK'
<1>1. trips' = trips /\ Stored' = Stored
  BY DEF Tick, LogCharge, DeleteCharge, CarReports, CarReturns, HealFires, Restart,
         Stored
<1>2. CASE Tick
  BY <1>1, <1>2, ConstantsAssumption DEF Tick, TypeOK
<1>3. ASSUME NEW c \in Charges, LogCharge(c)
      PROVE  TypeOK'
  BY <1>1, <1>3 DEF LogCharge, TypeOK
<1>4. ASSUME NEW c \in Charges, DeleteCharge(c)
      PROVE  TypeOK'
  BY <1>1, <1>4, ConstantsAssumption DEF DeleteCharge, TypeOK
<1>5. ASSUME NEW of \in 0..MaxTrips, NEW kwh \in Energies,
             NEW km \in Distances \cup {0}, CarReports(of, kwh, km)
      PROVE  TypeOK'
  <2>1. [of |-> of, km |-> km, again |-> FALSE] \in Figure
    BY DEF Figure
  <2>2. sensor' \in SensorType
    BY <1>5, <2>1 DEF CarReports, TypeOK, SensorType
  <2>. QED BY <1>1, <1>5, <2>2, ConstantsAssumption DEF CarReports, TypeOK, SensorType
<1>6. ASSUME NEW i \in Ids, HealFires(i)
      PROVE  TypeOK'
  <2>1. healing' \subseteq Heal
    <3>1. CASE i \in Stored /\ RefersTo(trips[i])
      <4>1. sensor.kwh \in Energies /\ sensor.figure \in Figure
        BY <3>1 DEF RefersTo, TypeOK
      <4>2. [id |-> i, kwh |-> sensor.kwh, figure |-> sensor.figure] \in Heal
        BY <4>1 DEF Heal
      <4>. QED BY <1>6, <3>1, <4>2 DEF HealFires, TypeOK
    <3>2. CASE ~(i \in Stored /\ RefersTo(trips[i]))
      BY <1>6, <3>2 DEF HealFires, TypeOK
    <3>. QED BY <3>1, <3>2
  <2>. QED BY <1>1, <1>6, <2>1 DEF HealFires, TypeOK
<1>7. CASE Restart
  <2>1. pending' \subseteq Ids
    BY <1>7, StoredRow DEF Restart
  <2>2. healing' \subseteq Heal
    BY <1>7 DEF Restart
  <2>3. sensor' \in SensorType
    BY <1>7, RepublishedIs DEF Restart, TypeOK, SensorType
  <2>4. UNCHANGED <<now, driven, charges, asClosed, byHand, edits>>
    BY <1>7 DEF Restart
  <2>. QED BY <1>1, <2>1, <2>2, <2>3, <2>4 DEF TypeOK, SensorType
<1>8. CASE CarReturns
  <2>1. sensor' \in SensorType
    BY <1>8, RepublishedIs DEF CarReturns
  <2>2. UNCHANGED <<now, driven, charges, pending, healing, asClosed, byHand, edits>>
    BY <1>8 DEF CarReturns
  <2>. QED BY <1>1, <2>1, <2>2 DEF TypeOK, SensorType
<1>. QED BY <1>2, <1>3, <1>4, <1>5, <1>6, <1>7, <1>8

LEMMA ChargesFinite ==
  ASSUME IsFiniteSet(charges), [Next]_vars
  PROVE  IsFiniteSet(charges')
<1>1. \/ charges' \subseteq charges
      \/ \E c \in Charges : charges' = charges \cup {c}
  BY DEF Next, vars, Tick, Close, LogCharge, DeleteCharge, SetTripEnergy,
         SetTripSoc, Patch, DeleteTrip, HealFires, CarReports, CarReturns,
         HealWrites, Restart, HealHistory
<1>. QED BY <1>1, FS_Subset, FS_AddElement
-----------------------------------------------------------------------------
(* The drives: their windows, and who came before whom.                    *)
Kept ==
  /\ driven' = driven /\ now' >= now
  /\ Stored' \subseteq Stored
  /\ \A i \in Stored' : /\ trips'[i].start = trips[i].start
                        /\ trips'[i].end = trips[i].end
                        /\ trips'[i].km = trips[i].km

LEMMA KeptWindows ==
  ASSUME TypeOK, TypeOK', Windows, Kept
  PROVE  Windows'
<1>1. Stored' \subseteq 1..driven'
  BY DEF Windows, Kept
<1>2. now \in Int /\ now' \in Int
  BY ConstantsAssumption DEF TypeOK
<1>3. \A i \in Stored' : trips'[i].start < trips'[i].end /\ trips'[i].end <= now'
  <2>. TAKE i \in Stored'
  <2>1. i \in Stored /\ trips[i].end \in Int
    BY StoredRow, RowType DEF Kept
  <2>2. trips[i].start < trips[i].end /\ trips[i].end <= now
    BY <2>1 DEF Windows
  <2>3. trips'[i].start = trips[i].start /\ trips'[i].end = trips[i].end /\ now' >= now
    BY DEF Kept
  <2>. QED BY <1>2, <2>1, <2>2, <2>3
<1>4. \A i, j \in Stored' : i < j => trips'[i].end < trips'[j].start
  BY DEF Windows, Kept
<1>. QED BY <1>1, <1>3, <1>4 DEF Windows

LEMMA CloseWindows ==
  ASSUME IInv, NEW start \in Instants, NEW socs \in TripSocs, NEW km \in Distances,
         NEW meter \in Meters, Close(start, socs, km, meter)
  PROVE  Windows'
<1>1. TypeOK /\ IsFiniteSet(charges) /\ Windows
  BY DEF IInv
<1>2. PICK i, r : i = driven + 1 /\ r = ClosedRow(start, socs, km, meter)
  OBVIOUS
<1>3. /\ Stored' = Stored \cup {i} /\ trips'[i] = r
      /\ \A j \in Stored : trips'[j] = trips[j]
  BY <1>2, CloseType
<1>4. r \in Row /\ r.start = start /\ r.end = now
  BY <1>1, <1>2, ClosedRowIs
<1>5. start < now /\ driven' = i /\ now' = now /\ \A j \in 1..driven : start > LastEnd
  BY <1>2 DEF Close
<1>6. driven \in Nat /\ now \in Int /\ start \in Int
  BY <1>1, ConstantsAssumption DEF TypeOK
<1>7. Stored' \subseteq 1..driven'
  <2>1. \A j \in Stored : j \in Int /\ 1 <= j /\ j <= driven
    BY <1>1, <1>6 DEF Windows
  <2>2. i \in Int /\ 1 <= i /\ i = driven + 1
    BY <1>2, <1>6
  <2>3. \A j \in Stored : j <= i
    BY <1>6, <2>1, <2>2
  <2>4. \A j \in Stored' : j \in Int /\ 1 <= j /\ j <= i
    BY <1>3, <2>1, <2>2, <2>3
  <2>. QED BY <1>5, <2>4
<1>8. \A j \in Stored : trips[j].end < start
  <2>. TAKE j \in Stored
  <2>1. j \in 1..driven
    BY <1>1 DEF Windows
  <2>2. start > LastEnd /\ trips[j].end <= LastEnd /\ LastEnd \in Int
    BY <1>1, <1>5, <2>1, LastEndIs
  <2>3. trips[j].end \in Int
    BY <1>1, StoredRow, RowType
  <2>. QED BY <1>6, <2>2, <2>3
<1>9. \A j \in Stored : j < i /\ j \in Int
  BY <1>1, <1>2, <1>6 DEF Windows
<1>10. \A j \in Stored' : trips'[j].start < trips'[j].end /\ trips'[j].end <= now'
  <2>1. \A j \in Stored : trips'[j].start < trips'[j].end /\ trips'[j].end <= now'
    BY <1>1, <1>3, <1>5 DEF Windows
  <2>2. trips'[i].start < trips'[i].end /\ trips'[i].end <= now'
    BY <1>3, <1>4, <1>5, <1>6
  <2>. QED BY <1>3, <2>1, <2>2
<1>11. \A j, k \in Stored' : j < k => trips'[j].end < trips'[k].start
  <2>. SUFFICES ASSUME NEW j \in Stored', NEW k \in Stored', j < k
                PROVE  trips'[j].end < trips'[k].start
    OBVIOUS
  <2>1. CASE j \in Stored /\ k \in Stored
    BY <1>1, <1>3, <2>1 DEF Windows
  <2>2. CASE j \in Stored /\ k = i
    BY <1>3, <1>4, <1>8, <2>2
  <2>3. j # i
    <3>1. k \in Int /\ k <= i /\ i \in Int
      BY <1>2, <1>3, <1>6, <1>9
    <3>. QED BY <3>1
  <2>. QED BY <1>3, <2>1, <2>2, <2>3
<1>. QED BY <1>7, <1>10, <1>11 DEF Windows

\* Deletions among the later trips, and edits anywhere, leave the end of the
\* trip before where it was.
LEMMA PrevKept ==
  ASSUME TypeOK, TypeOK', NEW i \in Ids,
         \A j \in Ids : j < i => (j \in Stored' <=> j \in Stored),
         \A j \in Stored' : j < i => trips'[j].end = trips[j].end
  PROVE  PrevEnd(i)' = PrevEnd(i)
<1>1. {j \in Stored' : j < i} = {j \in Stored : j < i}
  BY StoredRow DEF Stored
<1>2. Prev(i)' = Prev(i)
  BY <1>1 DEF Prev
<1>3. PICK p : p = Prev(i) /\ p = Prev(i)'
  BY <1>2
<1>4. p # 0 => p \in Stored' /\ p < i
  <2>1. p # 0 => p \in Stored /\ p < i
    BY <1>3, PrevIs
  <2>2. CASE p # 0
    <3>1. p \in Stored /\ p < i /\ p \in Ids
      BY <2>1, <2>2, StoredRow
    <3>. QED BY <3>1
  <2>. QED BY <2>2
<1>5. PrevEnd(i) = IF p = 0 THEN Null ELSE trips[p].end
  BY <1>3 DEF PrevEnd
<1>6. PrevEnd(i)' = IF p = 0 THEN Null ELSE trips'[p].end
  BY <1>3 DEF PrevEnd
<1>. QED BY <1>4, <1>5, <1>6

\* The trip before the one that closes is the last stored.
LEMMA ClosedPrev ==
  ASSUME TypeOK, Windows, NEW i \in Ids, \A j \in Stored : j < i
  PROVE  PrevEnd(i) = LastEnd
<1>1. PICK p : p = Prev(i)
  OBVIOUS
<1>2. p \in Stored \cup {0} /\ \A j \in Stored : j <= p
  BY <1>1, PrevIs
<1>3. /\ LastEnd \in {trips[j].end : j \in Stored} \cup {Null}
      /\ \A j \in Stored : trips[j].end <= LastEnd
      /\ LastEnd \in Int
  BY LastEndIs
<1>4. \A j \in Stored : j \in Nat /\ j > 0 /\ trips[j].end \in Nat /\ trips[j].start \in Nat
  BY StoredRow, RowType DEF Windows
<1>5. CASE p = 0
  <2>1. Stored = {}
    <3>. SUFFICES ASSUME NEW j \in Stored PROVE FALSE
      OBVIOUS
    <3>1. j <= 0
      BY <1>2, <1>5
    <3>2. j \in Nat /\ j > 0
      BY <1>4
    <3>. QED BY <3>1, <3>2
  <2>. QED BY <1>1, <1>3, <1>5, <2>1 DEF PrevEnd
<1>6. CASE p # 0
  <2>1. p \in Stored
    BY <1>2, <1>6
  <2>2. \A j \in Stored : trips[j].end <= trips[p].end
    <3>. TAKE j \in Stored
    <3>1. CASE j = p
      BY <1>4, <3>1
    <3>2. CASE j < p
      BY <1>4, <2>1, <3>2 DEF Windows
    <3>3. j \in Nat /\ p \in Nat /\ j <= p
      BY <1>2, <1>4, <2>1
    <3>. QED BY <3>1, <3>2, <3>3
  <2>3. LastEnd # Null
    BY <1>3, <1>4, <2>1
  <2>4. PICK j \in Stored : LastEnd = trips[j].end
    BY <1>3, <2>3
  <2>5. trips[p].end = LastEnd
    <3>1. trips[p].end <= trips[j].end /\ trips[j].end <= trips[p].end
      BY <1>3, <2>1, <2>2, <2>4
    <3>. QED BY <1>4, <2>1, <2>4, <3>1
  <2>. QED BY <1>1, <1>6, <2>5 DEF PrevEnd
<1>. QED BY <1>5, <1>6
-----------------------------------------------------------------------------
(* The rows of the trips under a step that keeps the drives.               *)
LEMMA KeptFits ==
  ASSUME Kept, NEW f, NEW i, Fits(f, i)
  PROVE  Fits(f, i)'
<1>1. f.of <= driven' /\ (f.of # 0 /\ f.of < i => f.again)
  BY DEF Fits, Kept
<1>2. ASSUME f.of > i, f.of \in Stored', i \in Stored', f.km # 0
      PROVE  trips'[f.of].km = trips'[i].km
  BY <1>2 DEF Fits, Kept
<1>. QED BY <1>1, <1>2 DEF Fits

LEMMA KeptFigures ==
  ASSUME Figures, Kept, Shows', pending' \subseteq 1..driven,
         \A h \in healing' : h \in healing \/ (h.id <= driven /\ Fits(h.figure, h.id)),
         \A i \in Stored' : trips'[i].source = "vehicle" =>
           \/ trips[i].source = "vehicle" /\ trips'[i].figure = trips[i].figure
           \/ Fits(trips'[i].figure, i)
  PROVE  Figures'
<1>1. \A f, i : Fits(f, i) => Fits(f, i)'
  BY KeptFits
<1>2. pending' \subseteq 1..driven'
  BY DEF Kept
<1>3. \A h \in healing' : h.id <= driven' /\ Fits(h.figure, h.id)'
  BY <1>1 DEF Figures, Kept
<1>4. \A i \in Stored' : trips'[i].source = "vehicle" =>
        \E f : f = trips'[i].figure /\ Fits(f, i)'
  <2>. SUFFICES ASSUME NEW i \in Stored', trips'[i].source = "vehicle"
                PROVE  \E f : f = trips'[i].figure /\ Fits(f, i)'
    OBVIOUS
  <2>1. i \in Stored
    BY DEF Kept
  <2>2. Fits(trips'[i].figure, i)
    BY <2>1 DEF Figures
  <2>. QED BY <1>1, <2>2
<1>5. \A h \in healing' : (h.id <= driven /\ Fits(h.figure, h.id))'
  BY <1>3
<1>6. \A i \in Stored' : trips'[i].source = "vehicle" => Fits(trips[i].figure, i)'
  BY <1>4
<1>. QED BY <1>2, <1>5, <1>6 DEF Figures

\* The sensor left as it was.
LEMMA KeptShows ==
  ASSUME Shows, Kept, sensor' = sensor
  PROVE  Shows'
BY DEF Shows, Kept

\* The sensor published again.
LEMMA AgainShows ==
  ASSUME TypeOK, Shows, Kept, sensor' = Republished
  PROVE  Shows'
<1>1. /\ sensor'.kwh = sensor.kwh /\ sensor'.figure.of = sensor.figure.of
      /\ sensor'.figure.km = sensor.figure.km /\ sensor'.figure.again
  BY RepublishedIs
<1>. QED BY <1>1 DEF Shows, Kept

LEMMA KeptLabels ==
  ASSUME Labelled, byHand \subseteq byHand', Stored' \subseteq Stored,
         \A i \in Stored' \ byHand' : Claims(trips[i]) => Claims(trips'[i])
  PROVE  Labelled'
<1>1. \A i \in Stored' \ byHand' : Claims(trips'[i])
  BY DEF Labelled
<1>. QED BY <1>1 DEF Labelled

LEMMA KeptAsClosed ==
  ASSUME TypeOK, TypeOK', AsClosed, Kept,
         asClosed' \subseteq asClosed,
         \A i \in asClosed' :
           /\ trips'[i] = trips[i]
           /\ \A j \in Ids : j < i => (j \in Stored' <=> j \in Stored)
           /\ CreditAmong(charges', trips[i]) = CreditAmong(charges, trips[i])
           /\ BeforeAmong(charges', PrevEnd(i), trips[i])
                = BeforeAmong(charges, PrevEnd(i), trips[i])
  PROVE  AsClosed'
<1>. SUFFICES ASSUME NEW i \in asClosed'
              PROVE  /\ trips'[i].during = CreditAmong(charges', trips'[i])
                     /\ trips'[i].before = BeforeAmong(charges', PrevEnd(i)', trips'[i])
                     /\ Settled(trips'[i])
  BY DEF AsClosed
<1>1. i \in asClosed /\ i \in Ids
  BY DEF TypeOK, Stored
<1>2. PrevEnd(i)' = PrevEnd(i)
  BY <1>1, PrevKept DEF Kept
<1>3. /\ trips[i].during = CreditAmong(charges, trips[i])
      /\ trips[i].before = BeforeAmong(charges, PrevEnd(i), trips[i])
      /\ Settled(trips[i])
  BY <1>1 DEF AsClosed
<1>. QED BY <1>1, <1>2, <1>3
-----------------------------------------------------------------------------
(* The charges that come and go.                                           *)
LEMMA Untouched ==
  ASSUME TypeOK, NEW c \in Charges, NEW i \in Stored, i \notin Touches(c)
  PROVE  Credited(c, trips[i]) = 0 /\ ~(c.end <= trips[i].start + Tolerance)
<1>1. PICK r : r = trips[i] /\ r \in Row
  BY StoredRow
<1>2. PICK a, b \in Nat : a = r.end /\ b = r.start + Tolerance
  BY <1>1, RowType, ConstantsAssumption
<1>3. c.end \in Nat
  BY ConstantsAssumption DEF Charge
<1>4. ~(c.end <= Max({a, b}))
  BY <1>1, <1>2 DEF Touches
<1>5. Max({a, b}) \in {a, b} /\ \A x \in {a, b} : x <= Max({a, b})
  <2>1. {a, b} \subseteq Int /\ {a, b} # {} /\ a + b \in Int
        /\ \A x \in {a, b} : x <= a + b
    BY <1>2
  <2>. QED BY <2>1, BoundedMax
<1>6. ~(c.end <= a) /\ ~(c.end <= b)
  BY <1>2, <1>3, <1>4, <1>5
<1>7. Credited(c, r) = 0
  BY <1>2, <1>6, CreditedInside
<1>. QED BY <1>1, <1>2, <1>6, <1>7

LEMMA BeforeKept ==
  ASSUME NEW C, NEW c, NEW p, NEW r, ~(c.end <= r.start + Tolerance)
  PROVE  BeforeAmong(C \cup {c}, p, r) = BeforeAmong(C, p, r)
<1>1. Between(C \cup {c}, p, r) = Between(C, p, r)
  BY DEF Between
<1>. QED BY <1>1 DEF BeforeAmong

LEMMA ChargesAsClosed ==
  ASSUME TypeOK, TypeOK', IsFiniteSet(charges), IsFiniteSet(charges'), AsClosed,
         NEW c \in Charges,
         \/ c \notin charges /\ charges' = charges \cup {c}
         \/ c \in charges /\ charges' = charges \ {c},
         asClosed' = asClosed \ Touches(c),
         trips' = trips, driven' = driven, now' = now
  PROVE  AsClosed'
<1>1. Stored' = Stored
  BY DEF Stored
<1>2. Kept
  BY <1>1, ConstantsAssumption DEF Kept, TypeOK
<1>3. ASSUME NEW i \in asClosed'
      PROVE  /\ CreditAmong(charges', trips[i]) = CreditAmong(charges, trips[i])
             /\ BeforeAmong(charges', PrevEnd(i), trips[i])
                  = BeforeAmong(charges, PrevEnd(i), trips[i])
  <2>1. i \in Stored /\ i \notin Touches(c)
    BY <1>3 DEF TypeOK
  <2>2. Credited(c, trips[i]) = 0 /\ ~(c.end <= trips[i].start + Tolerance)
    BY <2>1, Untouched
  <2>3. PICK r : r = trips[i] /\ r \in Row
    BY <2>1, StoredRow
  <2>4. PICK p : p = PrevEnd(i)
    OBVIOUS
  <2>5. CASE c \notin charges /\ charges' = charges \cup {c}
    <3>1. CreditAmong(charges \cup {c}, r) = CreditAmong(charges, r)
      BY <2>2, <2>3, <2>5, CreditKept DEF TypeOK
    <3>2. BeforeAmong(charges \cup {c}, p, r) = BeforeAmong(charges, p, r)
      BY <2>2, <2>3, BeforeKept
    <3>. QED BY <2>3, <2>4, <2>5, <3>1, <3>2
  <2>6. CASE c \in charges /\ charges' = charges \ {c}
    <3>1. PICK C : C = charges' /\ c \notin C /\ charges = C \cup {c}
                   /\ C \subseteq Charges /\ IsFiniteSet(C)
      BY <2>6 DEF TypeOK
    <3>2. CreditAmong(C \cup {c}, r) = CreditAmong(C, r)
      BY <2>2, <2>3, <3>1, CreditKept
    <3>3. BeforeAmong(C \cup {c}, p, r) = BeforeAmong(C, p, r)
      BY <2>2, <2>3, BeforeKept
    <3>. QED BY <2>3, <2>4, <3>1, <3>2, <3>3
  <2>. QED BY <2>5, <2>6
<1>4. \A i \in asClosed' : \A j \in Ids : j < i => (j \in Stored' <=> j \in Stored)
  BY <1>1
<1>5. asClosed' \subseteq asClosed /\ \A i \in asClosed' : trips'[i] = trips[i]
  OBVIOUS
<1>. QED BY <1>2, <1>3, <1>4, <1>5, KeptAsClosed
-----------------------------------------------------------------------------
(* What each step keeps.                                                   *)
IInvNext == Windows' /\ Labelled' /\ Figures' /\ AsClosed'

LEMMA SameRows ==
  ASSUME IInv, trips' = trips, driven' = driven, TypeOK'
  PROVE  /\ Stored' = Stored
         /\ now' >= now => Kept /\ Windows'
         /\ byHand' = byHand => Labelled'
<1>1. Stored' = Stored
  BY DEF Stored
<1>2. ASSUME now' >= now PROVE Kept
  BY <1>1, <1>2 DEF Kept
<1>3. ASSUME now' >= now PROVE Windows'
  BY <1>2, <1>3, KeptWindows DEF IInv
<1>4. ASSUME byHand' = byHand PROVE Labelled'
  BY <1>1, <1>4, KeptLabels DEF IInv
<1>. QED BY <1>1, <1>2, <1>3, <1>4

\* Where also the charges stay.
LEMMA SameCharges ==
  ASSUME IInv, trips' = trips, driven' = driven, charges' = charges,
         asClosed' = asClosed, now' >= now, TypeOK'
  PROVE  AsClosed'
<1>1. Kept /\ Stored' = Stored
  BY SameRows
<1>2. \A i \in asClosed' :
        /\ trips'[i] = trips[i]
        /\ \A j \in Ids : j < i => (j \in Stored' <=> j \in Stored)
        /\ CreditAmong(charges', trips[i]) = CreditAmong(charges, trips[i])
        /\ BeforeAmong(charges', PrevEnd(i), trips[i])
             = BeforeAmong(charges, PrevEnd(i), trips[i])
  BY <1>1
<1>3. asClosed' \subseteq asClosed /\ TypeOK /\ AsClosed
  BY DEF IInv
<1>. QED BY <1>1, <1>2, <1>3, KeptAsClosed

LEMMA NowIs ==
  ASSUME TypeOK
  PROVE  now \in Nat /\ now >= now
BY ConstantsAssumption DEF TypeOK

\* A step that keeps the rows, the sensor and the heals in flight.
LEMMA SameFigures ==
  ASSUME IInv, Kept, sensor' = sensor, pending' = pending,
         healing' \subseteq healing,
         \A i \in Stored' : trips'[i].source = "vehicle" =>
           trips[i].source = "vehicle" /\ trips'[i].figure = trips[i].figure
  PROVE  Figures'
<1>1. pending' \subseteq 1..driven /\ Shows'
  BY KeptShows DEF IInv, Figures
<1>. QED BY <1>1, KeptFigures DEF IInv

LEMMA TickKeeps ==
  ASSUME IInv, TypeOK', Tick
  PROVE  IInvNext
<1>1. now' >= now
  BY NowIs DEF IInv, Tick
<1>2. Kept /\ Windows' /\ Labelled' /\ Stored' = Stored
  BY <1>1, SameRows DEF Tick
<1>3. Figures'
  BY <1>2, SameFigures DEF Tick
<1>4. AsClosed'
  BY <1>1, SameCharges DEF Tick
<1>. QED BY <1>2, <1>3, <1>4 DEF IInvNext

LEMMA ChargeKeeps ==
  ASSUME IInv, TypeOK', IsFiniteSet(charges'),
         NEW c \in Charges, LogCharge(c) \/ DeleteCharge(c)
  PROVE  IInvNext
<1>1. /\ \/ c \notin charges /\ charges' = charges \cup {c}
         \/ c \in charges /\ charges' = charges \ {c}
      /\ asClosed' = asClosed \ Touches(c)
      /\ UNCHANGED <<now, trips, driven, sensor, pending, healing, byHand>>
  BY DEF LogCharge, DeleteCharge
<1>2. now' >= now
  BY <1>1, NowIs DEF IInv
<1>3. Kept /\ Windows' /\ Labelled' /\ Stored' = Stored
  BY <1>1, <1>2, SameRows
<1>4. Figures'
  BY <1>1, <1>3, SameFigures
<1>5. AsClosed'
  BY <1>1, ChargesAsClosed DEF IInv
<1>. QED BY <1>3, <1>4, <1>5 DEF IInvNext

\* A step that only moves the sensor.
LEMMA SensorKeeps ==
  ASSUME IInv, TypeOK', Shows',
         UNCHANGED <<now, trips, driven, charges, pending, healing, asClosed, byHand>>
  PROVE  IInvNext
<1>1. now' >= now
  BY NowIs DEF IInv
<1>2. Kept /\ Windows' /\ Labelled' /\ Stored' = Stored
  BY <1>1, SameRows
<1>3. AsClosed'
  BY <1>1, SameCharges
<1>4. Figures'
  BY <1>2, KeptFigures DEF IInv, Figures
<1>. QED BY <1>2, <1>3, <1>4 DEF IInvNext

LEMMA CarReportsKeeps ==
  ASSUME IInv, TypeOK', NEW of \in 0..MaxTrips, NEW kwh \in Energies,
         NEW km \in Distances \cup {0}, CarReports(of, kwh, km)
  PROVE  IInvNext
<1>1. UNCHANGED <<now, trips, driven, charges, pending, healing, asClosed, byHand>>
  BY DEF CarReports
<1>2. Stored' = Stored
  BY <1>1 DEF Stored
<1>3. /\ sensor'.figure.of = of /\ sensor'.figure.km = km
      /\ of # 0 => of = driven /\ of \in Stored /\ km \in {0, trips[of].km}
  BY DEF CarReports
<1>4. \A i \in Stored : i <= driven /\ driven \in Nat /\ i \in Int
  BY DEF IInv, Windows, TypeOK
<1>5. of <= driven
  BY <1>3 DEF IInv, TypeOK
<1>6. of # 0 => \A i \in Stored : ~(of < i)
  BY <1>3, <1>4
<1>7. Shows'
  BY <1>1, <1>2, <1>3, <1>5, <1>6 DEF Shows
<1>. QED BY <1>1, <1>7, SensorKeeps

LEMMA CarReturnsKeeps ==
  ASSUME IInv, TypeOK', CarReturns
  PROVE  IInvNext
<1>1. /\ UNCHANGED <<now, trips, driven, charges, pending, healing, asClosed, byHand>>
      /\ sensor' = Republished
  BY DEF CarReturns
<1>2. Kept
  BY <1>1, NowIs, SameRows DEF IInv
<1>3. Shows'
  BY <1>1, <1>2, AgainShows DEF IInv, Figures
<1>. QED BY <1>1, <1>3, SensorKeeps

LEMMA HealFiresKeeps ==
  ASSUME IInv, TypeOK', NEW i \in Ids, HealFires(i)
  PROVE  IInvNext
<1>1. UNCHANGED <<now, trips, driven, charges, sensor, asClosed, byHand>>
  BY DEF HealFires
<1>2. now' >= now
  BY <1>1, NowIs DEF IInv
<1>3. Kept /\ Windows' /\ Labelled' /\ Stored' = Stored
  BY <1>1, <1>2, SameRows
<1>4. AsClosed'
  BY <1>1, <1>2, SameCharges
<1>5. i <= driven /\ pending' \subseteq 1..driven
  <2>1. i \in pending /\ pending' \subseteq pending
    BY DEF HealFires
  <2>2. pending \subseteq 1..driven /\ driven \in Int
    BY DEF IInv, Figures, TypeOK
  <2>. QED BY <2>1, <2>2
<1>6. ASSUME i \in Stored, RefersTo(trips[i])
      PROVE  Fits(sensor.figure, i)
  <2>1. /\ sensor.kwh > 0 /\ ~(sensor.changed < trips[i].end)
        /\ sensor.figure.km \in {0, trips[i].km}
    <3>1. trips[i].end \in Int /\ sensor.changed \in Int
      BY <1>6, StoredRow, RowType DEF IInv, TypeOK
    <3>. QED BY <1>6, <3>1 DEF RefersTo
  <2>2. sensor.figure.of \in Nat /\ i \in Nat
    BY ConstantsAssumption DEF IInv, TypeOK, Figure
  <2>3. Shows
    BY DEF IInv, Figures
  <2>. QED BY <1>6, <2>1, <2>2, <2>3 DEF Shows, Fits
<1>7. \A h \in healing' : h \in healing \/ (h.id <= driven /\ Fits(h.figure, h.id))
  <2>. SUFFICES ASSUME NEW h \in healing', h \notin healing
                PROVE  h.id <= driven /\ Fits(h.figure, h.id)
    OBVIOUS
  <2>1. /\ i \in Stored /\ RefersTo(trips[i])
        /\ h = [id |-> i, kwh |-> sensor.kwh, figure |-> sensor.figure]
    BY DEF HealFires
  <2>. QED BY <1>5, <1>6, <2>1
<1>8. Figures'
  <2>1. Shows'
    BY <1>1, <1>3, KeptShows DEF IInv, Figures
  <2>. QED BY <1>1, <1>3, <1>5, <1>7, <2>1, KeptFigures DEF IInv
<1>. QED BY <1>3, <1>4, <1>8 DEF IInvNext

LEMMA RestartKeeps ==
  ASSUME IInv, TypeOK', Restart
  PROVE  IInvNext
<1>1. /\ UNCHANGED <<now, trips, driven, charges, asClosed, byHand>>
      /\ sensor' \in {sensor, Republished}
      /\ healing' = {} /\ pending' \subseteq Stored
  BY DEF Restart
<1>2. now' >= now
  BY <1>1, NowIs DEF IInv
<1>3. Kept /\ Windows' /\ Labelled' /\ Stored' = Stored
  BY <1>1, <1>2, SameRows
<1>4. AsClosed'
  BY <1>1, <1>2, SameCharges
<1>5. pending' \subseteq 1..driven
  BY <1>1 DEF IInv, Windows
<1>6. Figures'
  <2>1. Shows'
    BY <1>1, <1>3, KeptShows, AgainShows DEF IInv, Figures
  <2>. QED BY <1>1, <1>3, <1>5, <2>1, KeptFigures DEF IInv
<1>. QED BY <1>3, <1>4, <1>6 DEF IInvNext

\* A row of the table patched by the user: it is his from now on.
LEMMA PatchKeeps ==
  ASSUME IInv, TypeOK', NEW i \in Stored, NEW r \in Row, Patch(i, r),
         byHand' = byHand \cup {i}, SameDrive(trips[i], r),
         r.source = trips[i].source
  PROVE  IInvNext
<1>1. /\ trips' = [trips EXCEPT ![i] = r] /\ asClosed' = asClosed \ {i}
      /\ UNCHANGED <<now, driven, charges, sensor, pending, healing>>
  BY DEF Patch
<1>2. /\ Stored' = Stored /\ trips'[i] = r
      /\ \A j \in Stored : j # i => trips'[j] = trips[j]
  BY <1>1, PatchRow DEF IInv
<1>3. now' >= now
  BY <1>1, NowIs DEF IInv
<1>4. Kept
  BY <1>1, <1>2, <1>3 DEF Kept, SameDrive
<1>5. Windows'
  BY <1>4, KeptWindows DEF IInv
<1>6. Labelled'
  BY <1>2, KeptLabels DEF IInv
<1>7. Figures'
  BY <1>1, <1>2, <1>4, SameFigures DEF SameDrive
<1>8. AsClosed'
  <2>1. asClosed' \subseteq asClosed /\ asClosed \subseteq Stored
    BY <1>1 DEF IInv, TypeOK
  <2>2. \A j \in asClosed' : trips'[j] = trips[j]
    BY <1>1, <1>2, <2>1
  <2>. QED BY <1>1, <1>2, <1>4, <2>1, <2>2, KeptAsClosed DEF IInv
<1>. QED BY <1>5, <1>6, <1>7, <1>8 DEF IInvNext

LEMMA SetTripEnergyKeeps ==
  ASSUME IInv, NEW i \in Ids, NEW e \in Energies, SetTripEnergy(i, e)
  PROVE  TypeOK' /\ IInvNext
<1>. DEFINE r == [trips[i] EXCEPT !.energy = e, !.published = TRUE, !.locked = TRUE]
<1>1. TypeOK' /\ i \in Stored /\ r \in Row
  BY SetTripEnergyType DEF IInv
<1>2. trips[i] \in Row
  BY <1>1, StoredRow DEF IInv
<1>3. SameDrive(trips[i], r) /\ r.source = trips[i].source
  BY <1>2 DEF Row, SameDrive
<1>4. Patch(i, r) /\ byHand' = byHand \cup {i}
  BY DEF SetTripEnergy
<1>. HIDE DEF r
<1>. QED BY <1>1, <1>3, <1>4, PatchKeeps

LEMMA SetTripSocKeeps ==
  ASSUME IInv, NEW i \in Ids, NEW soc \in 0..FullSoc, SetTripSoc(i, soc)
  PROVE  TypeOK' /\ IInvNext
<1>. DEFINE r == [trips[i] EXCEPT !.socStart = soc]
<1>1. TypeOK' /\ i \in Stored /\ r \in Row
  BY SetTripSocType DEF IInv
<1>2. trips[i] \in Row
  BY <1>1, StoredRow DEF IInv
<1>3. SameDrive(trips[i], r) /\ r.source = trips[i].source
  BY <1>2 DEF Row, SameDrive
<1>4. Patch(i, r) /\ byHand' = byHand \cup {i}
  BY DEF SetTripSoc
<1>. HIDE DEF r
<1>. QED BY <1>1, <1>3, <1>4, PatchKeeps

LEMMA DeleteTripKeeps ==
  ASSUME IInv, NEW i \in Ids, DeleteTrip(i)
  PROVE  TypeOK' /\ IInvNext
<1>1. /\ TypeOK' /\ Stored' = Stored \ {i}
      /\ \A j \in Stored' : trips'[j] = trips[j]
  BY DeleteTripType DEF IInv
<1>2. /\ asClosed' = {j \in asClosed : j < i}
      /\ UNCHANGED <<now, driven, charges, sensor, pending, healing, byHand>>
  BY DEF DeleteTrip
<1>3. now' >= now
  BY <1>2, NowIs DEF IInv
<1>4. Kept
  BY <1>1, <1>2, <1>3 DEF Kept
<1>5. Windows'
  BY <1>1, <1>4, KeptWindows DEF IInv
<1>6. Labelled'
  BY <1>1, <1>2, KeptLabels DEF IInv
<1>7. Figures'
  BY <1>1, <1>2, <1>4, SameFigures
<1>8. AsClosed'
  <2>1. /\ asClosed' \subseteq asClosed /\ asClosed' \subseteq Stored'
        /\ Stored \subseteq Ids /\ Ids \subseteq Int
    BY <1>1, <1>2, StoredRow DEF IInv, TypeOK
  <2>2. \A j \in asClosed' : j < i /\ j \in Int
    <3>1. \A j \in asClosed' : j < i
      BY <1>2
    <3>2. \A j \in asClosed' : j \in Int
      <4>. HIDE DEF Ids
      <4>. QED BY <1>1, <2>1
    <3>. QED BY <3>1, <3>2
  <2>3. \A j \in asClosed' : \A k \in Ids : k < j => (k \in Stored' <=> k \in Stored)
    <3>1. ASSUME NEW j \in asClosed', NEW k \in Ids, k < j
          PROVE  k # i
      <4>1. k \in Int /\ i \in Int
        BY <2>1
      <4>. QED BY <2>2, <3>1, <4>1
    <3>. QED BY <1>1, <3>1
  <2>. QED BY <1>1, <1>2, <1>4, <2>1, <2>3, KeptAsClosed DEF IInv
<1>. QED BY <1>1, <1>5, <1>6, <1>7, <1>8 DEF IInvNext

LEMMA HealWritesKeeps ==
  ASSUME IInv, NEW h \in healing, HealWrites(h)
  PROVE  TypeOK' /\ IInvNext
<1>1. /\ TypeOK' /\ Stored' = Stored
      /\ \A j \in Stored : j # h.id => trips'[j] = trips[j]
      /\ h.id \in Stored => trips'[h.id] = HealedByCar(h) /\ HealedByCar(h) \in Row
  BY HealWritesType DEF IInv
<1>2. /\ asClosed' = asClosed \ {h.id} /\ healing' \subseteq healing
      /\ UNCHANGED <<now, driven, charges, sensor, pending, byHand>>
  BY DEF HealWrites
<1>3. now' >= now
  BY <1>2, NowIs DEF IInv
<1>4. h.id \in Stored =>
        /\ HealedByCar(h).start = trips[h.id].start
        /\ HealedByCar(h).end = trips[h.id].end
        /\ HealedByCar(h).km = trips[h.id].km
        /\ HealedByCar(h).source = "vehicle"
        /\ HealedByCar(h).figure = h.figure
  <2>1. h.id \in Stored => trips[h.id] \in Row
    BY StoredRow DEF IInv
  <2>. QED BY <2>1 DEF Row, HealedByCar
<1>5. Kept
  BY <1>1, <1>2, <1>3, <1>4 DEF Kept
<1>6. Windows'
  BY <1>1, <1>5, KeptWindows DEF IInv
<1>7. Labelled'
  <2>1. \A i \in Stored : Claims(trips[i]) => Claims(trips'[i])
    BY <1>1, <1>4 DEF Claims
  <2>. QED BY <1>1, <1>2, <2>1, KeptLabels DEF IInv
<1>8. Figures'
  <2>1. Fits(h.figure, h.id)
    BY DEF IInv, Figures
  <2>2. pending' \subseteq 1..driven
    BY <1>2 DEF IInv, Figures
  <2>3. \A i \in Stored' : trips'[i].source = "vehicle" =>
           \/ trips[i].source = "vehicle" /\ trips'[i].figure = trips[i].figure
           \/ Fits(trips'[i].figure, i)
    BY <1>1, <1>4, <2>1
  <2>4. Shows'
    BY <1>2, <1>5, KeptShows DEF IInv, Figures
  <2>. QED BY <1>2, <1>5, <2>2, <2>3, <2>4, KeptFigures DEF IInv
<1>9. AsClosed'
  <2>1. asClosed' \subseteq asClosed /\ asClosed \subseteq Stored
    BY <1>2 DEF IInv, TypeOK
  <2>2. \A j \in asClosed' : trips'[j] = trips[j]
    BY <1>1, <1>2, <2>1
  <2>. QED BY <1>1, <1>2, <1>5, <2>1, <2>2, KeptAsClosed DEF IInv
<1>. QED BY <1>1, <1>6, <1>7, <1>8, <1>9 DEF IInvNext

LEMMA HealHistoryKeeps ==
  ASSUME IInv, HealHistory
  PROVE  TypeOK' /\ IInvNext
<1>1. TypeOK' /\ Stored' = Stored /\ \A i \in Stored : trips'[i] = Healed(i)
  BY HealHistoryType DEF IInv
<1>2. /\ asClosed' = {i \in asClosed : trips'[i] = trips[i]}
      /\ UNCHANGED <<now, driven, charges, sensor, pending, healing, byHand>>
  BY DEF HealHistory
<1>3. \A i \in Stored :
        /\ SameDrive(trips[i], trips'[i])
        /\ trips'[i].source = "vehicle" => trips[i].source = "vehicle"
        /\ Claims(trips[i]) => Claims(trips'[i])
  BY <1>1, HealedIs DEF IInv
<1>4. Kept
  BY <1>1, <1>2, <1>3, NowIs DEF Kept, SameDrive, IInv
<1>5. Windows'
  BY <1>1, <1>4, KeptWindows DEF IInv
<1>6. Labelled'
  BY <1>1, <1>2, <1>3, KeptLabels DEF IInv
<1>7. Figures'
  BY <1>1, <1>2, <1>3, <1>4, SameFigures DEF SameDrive
<1>8. AsClosed'
  BY <1>1, <1>2, <1>4, KeptAsClosed DEF IInv
<1>. QED BY <1>1, <1>5, <1>6, <1>7, <1>8 DEF IInvNext

LEMMA CloseKeeps ==
  ASSUME IInv, NEW start \in Instants, NEW socs \in TripSocs, NEW km \in Distances,
         NEW meter \in Meters, Close(start, socs, km, meter)
  PROVE  TypeOK' /\ IInvNext
<1>1. TypeOK /\ IsFiniteSet(charges) /\ Windows /\ Labelled /\ Figures /\ AsClosed
  BY DEF IInv
<1>2. PICK i, r : i = driven + 1 /\ r = ClosedRow(start, socs, km, meter)
  OBVIOUS
<1>3. /\ TypeOK' /\ Stored' = Stored \cup {i} /\ i \in Ids /\ i \notin Stored
      /\ trips'[i] = r /\ \A j \in Stored : trips'[j] = trips[j]
  BY <1>2, CloseType
<1>4. /\ r \in Row /\ r.end = now /\ r.source # "vehicle"
      /\ Claims(r) /\ Settled(r)
      /\ r.during = CreditAmong(charges, r)
      /\ r.before = BeforeAmong(charges, LastEnd, r)
  BY <1>1, <1>2, ClosedRowIs
<1>5. /\ sensor.kwh > 0 => sensor.changed < now
      /\ driven' = i /\ asClosed' = asClosed \cup {i} /\ pending' = pending \cup {i}
      /\ UNCHANGED <<now, charges, sensor, healing, byHand, edits>>
  BY <1>2 DEF Close
<1>6. driven \in Nat /\ i \in Nat /\ i > driven
  BY <1>1, <1>2 DEF TypeOK
<1>7. Windows'
  BY CloseWindows
<1>8. Labelled'
  BY <1>1, <1>3, <1>4, <1>5 DEF Labelled
<1>9. ASSUME NEW f \in Figure, NEW j \in 1..driven, Fits(f, j)
      PROVE  Fits(f, j)'
  <2>1. f.of \in Nat /\ f.of <= driven /\ j \in Nat /\ j <= driven
    BY <1>6, <1>9, ConstantsAssumption DEF Fits, Figure
  <2>2. f.of <= driven' /\ f.of # i /\ j # i
    BY <1>5, <1>6, <2>1
  <2>3. /\ f.of # 0 /\ f.of < j => f.again
        /\ f.of > j /\ f.of \in Stored /\ j \in Stored /\ f.km # 0 =>
             trips[f.of].km = trips[j].km
    BY <1>9 DEF Fits
  <2>4. f.of > j /\ f.of \in Stored' /\ j \in Stored' /\ f.km # 0 =>
             trips'[f.of].km = trips'[j].km
    BY <1>3, <2>2, <2>3
  <2>. QED BY <2>2, <2>3, <2>4 DEF Fits
<1>10. Figures'
  <2>1. pending' \subseteq 1..driven'
    <3>1. pending \subseteq 1..driven
      BY <1>1 DEF Figures
    <3>. QED BY <1>5, <1>6, <3>1
  <2>2. Shows'
    <3>1. /\ sensor.figure.of <= driven /\ sensor.figure.of <= driven'
          /\ sensor.figure.of # i
      <4>1. sensor.figure.of \in Nat
        BY <1>1, ConstantsAssumption DEF TypeOK, Figure
      <4>2. sensor.figure.of <= driven
        BY <1>1 DEF Figures, Shows
      <4>. QED BY <1>5, <1>6, <4>1, <4>2
    <3>2. sensor.kwh > 0 => sensor.changed < trips'[i].end
      BY <1>3, <1>4, <1>5
    <3>. QED BY <1>1, <1>3, <1>5, <3>1, <3>2 DEF Figures, Shows
  <2>3. \A h \in healing' : (h.id <= driven /\ Fits(h.figure, h.id))'
    <3>. SUFFICES ASSUME NEW h \in healing
                  PROVE  h.id <= driven' /\ Fits(h.figure, h.id)'
      BY <1>5
    <3>1. h.id \in 1..driven /\ h.figure \in Figure /\ Fits(h.figure, h.id)
      BY <1>1, <1>6, ConstantsAssumption DEF Figures, TypeOK, Heal
    <3>. QED BY <1>5, <1>6, <1>9, <3>1
  <2>4. ASSUME NEW j \in Stored', trips'[j].source = "vehicle"
        PROVE  \E f : f = trips'[j].figure /\ Fits(f, j)'
    <3>1. j \in Stored /\ trips'[j] = trips[j]
      BY <1>3, <1>4, <2>4
    <3>2. Fits(trips[j].figure, j) /\ trips[j].figure \in Figure /\ j \in 1..driven
      BY <1>1, <2>4, <3>1, StoredRow, RowType DEF Figures, Windows
    <3>. QED BY <1>9, <3>1, <3>2
  <2>5. \A j \in Stored' : trips'[j].source = "vehicle" => Fits(trips[j].figure, j)'
    BY <2>4
  <2>. QED BY <2>1, <2>2, <2>3, <2>5 DEF Figures
<1>11. AsClosed'
  <2>1. \A j \in Stored : j < i /\ j \in Int
    BY <1>1, <1>6 DEF Windows
  <2>2. PrevEnd(i)' = LastEnd
    <3>1. PrevEnd(i) = LastEnd
      BY <1>1, <1>3, <2>1, ClosedPrev
    <3>2. PrevEnd(i)' = PrevEnd(i)
      <4>1. \A j \in Ids : j < i => (j \in Stored' <=> j \in Stored)
        BY <1>3, <1>6
      <4>2. \A j \in Stored' : j < i => trips'[j].end = trips[j].end
        BY <1>3, <1>6
      <4>. QED BY <1>1, <1>3, <4>1, <4>2, PrevKept
    <3>. QED BY <3>1, <3>2
  <2>3. ASSUME NEW j \in asClosed PROVE PrevEnd(j)' = PrevEnd(j)
    <3>1. j \in Stored /\ j \in Ids /\ j < i /\ j \in Int
      BY <1>1, <2>1, StoredRow DEF TypeOK
    <3>2. \A k \in Ids : k < j => (k \in Stored' <=> k \in Stored)
      <4>1. ASSUME NEW k \in Ids, k < j PROVE k # i
        <5>1. k \in Int /\ i \in Int
          BY <1>1, <1>6, StoredRow
        <5>. QED BY <3>1, <4>1, <5>1
      <4>. QED BY <1>3, <4>1
    <3>3. \A k \in Stored' : k < j => trips'[k].end = trips[k].end
      <4>1. ~(i < j)
        BY <1>6, <3>1
      <4>. QED BY <1>3, <4>1
    <3>. QED BY <1>1, <1>3, <3>1, <3>2, <3>3, PrevKept
  <2>. SUFFICES ASSUME NEW j \in asClosed'
                PROVE  /\ trips'[j].during = CreditAmong(charges', trips'[j])
                       /\ trips'[j].before = BeforeAmong(charges', PrevEnd(j)', trips'[j])
                       /\ Settled(trips'[j])
    BY DEF AsClosed
  <2>4. CASE j = i
    BY <1>3, <1>4, <1>5, <2>2, <2>4
  <2>5. CASE j \in asClosed
    <3>1. j \in Stored
      BY <1>1, <2>5 DEF TypeOK
    <3>. QED BY <1>1, <1>3, <1>5, <2>3, <2>5, <3>1 DEF AsClosed
  <2>. QED BY <1>5, <2>4, <2>5
<1>. QED BY <1>3, <1>7, <1>8, <1>10, <1>11 DEF IInvNext
-----------------------------------------------------------------------------
LEMMA InvariantInit == Init => IInv
<1>. SUFFICES ASSUME Init PROVE IInv
  OBVIOUS
<1>1. TypeOK /\ IsFiniteSet(charges)
  BY TypeInit
<1>2. Stored = {}
  BY DEF Init, Stored
<1>3. Windows /\ Labelled /\ AsClosed
  BY <1>2 DEF Init, Windows, Labelled, AsClosed
<1>4. Figures
  <2>1. sensor.kwh = 0 /\ sensor.figure.of = 0 /\ driven = 0
    BY DEF Init, NoFigure
  <2>. QED BY <1>2, <2>1 DEF Init, Figures, Shows
<1>. QED BY <1>1, <1>3, <1>4 DEF IInv

LEMMA InvariantStep == IInv /\ [Next]_vars => IInv'
<1>. SUFFICES ASSUME IInv, [Next]_vars PROVE IInv'
  OBVIOUS
<1>0. IsFiniteSet(charges') /\ TypeOK
  BY ChargesFinite DEF IInv
<1>. SUFFICES TypeOK' /\ IInvNext
  BY <1>0 DEF IInv, IInvNext
<1>1. CASE Tick
  BY <1>0, <1>1, OtherType, TickKeeps
<1>2. ASSUME NEW start \in Instants, NEW socs \in TripSocs, NEW km \in Distances,
             NEW meter \in Meters, Close(start, socs, km, meter)
      PROVE  TypeOK' /\ IInvNext
  BY <1>2, CloseKeeps
<1>3. ASSUME NEW c \in Charges, LogCharge(c) \/ DeleteCharge(c)
      PROVE  TypeOK' /\ IInvNext
  <2>1. TypeOK'
    BY <1>0, <1>3, OtherType
  <2>. QED BY <1>0, <1>3, <2>1, ChargeKeeps
<1>4. ASSUME NEW i \in Ids, NEW e \in Energies, SetTripEnergy(i, e)
      PROVE  TypeOK' /\ IInvNext
  BY <1>4, SetTripEnergyKeeps
<1>5. ASSUME NEW i \in Ids, NEW soc \in 0..FullSoc, SetTripSoc(i, soc)
      PROVE  TypeOK' /\ IInvNext
  BY <1>5, SetTripSocKeeps
<1>6. ASSUME NEW i \in Ids, DeleteTrip(i)
      PROVE  TypeOK' /\ IInvNext
  BY <1>6, DeleteTripKeeps
<1>7. ASSUME NEW i \in Ids, HealFires(i)
      PROVE  TypeOK' /\ IInvNext
  <2>1. TypeOK'
    BY <1>0, <1>7, OtherType
  <2>. QED BY <1>7, <2>1, HealFiresKeeps
<1>8. ASSUME NEW of \in 0..MaxTrips, NEW kwh \in Energies,
             NEW km \in Distances \cup {0}, CarReports(of, kwh, km)
      PROVE  TypeOK' /\ IInvNext
  <2>1. TypeOK'
    BY <1>0, <1>8, OtherType
  <2>. QED BY <1>8, <2>1, CarReportsKeeps
<1>9. ASSUME NEW h \in healing, HealWrites(h)
      PROVE  TypeOK' /\ IInvNext
  BY <1>9, HealWritesKeeps
<1>10. CASE Restart
  BY <1>0, <1>10, OtherType, RestartKeeps
<1>11. CASE HealHistory
  BY <1>11, HealHistoryKeeps
<1>12. CASE CarReturns
  BY <1>0, <1>12, OtherType, CarReturnsKeeps
<1>13. CASE UNCHANGED vars
  <2>1. TypeOK' /\ Stored' = Stored
    BY <1>0, <1>13 DEF vars, TypeOK, Stored
  <2>2. UNCHANGED <<now, trips, driven, charges, sensor, pending, healing,
                    asClosed, byHand>>
    BY <1>13 DEF vars
  <2>3. now' >= now
    BY <1>0, <2>2, NowIs
  <2>4. Kept /\ Windows' /\ Labelled'
    BY <2>1, <2>2, <2>3, SameRows
  <2>5. Figures'
    BY <2>1, <2>2, <2>4, SameFigures
  <2>6. AsClosed'
    BY <2>1, <2>2, <2>3, SameCharges
  <2>. QED BY <2>1, <2>4, <2>5, <2>6 DEF IInvNext
<1>. QED
  BY <1>1, <1>2, <1>3, <1>4, <1>5, <1>6, <1>7, <1>8, <1>9, <1>10, <1>11, <1>12,
     <1>13
     DEF Next

(***************************************************************************)
(* The tables, the timers and the heals in flight hold what they are meant *)
(* to, and the bookkeeping of what is undisturbed is about stored rows.    *)
(***************************************************************************)
THEOREM EnergyTyped == Spec => []TypeOK
<1>1. IInv => TypeOK
  BY DEF IInv
<1>. QED BY InvariantInit, InvariantStep, <1>1, PTL DEF Spec

(***************************************************************************)
(* No charge is credited to the trips for more than it delivered.  The     *)
(* windows of two trips are disjoint, so one of them at most holds the     *)
(* instant the charge ended; that one gets the share its first reading     *)
(* leaves, which heal_history may lower and never takes below nothing.     *)
(***************************************************************************)
THEOREM ChargesCreditedOnce == Spec => []ChargeCreditedOnce
<1>1. ASSUME IInv, NEW c \in charges
      PROVE  SumFunction([i \in Stored |-> Credited(c, trips[i])]) <= c.kwh
  <2>1. c \in Charge /\ c.kwh \in Nat /\ c.end \in Int
    BY <1>1, ConstantsAssumption DEF IInv, TypeOK, Charge
  <2>2. \A i \in Stored : trips[i] \in Row
    BY <1>1, StoredRow DEF IInv
  <2>. DEFINE w == [i \in Stored |-> Credited(c, trips[i])]
  <2>3. \A i \in Stored : w[i] \in Nat /\ w[i] <= c.kwh
    <3>1. \A i \in Stored : Credited(c, trips[i]) \in 0..c.kwh
      BY <2>1, <2>2, CreditedBounds
    <3>. QED BY <2>1, <3>1
  <2>4. \A i, j \in Stored : i = j \/ w[i] = 0 \/ w[j] = 0
    <3>1. ASSUME NEW i \in Stored, NEW j \in Stored, i < j, w[i] # 0, w[j] # 0
          PROVE  FALSE
      <4>1. c.end <= trips[i].end /\ trips[j].start <= c.end
        BY <3>1, CreditedInside
      <4>2. trips[i].end < trips[j].start
        BY <1>1, <3>1 DEF IInv, Windows
      <4>3. trips[i].end \in Int /\ trips[j].start \in Int
        BY <2>2, RowType
      <4>. QED BY <2>1, <4>1, <4>2, <4>3
    <3>2. \A i, j \in Stored : i < j \/ j < i \/ i = j
      BY <1>1, StoredRow DEF IInv
    <3>. QED BY <3>1, <3>2
  <2>5. IsFiniteSet(Stored)
    <3>1. IsFiniteSet(1..MaxTrips) /\ Stored \subseteq 1..MaxTrips
      BY <1>1, ConstantsAssumption, FS_Interval, StoredRow DEF IInv
    <3>. QED BY <3>1, FS_Subset
  <2>6. SumFunction(w) = SumFunctionOnSet(w, Stored)
    BY DEF SumFunction
  <2>. HIDE DEF w
  <2>7. SumFunctionOnSet(w, Stored) <= c.kwh
    BY <2>1, <2>3, <2>4, <2>5, SumOfOne
  <2>. QED BY <2>6, <2>7 DEF w
<1>2. IInv => ChargeCreditedOnce
  BY <1>1 DEF ChargeCreditedOnce
<1>. QED BY InvariantInit, InvariantStep, <1>2, PTL DEF Spec

(***************************************************************************)
(* A row the user left alone that says its energy holds a charge has one   *)
(* inside its window.  Such a row claims more energy than the battery lost *)
(* (Claims), which is why heal_history never takes it for a plain drop of  *)
(* the charge and leaves the label when the charge has gone.               *)
(***************************************************************************)
THEOREM LabelsNeedCharge == Spec => []LabelNeedsCharge
<1>1. IInv => LabelNeedsCharge
  BY DEF IInv, Labelled, Claims, LabelNeedsCharge
<1>. QED BY InvariantInit, InvariantStep, <1>1, PTL DEF Spec

(***************************************************************************)
(* A figure of the car in a row is one of an earlier trip only if it was   *)
(* published again since, and one of a later trip only if as long or of no *)
(* known length: the sensor (Shows), and the heals between their read and  *)
(* their write, hold no other (Figures).                                   *)
(***************************************************************************)
THEOREM VehicleFiguresFit == Spec => []VehicleFigureFits
<1>1. IInv => VehicleFigureFits
  <2>. SUFFICES ASSUME IInv, NEW i \in Stored, NEW f, f = trips[i].figure,
                       trips[i].source = "vehicle", f.of # 0
                PROVE  /\ f.of < i => f.again
                       /\ f.of > i /\ f.of \in Stored /\ f.km # 0 =>
                            trips[f.of].km = trips[i].km
    BY DEF VehicleFigureFits
  <2>1. Fits(f, i)
    BY DEF IInv, Figures
  <2>. QED BY <2>1 DEF Fits
<1>. QED BY InvariantInit, InvariantStep, <1>1, PTL DEF Spec

(***************************************************************************)
(* heal_history makes of an undisturbed row what the close made of it,     *)
(* except where it re-anchors a reading or replaces a figure of the pack   *)
(* meter: both credit a charge alike (CreditedBounds), and what the ladder *)
(* and the correction of the close leave satisfies every rule of the heal  *)
(* already (Settled).                                                      *)
(***************************************************************************)
THEOREM HealsRepeatCloses == Spec => HealRepeatsClose
<1>1. ASSUME IInv, HealHistory, NEW i \in asClosed
      PROVE  \/ trips'[i] = trips[i]
             \/ trips[i].source = "pack_energy"
             \/ Reanchors(i, trips[i])
  <2>1. TypeOK /\ IsFiniteSet(charges) /\ i \in Stored
    BY <1>1 DEF IInv, TypeOK
  <2>2. trips'[i] = Healed(i)
    BY <1>1, <2>1, HealHistoryType
  <2>3. /\ trips[i].during = CreditAmong(charges, trips[i])
        /\ trips[i].before = BeforeAmong(charges, PrevEnd(i), trips[i])
        /\ Settled(trips[i])
    BY <1>1 DEF IInv, AsClosed
  <2>. QED BY <2>1, <2>2, <2>3, HealedIs
<1>2. IInv => (HealHistory =>
        \A i \in asClosed :
          \/ trips'[i] = trips[i]
          \/ trips[i].source = "pack_energy"
          \/ Reanchors(i, trips[i]))
  BY <1>1
<1>. QED BY InvariantInit, InvariantStep, <1>2, PTL DEF Spec, HealRepeatsClose
=============================================================================
