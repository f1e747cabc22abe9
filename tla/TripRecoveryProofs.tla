------------------------- MODULE TripRecoveryProofs -------------------------
(***************************************************************************)
(* Theorems about TripRecovery, for any recorder history, services and     *)
(* interleaving: type correctness, that the trip in memory is the newest   *)
(* of the table, that a recovery leaves no drive it can see unlogged, and  *)
(* that kilometres are in one row.                                         *)
(***************************************************************************)
EXTENDS TripRecovery, NaturalsInduction, SequenceTheorems, FiniteSetTheorems,
        TLAPS

-----------------------------------------------------------------------------
(***************************************************************************)
(* Least and greatest elements.                                            *)
(***************************************************************************)
LEMMA LeastNat ==
  ASSUME NEW T, T \subseteq Nat, T # {}
  PROVE  \E x \in T : \A y \in T : x <= y
<1>. DEFINE Less == OpToRel(<, Nat)
<1>1. \A x, y \in Nat : x < y => <<x, y>> \in Less
  BY DEF OpToRel
<1>2. IsWellFoundedOn(Less, Nat)
  BY NatLessThanWellFounded
<1>. HIDE DEF Less
<1>3. PICK x \in T : \A y \in T : ~(<<y, x>> \in Less)
  BY <1>2, WFMin
<1>4. \A y \in T : ~(y < x)
  BY <1>1, <1>3
<1>. QED BY <1>4

LEMMA MaxIs ==
  ASSUME NEW n \in Nat, NEW S, S \subseteq 0..n, S # {}
  PROVE  Max(S) \in S /\ \A y \in S : y <= Max(S)
<1>. DEFINE T == {n - i : i \in S}
<1>1. \A i \in S : i \in 0..n /\ n - i \in Nat
  OBVIOUS
<1>2. T \subseteq Nat /\ T # {}
  BY <1>1
<1>3. PICK x \in T : \A y \in T : x <= y
  BY <1>2, LeastNat
<1>4. PICK i \in S : x = n - i
  BY <1>3
<1>5. \A j \in S : i >= j
  <2>. TAKE j \in S
  <2>1. n - j \in T
    OBVIOUS
  <2>2. n - i <= n - j
    BY <1>3, <1>4, <2>1
  <2>. QED BY <1>1, <2>2
<1>6. Max(S) \in S /\ \A j \in S : Max(S) >= j
  BY <1>4, <1>5 DEF Max
<1>. QED BY <1>1, <1>6

-----------------------------------------------------------------------------
(***************************************************************************)
(* InOrder puts segments that start apart in the order of their starts.    *)
(***************************************************************************)
Apart(S) == \A a, b \in S : a.start = b.start => a = b

LEMMA ApartFinite ==
  ASSUME NEW S, NEW n \in Nat, Apart(S), \A s \in S : s.start \in 0..n
  PROVE  IsFiniteSet(S)
<1>. DEFINE f == [s \in S |-> s.start]
<1>1. f \in Injection(S, 0..n)
  BY DEF Apart, Injection, IsInjective
<1>2. IsFiniteSet(0..n)
  BY FS_Interval
<1>. QED BY <1>1, <1>2, FS_Injection

Sorted(q) == \A i, j \in DOMAIN q : i < j => q[i].start < q[j].start

LEMMA SortedExists ==
  ASSUME NEW S, IsFiniteSet(S), Apart(S), \A s \in S : s.start \in Nat
  PROVE  \E q \in [1..Cardinality(S) -> S] : Sorted(q)
<1>. DEFINE n == Cardinality(S)
            Below(s) == {x \in S : x.start <= s.start}
            rank == [s \in S |-> Cardinality(Below(s))]
<1>1. n \in Nat
  BY FS_CardinalityType
<1>2. ASSUME NEW s \in S
      PROVE  IsFiniteSet(Below(s)) /\ rank[s] \in 1..n
  <2>1. IsFiniteSet(Below(s)) /\ Cardinality(Below(s)) <= n
    BY FS_Subset
  <2>2. s \in Below(s)
    OBVIOUS
  <2>3. Cardinality(Below(s)) \in Nat /\ Cardinality(Below(s)) # 0
    BY <2>1, <2>2, FS_CardinalityType, FS_EmptySet
  <2>. QED BY <1>1, <2>1, <2>3
<1>3. ASSUME NEW s \in S, NEW t \in S, s.start < t.start
      PROVE  rank[s] < rank[t]
  <2>1. Below(s) \subseteq Below(t)
    BY <1>3
  <2>2. t \in Below(t) /\ t \notin Below(s)
    BY <1>3
  <2>3. Below(s) # Below(t)
    BY <2>2
  <2>4. /\ Cardinality(Below(s)) <= Cardinality(Below(t))
        /\ Cardinality(Below(s)) # Cardinality(Below(t))
    BY <1>2, <2>1, <2>3, FS_Subset
  <2>5. rank[s] = Cardinality(Below(s)) /\ rank[t] = Cardinality(Below(t))
    OBVIOUS
  <2>. HIDE DEF Below, rank
  <2>. QED BY <1>2, <2>4, <2>5
<1>. HIDE DEF rank, n
<1>. \A s \in S : rank[s] \in Nat
  <2>. HIDE DEF Below
  <2>. QED BY <1>1, <1>2
<1>4. \A s, t \in S : rank[s] = rank[t] => s = t
  <2>. SUFFICES ASSUME NEW s \in S, NEW t \in S, s # t
                PROVE  rank[s] # rank[t]
    OBVIOUS
  <2>1. s.start < t.start \/ t.start < s.start
    BY DEF Apart
  <2>2. rank[s] < rank[t] \/ rank[t] < rank[s]
    BY <1>3, <2>1
  <2>. QED BY <2>2
<1>5. rank \in Injection(S, 1..n)
  <2>1. rank \in [S -> 1..n]
    BY <1>2 DEF rank
  <2>. QED BY <1>4, <2>1 DEF Injection, IsInjective
<1>6. rank \in Surjection(S, 1..n)
  <2>1. IsFiniteSet(1..n) /\ Cardinality(1..n) = n
    BY <1>1, FS_Interval
  <2>. QED BY <1>5, <2>1, FS_Injection DEF n
<1>7. \A i \in 1..n : \E s \in S : rank[s] = i
  BY <1>6 DEF Surjection
<1>. DEFINE q == [i \in 1..n |-> CHOOSE s \in S : rank[s] = i]
<1>8. \A i \in 1..n : q[i] \in S /\ rank[q[i]] = i
  BY <1>7
<1>. HIDE DEF q
<1>9. q \in [1..n -> S]
  BY <1>8 DEF q
<1>10. ASSUME NEW i \in 1..n, NEW j \in 1..n, i < j
       PROVE  q[i].start < q[j].start
  <2>1. q[i] \in S /\ q[j] \in S /\ rank[q[i]] < rank[q[j]]
    BY <1>8, <1>10
  <2>2. q[i].start \in Nat /\ q[j].start \in Nat
    BY <2>1
  <2>3. ~(q[j].start < q[i].start)
    <3>1. rank[q[i]] \in Nat /\ rank[q[j]] \in Nat
      BY <2>1
    <3>2. ~(rank[q[j]] < rank[q[i]])
      BY <2>1, <3>1
    <3>. QED BY <1>3, <2>1, <3>2
  <2>4. q[i].start # q[j].start
    <3>1. q[i] # q[j]
      BY <1>8, <1>10
    <3>. QED BY <2>1, <3>1 DEF Apart
  <2>. QED BY <2>2, <2>3, <2>4
<1>11. Sorted(q)
  BY <1>9, <1>10 DEF Sorted
<1>. QED BY <1>9, <1>11 DEF n

LEMMA InOrderIs ==
  ASSUME NEW S, IsFiniteSet(S), Apart(S), \A s \in S : s.start \in Nat
  PROVE  /\ InOrder(S) \in Seq(S)
         /\ \A s \in S : \E i \in DOMAIN InOrder(S) : InOrder(S)[i] = s
<1>. DEFINE n == Cardinality(S)
            q == InOrder(S)
<1>1. n \in Nat
  BY FS_CardinalityType
<1>2. q \in [1..n -> S] /\ Sorted(q)
  BY SortedExists DEF InOrder, Sorted
<1>3. q \in Seq(S)
  BY <1>1, <1>2, SeqDef
<1>. HIDE DEF n, q
<1>4. \A i, j \in 1..n : q[i] = q[j] => i = j
  <2>. SUFFICES ASSUME NEW i \in 1..n, NEW j \in 1..n, i < j
                PROVE  q[i] # q[j]
    BY <1>1
  <2>1. q[i].start < q[j].start
    BY <1>2 DEF Sorted
  <2>2. q[i] \in S /\ q[j] \in S
    BY <1>2
  <2>. QED BY <2>1, <2>2
<1>5. q \in Injection(1..n, S)
  BY <1>2, <1>4 DEF Injection, IsInjective
<1>6. q \in Surjection(1..n, S)
  <2>1. Cardinality(1..n) = n
    BY <1>1, FS_Interval
  <2>2. Cardinality(1..n) = Cardinality(S)
    BY <2>1 DEF n
  <2>. QED BY <1>5, <2>2, FS_Injection
<1>7. \A s \in S : \E i \in 1..n : q[i] = s
  BY <1>6 DEF Surjection
<1>. QED BY <1>2, <1>3, <1>7 DEF q
-----------------------------------------------------------------------------
(***************************************************************************)
(* What the recorder knows: readings, drives and the segments of a window. *)
(***************************************************************************)
CarFits ==
  /\ now \in Instants /\ driven \subseteq 0..(now - 1)
  /\ reported \subseteq 0..now /\ 0 \in reported

Legs == [start : Instants, end : Instants, from : Instants, upto : Instants]
Placed(s) == s.start <= s.end /\ s.end <= now

\* A segment carries the readings at its ends, and ends in its window.
Cut(s, until) ==
  \E a, b \in Instants : a <= b /\ b <= until /\ s = Segment(a, b)

LEMMA OdometerType ==
  ASSUME CarFits, NEW t \in Instants
  PROVE  Odometer(t) \in Instants
<1>. DEFINE Past == {u \in driven : u < t}
<1>1. t \in Nat /\ t <= MaxTime /\ MaxTime \in Nat
  BY ConstantsAssumption DEF Instants
<1>2. IsFiniteSet(0..(t - 1)) /\ Cardinality(0..(t - 1)) = t
  BY <1>1, FS_Interval
<1>3. Past \subseteq 0..(t - 1)
  <2>1. \A u \in driven : u \in Nat
    BY DEF CarFits
  <2>. QED BY <1>1, <2>1
<1>4. IsFiniteSet(Past) /\ Cardinality(Past) <= t
  BY <1>2, <1>3, FS_Subset
<1>5. Cardinality(Past) \in Nat
  BY <1>4, FS_CardinalityType
<1>6. Odometer(t) = Cardinality(Past)
  BY DEF Odometer
<1>. HIDE DEF Past
<1>. QED BY <1>1, <1>4, <1>5, <1>6 DEF Instants

LEMMA ReadingType ==
  ASSUME CarFits, NEW t \in Instants
  PROVE  Reading(t) \in Instants
<1>. DEFINE Samples == {r \in reported : r <= t}
<1>1. t \in Nat /\ MaxTime \in Nat /\ now \in Nat /\ now <= MaxTime
  BY ConstantsAssumption DEF Instants, CarFits
<1>2. 0 \in Samples /\ Samples \subseteq 0..MaxTime
  <2>1. 0 \in reported /\ \A r \in reported : r \in Nat /\ r <= now
    BY <1>1 DEF CarFits
  <2>. QED BY <1>1, <2>1
<1>3. Max(Samples) \in Samples
  BY <1>1, <1>2, MaxIs
<1>4. Max(Samples) \in Instants
  BY <1>2, <1>3 DEF Instants
<1>. QED BY <1>4, OdometerType DEF Reading

LEMMA SegmentType ==
  ASSUME CarFits, NEW start \in Instants, NEW end \in Instants
  PROVE  Segment(start, end) \in Legs
BY ReadingType DEF Segment, Legs

\* A drive of the window is found once: where it ends follows from its start.
LEMMA DrivesApart ==
  ASSUME NEW since \in Nat, NEW until \in Nat,
         NEW d \in Drives(since, until), NEW e \in Drives(since, until),
         d.start = e.start
  PROVE  d = e
<1>1. ASSUME NEW a \in Drives(since, until), NEW b \in Drives(since, until),
             a.start = b.start
      PROVE  ~(a.end < b.end)
  <2>. SUFFICES ASSUME a.end < b.end PROVE FALSE
    OBVIOUS
  <2>1. /\ a.start \in since..until /\ a.end \in since..until
        /\ b.end \in since..until /\ a.start < a.end
        /\ a.end = until \/ ~On(a.end)
        /\ \A t \in b.start..(b.end - 1) : On(t)
    BY DEF Drives
  <2>2. a.end \in b.start..(b.end - 1) /\ a.end # until
    BY <1>1, <2>1
  <2>. QED BY <2>1, <2>2
<1>2. d.end \in Nat /\ e.end \in Nat
  BY DEF Drives
<1>3. d.end = e.end
  BY <1>1, <1>2
<1>4. /\ d \in [start : since..until, end : since..until]
      /\ e \in [start : since..until, end : since..until]
  BY DEF Drives
<1>. QED BY <1>3, <1>4

LEMMA EdgeSegmentsAre ==
  ASSUME CarFits, NEW since \in Instants, NEW until \in Instants, until <= now
  PROVE  /\ EdgeSegments(since, until) \in Seq(Legs)
         /\ \A i \in DOMAIN EdgeSegments(since, until) :
              /\ Placed(EdgeSegments(since, until)[i])
              /\ Cut(EdgeSegments(since, until)[i], until)
         /\ \A d \in Drives(since, until) :
              Reading(d.end) - Reading(d.start) >= MinDistance =>
                \E i \in DOMAIN EdgeSegments(since, until) :
                  EdgeSegments(since, until)[i] = Segment(d.start, d.end)
<1>. DEFINE S == {s \in {Segment(d.start, d.end) : d \in Drives(since, until)} :
                    s.upto - s.from >= MinDistance}
<1>0. since \in Nat /\ until \in Nat /\ MaxTime \in Nat /\ until <= MaxTime
  BY ConstantsAssumption DEF Instants
<1>1. EdgeSegments(since, until) = InOrder(S)
  BY DEF EdgeSegments
<1>2. ASSUME NEW d \in Drives(since, until)
      PROVE  /\ d.start \in Instants /\ d.end \in Instants
             /\ d.start <= d.end /\ d.end <= now /\ d.end <= until
             /\ Segment(d.start, d.end) \in Legs
             /\ Segment(d.start, d.end).start = d.start
             /\ Segment(d.start, d.end).end = d.end
  <2>1. /\ d.start \in since..until /\ d.end \in since..until
        /\ d.start < d.end
    BY DEF Drives
  <2>2. d.start \in Instants /\ d.end \in Instants
    BY <1>0, <2>1 DEF Instants
  <2>3. d.start <= d.end /\ d.end <= now /\ d.end <= until
    BY <1>0, <2>1 DEF CarFits, Instants
  <2>. QED BY <2>2, <2>3, SegmentType DEF Segment
<1>3. \A s \in S : s \in Legs /\ Placed(s) /\ Cut(s, until)
  BY <1>2 DEF Placed, Cut
<1>4. Apart(S)
  <2>. SUFFICES ASSUME NEW a \in S, NEW b \in S, a.start = b.start
                PROVE  a = b
    BY DEF Apart
  <2>1. PICK d \in Drives(since, until) : a = Segment(d.start, d.end)
    OBVIOUS
  <2>2. PICK e \in Drives(since, until) : b = Segment(e.start, e.end)
    OBVIOUS
  <2>3. d.start = e.start
    BY <1>2, <2>1, <2>2
  <2>4. d = e
    BY <1>0, <2>3, DrivesApart
  <2>. QED BY <2>1, <2>2, <2>4
<1>5. \A s \in S : s.start \in 0..MaxTime /\ s.start \in Nat
  BY <1>0, <1>3 DEF Legs, Instants
<1>6. \A d \in Drives(since, until) :
        Reading(d.end) - Reading(d.start) >= MinDistance =>
          Segment(d.start, d.end) \in S
  BY DEF Segment
<1>. HIDE DEF S
<1>7. /\ InOrder(S) \in Seq(S)
      /\ \A s \in S : \E i \in DOMAIN InOrder(S) : InOrder(S)[i] = s
  BY <1>0, <1>4, <1>5, ApartFinite, InOrderIs
<1>8. InOrder(S) \in Seq(Legs)
  BY <1>3, <1>7, SeqDef
<1>9. \A i \in DOMAIN InOrder(S) : InOrder(S)[i] \in S
  BY <1>7, ElementOfSeq, LenProperties
<1>. QED BY <1>1, <1>3, <1>6, <1>7, <1>8, <1>9
-----------------------------------------------------------------------------
(***************************************************************************)
(* The odometer walker.  That its recursive function exists, and what it   *)
(* returns, is by induction on the length of the window, written as the    *)
(* absence of a shortest window where it fails.                            *)
(***************************************************************************)
Walk(since, n, f) ==
  f = [t \in since..n |-> IF t = since THEN WalkFrom(t, <<>>)
                                       ELSE Walks(f[t - 1], t)]

LEMMA WalkExists ==
  ASSUME NEW since \in Nat, NEW n \in Nat, since <= n
  PROVE  \E f : Walk(since, n, f)
<1>. DEFINE Bad == {k \in Nat : ~ \E f : Walk(since, since + k, f)}
<1>. SUFFICES ASSUME Bad # {} PROVE FALSE
  <2>1. n - since \in Nat /\ since + (n - since) = n
    OBVIOUS
  <2>. QED BY <2>1
<1>1. PICK k \in Bad : \A m \in Bad : k <= m
  BY LeastNat
<1>2. CASE k = 0
  <2>. DEFINE f == [t \in since..since |-> WalkFrom(t, <<>>)]
  <2>1. Walk(since, since + 0, f)
    BY DEF Walk
  <2>. QED BY <1>1, <1>2, <2>1
<1>3. CASE k # 0
  <2>1. k - 1 \in Nat /\ k - 1 \notin Bad
    BY <1>1, <1>3
  <2>2. PICK f : Walk(since, since + (k - 1), f)
    BY <2>1
  <2>. DEFINE last == since + k
              g == [t \in since..last |->
                      IF t = last THEN Walks(f[last - 1], t) ELSE f[t]]
  <2>3. /\ last \in Nat /\ last > since /\ since + (k - 1) = last - 1
        /\ since..(last - 1) \subseteq since..last
    BY <1>1, <1>3
  <2>4. \A t \in since..(last - 1) :
          f[t] = IF t = since THEN WalkFrom(t, <<>>) ELSE Walks(f[t - 1], t)
    BY <2>2, <2>3 DEF Walk
  <2>5. ASSUME NEW t \in since..last
        PROVE  g[t] = IF t = since THEN WalkFrom(t, <<>>) ELSE Walks(g[t - 1], t)
    <3>1. CASE t = last
      <4>1. g[t] = Walks(f[last - 1], t)
        BY <3>1
      <4>2. last - 1 \in since..last /\ last - 1 # last /\ t # since
        BY <2>3, <3>1
      <4>3. g[t - 1] = f[last - 1]
        BY <3>1, <4>2
      <4>. QED BY <4>1, <4>2, <4>3
    <3>2. CASE t # last
      <4>1. t \in since..(last - 1) /\ g[t] = f[t]
        BY <2>3, <3>2
      <4>2. t # since => /\ t - 1 \in since..last /\ t - 1 # last
                         /\ g[t - 1] = f[t - 1]
        BY <2>3, <4>1
      <4>. QED BY <2>4, <4>1, <4>2
    <3>. QED BY <3>1, <3>2
  <2>. HIDE DEF g
  <2>6. g = [t \in since..last |-> g[t]]
    BY DEF g
  <2>7. g = [t \in since..last |-> IF t = since THEN WalkFrom(t, <<>>)
                                                ELSE Walks(g[t - 1], t)]
    BY <2>5, <2>6
  <2>8. Walk(since, last, g)
    BY <2>7 DEF Walk
  <2>. QED BY <1>1, <2>8
<1>. QED BY <1>2, <1>3

\* A segment under way: where it stands and what was found before it.
Walking(w, t) ==
  /\ w \in [start : Instants, growth : Instants, from : Instants,
            upto : Instants, found : Seq(Legs)]
  /\ w.start <= w.growth /\ w.growth <= t
  /\ \A i \in DOMAIN w.found : Placed(w.found[i]) /\ Cut(w.found[i], t)

LEMMA ClosedIs ==
  ASSUME CarFits, NEW t \in Instants, t <= now, NEW w, Walking(w, t)
  PROVE  Closed(w) \in Seq(Legs)
         /\ \A i \in DOMAIN Closed(w) : Placed(Closed(w)[i]) /\ Cut(Closed(w)[i], t)
<1>. DEFINE s == Segment(w.start, w.growth)
<1>1. w.found \in Seq(Legs) /\ s \in Legs
  BY SegmentType DEF Walking
<1>2. Placed(s) /\ Cut(s, t)
  <2>1. s.start = w.start /\ s.end = w.growth
    BY DEF Segment
  <2>2. w.growth \in Nat /\ t \in Nat /\ now \in Nat
    BY ConstantsAssumption DEF Walking, Instants, CarFits
  <2>. QED BY <2>1, <2>2 DEF Walking, Placed, Cut
<1>. HIDE DEF s
<1>3. /\ Append(w.found, s) \in Seq(Legs)
      /\ DOMAIN Append(w.found, s) = 1..Len(w.found) + 1
      /\ \A i \in 1..Len(w.found) : Append(w.found, s)[i] = w.found[i]
      /\ Append(w.found, s)[Len(w.found) + 1] = s
      /\ Len(w.found) \in Nat /\ DOMAIN w.found = 1..Len(w.found)
  BY <1>1, AppendProperties, LenProperties
<1>4. \A i \in DOMAIN Append(w.found, s) :
        Placed(Append(w.found, s)[i]) /\ Cut(Append(w.found, s)[i], t)
  BY <1>2, <1>3 DEF Walking
<1>. QED BY <1>1, <1>3, <1>4 DEF Closed, Walking, s

LEMMA WalksIs ==
  ASSUME CarFits, NEW t \in Nat, t + 1 \in Instants, t + 1 <= now,
         NEW w, Walking(w, t)
  PROVE  Walking(Walks(w, t + 1), t + 1)
<1>1. t \in Instants /\ t <= now /\ t \in Nat /\ now \in Nat
  BY ConstantsAssumption DEF Instants, CarFits
<1>2. /\ w \in [start : Instants, growth : Instants, from : Instants,
                upto : Instants, found : Seq(Legs)]
      /\ w.start <= w.growth /\ w.growth <= t /\ w.start \in Nat /\ w.growth \in Nat
      /\ \A i \in DOMAIN w.found : Placed(w.found[i]) /\ Cut(w.found[i], t)
  BY ConstantsAssumption DEF Walking, Instants
<1>a. \A s : Cut(s, t) => Cut(s, t + 1)
  <2>1. \A b \in Instants : b <= t => b <= t + 1
    BY <1>1, ConstantsAssumption DEF Instants
  <2>. QED BY <2>1 DEF Cut
<1>3. Walking(w, t + 1)
  BY <1>1, <1>2, <1>a DEF Walking
<1>4. Walking([w EXCEPT !.growth = t + 1, !.upto = Odometer(t + 1)], t + 1)
  <2>. DEFINE v == [w EXCEPT !.growth = t + 1, !.upto = Odometer(t + 1)]
  <2>1. Odometer(t + 1) \in Instants
    BY OdometerType
  <2>2. v \in [start : Instants, growth : Instants, from : Instants,
               upto : Instants, found : Seq(Legs)]
    BY <1>2, <2>1
  <2>3. v.start = w.start /\ v.growth = t + 1 /\ v.found = w.found
    BY <1>2
  <2>. HIDE DEF v
  <2>4. Walking(v, t + 1)
    BY <1>1, <1>2, <1>a, <2>2, <2>3 DEF Walking
  <2>. QED BY <2>4 DEF v
<1>5. Walking(WalkFrom(t + 1, Closed(w)), t + 1)
  BY <1>1, <1>a, ClosedIs, ReadingType DEF Walking, WalkFrom
<1>. QED BY <1>3, <1>4, <1>5 DEF Walks

LEMMA WalkedIs ==
  ASSUME CarFits, NEW since \in Instants, NEW until \in Instants,
         since <= until, until <= now
  PROVE  /\ Walked(since, until) \in Seq(Legs)
         /\ \A i \in DOMAIN Walked(since, until) :
              /\ Placed(Walked(since, until)[i])
              /\ Cut(Walked(since, until)[i], until)
<1>. DEFINE walk == CHOOSE f : Walk(since, until, f)
            Bad == {t \in since..until : ~Walking(walk[t], t)}
<1>0. /\ since \in Nat /\ until \in Nat /\ MaxTime \in Nat /\ until <= MaxTime
      /\ now \in Nat
  BY ConstantsAssumption DEF Instants, CarFits
<1>1. Walked(since, until) = Closed(walk[until])
  BY DEF Walked, Walk
<1>2. Walk(since, until, walk)
  BY <1>0, WalkExists
<1>. HIDE DEF walk
<1>3. \A t \in since..until :
        walk[t] = IF t = since THEN WalkFrom(t, <<>>) ELSE Walks(walk[t - 1], t)
  BY <1>2 DEF Walk
<1>4. Bad = {}
  <2>. SUFFICES ASSUME Bad # {} PROVE FALSE
    OBVIOUS
  <2>1. Bad \subseteq Nat
    BY <1>0
  <2>2. PICK t \in Bad : \A u \in Bad : t <= u
    BY <2>1, LeastNat
  <2>3. t \in since..until /\ t \in Instants /\ t \in Nat /\ t <= now
    BY <1>0 DEF Instants
  <2>4. CASE t = since
    <3>1. Walking(WalkFrom(t, <<>>), t)
      <4>1. <<>> \in Seq(Legs) /\ DOMAIN <<>> = {}
        BY EmptySeq, LenProperties
      <4>. QED BY <2>3, <4>1, ReadingType DEF Walking, WalkFrom
    <3>. QED BY <1>3, <2>2, <2>3, <2>4, <3>1
  <2>5. CASE t # since
    <3>1. t - 1 \in since..until /\ t - 1 \in Nat /\ t - 1 \notin Bad
      BY <1>0, <2>2, <2>3, <2>5
    <3>2. Walking(walk[t - 1], t - 1)
      BY <3>1
    <3>3. (t - 1) + 1 = t
      BY <2>3
    <3>4. Walking(Walks(walk[t - 1], t), t)
      BY <2>3, <3>1, <3>2, <3>3, WalksIs
    <3>. QED BY <1>3, <2>2, <2>3, <2>5, <3>4
  <2>. QED BY <2>4, <2>5
<1>5. Walking(walk[until], until)
  BY <1>0, <1>4
<1>. QED BY <1>1, <1>5, ClosedIs

LEMMA SegmentsAre ==
  ASSUME CarFits, NEW since \in Instants, NEW until \in Instants,
         since <= until, until <= now
  PROVE  /\ Segments(since, until) \in Seq(Legs)
         /\ \A i \in DOMAIN Segments(since, until) :
              /\ Placed(Segments(since, until)[i])
              /\ Cut(Segments(since, until)[i], until)
         /\ wired => \A d \in Drives(since, until) :
              Reading(d.end) - Reading(d.start) >= MinDistance =>
                \E i \in DOMAIN Segments(since, until) :
                  Segments(since, until)[i] = Segment(d.start, d.end)
<1>1. EdgeSegments(since, until) = <<>> => DOMAIN EdgeSegments(since, until) = {}
  BY EmptySeq, LenProperties
<1>. QED BY <1>1, EdgeSegmentsAre, WalkedIs DEF Segments
-----------------------------------------------------------------------------
(***************************************************************************)
(* The newest trip of a table.                                             *)
(***************************************************************************)
Table(T) == T \subseteq Row /\ \A r, q \in T : r.id = q.id => r = q

LEMMA NullIsNoRow == Null \notin Row
BY DEF Null, Row

LEMMA NewestIs ==
  ASSUME NEW T, Table(T), T # {}
  PROVE  Newest(T) \in T /\ \A q \in T \ {Newest(T)} : Ended(Newest(T), q)
<1>0. /\ MaxTime \in Nat /\ MaxRows \in Nat
      /\ \A r \in T : /\ r.end \in 0..MaxTime /\ r.id \in 0..MaxRows
                      /\ r.end \in Nat /\ r.id \in Nat
  BY ConstantsAssumption DEF Table, Row, Instants
<1>. DEFINE Ends == {r.end : r \in T}
<1>1. Ends \subseteq 0..MaxTime /\ Ends # {}
  BY <1>0
<1>2. PICK last \in Ends : \A e \in Ends : e <= last
  BY <1>0, <1>1, MaxIs
<1>. DEFINE Late == {r.id : r \in {q \in T : q.end = last}}
<1>3. Late \subseteq 0..MaxRows /\ Late # {}
  BY <1>0, <1>2
<1>4. PICK id \in Late : \A i \in Late : i <= id
  BY <1>0, <1>3, MaxIs
<1>5. PICK r \in T : r.end = last /\ r.id = id
  BY <1>4
<1>6. \A q \in T \ {r} : Ended(r, q)
  <2>. SUFFICES ASSUME NEW q \in T, q # r PROVE Ended(r, q)
    OBVIOUS
  <2>1. q.end <= r.end
    BY <1>2, <1>5
  <2>2. q.end = r.end => q.id <= r.id /\ q.id # r.id
    BY <1>4, <1>5 DEF Table
  <2>. QED BY <1>0, <2>1, <2>2 DEF Ended
<1>7. Newest(T) = CHOOSE x \in T : \A q \in T \ {x} : Ended(x, q)
  BY DEF Newest
<1>. QED BY <1>6, <1>7

LEMMA NewestUnique ==
  ASSUME NEW T, Table(T), NEW r \in T, \A q \in T \ {r} : Ended(r, q)
  PROVE  Newest(T) = r
<1>1. Newest(T) \in T /\ \A q \in T \ {Newest(T)} : Ended(Newest(T), q)
  BY NewestIs
<1>2. \A q \in T : q.end \in Nat /\ q.id \in Nat
  BY ConstantsAssumption DEF Table, Row, Instants
<1>3. \A a, b \in T : ~(Ended(a, b) /\ Ended(b, a))
  BY <1>2 DEF Ended
<1>. QED BY <1>1, <1>3

LEMMA NewestType ==
  ASSUME NEW T, Table(T)
  PROVE  Newest(T) \in T \cup {Null} /\ (Newest(T) = Null <=> T = {})
<1>1. CASE T = {}
  BY <1>1 DEF Newest
<1>2. CASE T # {}
  BY <1>2, NewestIs, NullIsNoRow DEF Table
<1>. QED BY <1>1, <1>2
-----------------------------------------------------------------------------
(***************************************************************************)
(* Type correctness, with where each task stands.                          *)
(***************************************************************************)
Searches == Fields({Null} \cup Row)
Assigns == [pc : {"assign"}, read : Row \cup {Null}, fresh : BOOLEAN]
Adopts == [pc : {"adopt"}, row : Row, fresh : BOOLEAN]
Stores == [pc : {"store"}, start : Instants, end : Instants,
           from : Instants, upto : Instants, fresh : BOOLEAN]
Task == {Idle, [pc |-> "look"]} \cup Searches \cup Assigns \cup Adopts \cup Stores

Fits(k, t) ==
  /\ t.pc \in {"check", "insert", "orphan"} =>
       /\ k \in {"recover", "orphan"}
       /\ t.since < t.until /\ t.until <= now
       /\ \A i \in DOMAIN t.todo : Placed(t.todo[i])
       /\ t.pc = "insert" => t.todo # <<>>
       /\ t.pc = "orphan" => k = "orphan"
       /\ k = "orphan" => t.last # Null
  /\ t.pc = "store" =>
       /\ k \in {"live", "manual"}
       /\ Placed(t)
       /\ k = "live" => t.end = now
  /\ t.pc = "adopt" /\ k = "live" => t.row.end = now

CarInvariant == CarFits /\ moving \in BOOLEAN

TableInvariant ==
  /\ Table(rows) /\ nextId \in Nat \ {0}
  /\ \A r \in rows : r.start <= r.end /\ r.end <= now /\ r.id < nextId

MemoryInvariant ==
  /\ lastTrip \in Row \cup {Null}
  /\ current \in [start : Instants, from : Instants] \cup {Null}
  /\ current # Null => current.start <= now
  /\ swept \in [since : Instants, until : Instants] \cup {Null}
  /\ swept # Null => swept.since < swept.until /\ swept.until <= now

TasksInvariant ==
  /\ tasks \in [Kinds -> Task]
  /\ \A k \in Kinds : Fits(k, tasks[k])

TypeInvariant ==
  CarInvariant /\ TableInvariant /\ MemoryInvariant /\ TasksInvariant

LEMMA TypeInvariantTyped == TypeInvariant => TypeOK
BY DEF TypeInvariant, CarInvariant, CarFits, TableInvariant, Table,
       MemoryInvariant, TasksInvariant, TypeOK, Task, Searches, Assigns, Adopts,
       Stores

LEMMA TaskIs ==
  ASSUME NEW t \in Task
  PROVE  /\ t.pc \in {"idle", "look", "check", "insert", "orphan", "assign",
                      "adopt", "store"}
         /\ t.pc = "idle" => t = Idle
         /\ t.pc \in {"check", "insert", "orphan"} => t \in Searches
         /\ t.pc = "assign" => t \in Assigns
         /\ t.pc = "adopt" => t \in Adopts
         /\ t.pc = "store" => t \in Stores
<1>1. Idle.pc = "idle" /\ [pc |-> "look"].pc = "look"
  BY DEF Idle
<1>2. /\ \A u \in Searches : u.pc \in {"check", "insert", "orphan"}
      /\ \A u \in Assigns : u.pc = "assign"
      /\ \A u \in Adopts : u.pc = "adopt"
      /\ \A u \in Stores : u.pc = "store"
  BY DEF Searches, Fields, Assigns, Adopts, Stores
<1>. QED BY <1>1, <1>2 DEF Task

LEMMA PlainTasks ==
  /\ Idle \in Task /\ [pc |-> "look"] \in Task
  /\ \A k : Fits(k, Idle) /\ Fits(k, [pc |-> "look"])
BY DEF Task, Idle, Fits

\* One task changes.
LEMMA TaskSet ==
  ASSUME TasksInvariant, now' = now, NEW k \in Kinds, NEW task \in Task,
         Fits(k, task), tasks' = [tasks EXCEPT ![k] = task]
  PROVE  TasksInvariant'
<1>1. tasks' \in [Kinds -> Task] /\ tasks'[k] = task
      /\ \A j \in Kinds \ {k} : tasks'[j] = tasks[j]
  BY DEF TasksInvariant
<1>2. ASSUME NEW j \in Kinds
      PROVE  \E t \in Task : tasks'[j] = t /\ Fits(j, t)
  BY <1>1 DEF TasksInvariant
<1>3. ASSUME NEW j \in Kinds
      PROVE  Fits(j, tasks[j])'
  <2>1. PICK t \in Task : tasks'[j] = t /\ Fits(j, t)
    BY <1>2
  <2>. QED BY <2>1 DEF Fits, Placed
<1>. QED BY <1>1, <1>3 DEF TasksInvariant

\* One task changes the table and the others are told.
LEMMA OutdatedIs ==
  ASSUME TasksInvariant, NEW k \in Kinds
  PROVE  /\ Outdated(k) \in [Kinds -> Task]
         /\ \A j \in Kinds :
              /\ Fits(j, Outdated(k)[j])
              /\ Outdated(k)[j].pc = tasks[j].pc
              /\ tasks[j].pc \notin {"assign", "adopt", "store"} =>
                   Outdated(k)[j] = tasks[j]
              /\ j # k /\ tasks[j].pc \in {"assign", "adopt", "store"} =>
                   ~Outdated(k)[j].fresh
              /\ tasks[j].pc = "adopt" => Outdated(k)[j].row = tasks[j].row
              /\ Outdated(k)[j] = Idle <=> tasks[j] = Idle
<1>1. ASSUME NEW j \in Kinds
      PROVE  /\ Outdated(k)[j] \in Task
             /\ Fits(j, Outdated(k)[j])
             /\ Outdated(k)[j].pc = tasks[j].pc
             /\ tasks[j].pc \notin {"assign", "adopt", "store"} =>
                  Outdated(k)[j] = tasks[j]
             /\ j # k /\ tasks[j].pc \in {"assign", "adopt", "store"} =>
                  ~Outdated(k)[j].fresh
             /\ tasks[j].pc = "adopt" => Outdated(k)[j].row = tasks[j].row
             /\ Outdated(k)[j] = Idle <=> tasks[j] = Idle
  <2>0. tasks[j] \in Task /\ Fits(j, tasks[j])
    BY DEF TasksInvariant
  <2>1. CASE j # k /\ tasks[j].pc \in {"assign", "adopt", "store"}
    <3>. DEFINE u == [tasks[j] EXCEPT !.fresh = FALSE]
    <3>1. Outdated(k)[j] = u
      BY <2>1 DEF Outdated
    <3>2. CASE tasks[j].pc = "assign"
      <4>1. tasks[j] \in Assigns
        BY <2>0, <3>2, TaskIs
      <4>2. u \in Assigns /\ u.pc = "assign" /\ ~u.fresh
        BY <4>1 DEF Assigns
      <4>. HIDE DEF u
      <4>. QED BY <3>1, <3>2, <4>2 DEF Task, Fits, Idle
    <3>3. CASE tasks[j].pc = "adopt"
      <4>1. tasks[j] \in Adopts
        BY <2>0, <3>3, TaskIs
      <4>2. u \in Adopts /\ u.pc = "adopt" /\ ~u.fresh /\ u.row = tasks[j].row
        BY <4>1 DEF Adopts
      <4>. HIDE DEF u
      <4>. QED BY <2>0, <3>1, <3>3, <4>2 DEF Task, Fits, Idle
    <3>4. CASE tasks[j].pc = "store"
      <4>1. tasks[j] \in Stores
        BY <2>0, <3>4, TaskIs
      <4>2. /\ u \in Stores /\ u.pc = "store" /\ ~u.fresh
            /\ u.start = tasks[j].start /\ u.end = tasks[j].end
        BY <4>1 DEF Stores
      <4>. HIDE DEF u
      <4>. QED BY <2>0, <3>1, <3>4, <4>2 DEF Task, Fits, Placed, Idle
    <3>. QED BY <2>1, <3>2, <3>3, <3>4
  <2>2. CASE ~(j # k /\ tasks[j].pc \in {"assign", "adopt", "store"})
    <3>1. Outdated(k)[j] = tasks[j]
      BY <2>2 DEF Outdated
    <3>. QED BY <2>0, <2>2, <3>1
  <2>. QED BY <2>1, <2>2
<1>2. Outdated(k) \in [Kinds -> Task]
  <2>1. Outdated(k) = [j \in Kinds |-> Outdated(k)[j]]
    BY DEF Outdated
  <2>. QED BY <1>1, <2>1
<1>. QED BY <1>1, <1>2

LEMMA TaskChanges ==
  ASSUME TasksInvariant, now' = now, NEW k \in Kinds, NEW task \in Task,
         Fits(k, task), tasks' = [Outdated(k) EXCEPT ![k] = task]
  PROVE  TasksInvariant'
<1>1. tasks' \in [Kinds -> Task] /\ tasks'[k] = task
      /\ \A j \in Kinds \ {k} : tasks'[j] = Outdated(k)[j]
  BY OutdatedIs
<1>2. ASSUME NEW j \in Kinds
      PROVE  \E t \in Task : tasks'[j] = t /\ Fits(j, t)
  BY <1>1, OutdatedIs
<1>3. ASSUME NEW j \in Kinds
      PROVE  Fits(j, tasks[j])'
  <2>1. PICK t \in Task : tasks'[j] = t /\ Fits(j, t)
    BY <1>2
  <2>. QED BY <2>1 DEF Fits, Placed
<1>. QED BY <1>1, <1>3 DEF TasksInvariant
-----------------------------------------------------------------------------
(***************************************************************************)
(* Every action keeps the types.                                           *)
(***************************************************************************)
LEMMA CarStill ==
  ASSUME CarInvariant, UNCHANGED car
  PROVE  CarInvariant'
BY DEF CarInvariant, CarFits, car

LEMMA TableStill ==
  ASSUME TableInvariant, now' = now, UNCHANGED <<rows, nextId>>
  PROVE  TableInvariant'
BY DEF TableInvariant, Table

LEMMA MemoryStill ==
  ASSUME MemoryInvariant, now' = now, UNCHANGED <<lastTrip, current, swept>>
  PROVE  MemoryInvariant'
BY DEF MemoryInvariant

\* A row under the next id.
LEMMA TableGrows ==
  ASSUME TableInvariant, now' = now, now \in Instants, NEW row \in Row,
         row.id = nextId, row.start <= row.end, row.end <= now,
         rows' = rows \cup {row}, nextId' = nextId + 1
  PROVE  TableInvariant'
<1>1. nextId \in Nat \ {0} /\ \A r \in rows : r.id \in Nat /\ r.id < nextId
  BY ConstantsAssumption DEF TableInvariant, Table, Row
<1>2. Table(rows)'
  <2>1. rows' \subseteq Row
    BY DEF TableInvariant, Table
  <2>2. \A r \in rows : r.id # row.id
    BY <1>1
  <2>3. \A r, q \in rows' : r.id = q.id => r = q
    BY <2>2 DEF TableInvariant, Table
  <2>. QED BY <2>1, <2>3 DEF Table
<1>3. nextId' \in Nat \ {0}
  BY <1>1
<1>4. \A r \in rows' : r.start <= r.end /\ r.end <= now' /\ r.id < nextId'
  BY <1>1 DEF TableInvariant
<1>. QED BY <1>2, <1>3, <1>4 DEF TableInvariant

LEMMA NewRowIs ==
  ASSUME TableInvariant, nextId <= MaxRows,
         NEW kind \in {"live", "recovered", "manual", "orphan"},
         NEW s, s.start \in Instants, s.end \in Instants,
         s.from \in Instants, s.upto \in Instants
  PROVE  /\ NewRow(kind, s) \in Row
         /\ NewRow(kind, s).id = nextId
         /\ NewRow(kind, s).start = s.start /\ NewRow(kind, s).end = s.end
BY ConstantsAssumption DEF TableInvariant, NewRow, Row

LEMMA SearchIs ==
  ASSUME TypeInvariant, NEW k \in {"recover", "orphan"},
         NEW since \in Instants, NEW until \in Instants,
         since < until, until <= now, NEW last \in {Null} \cup Row,
         k = "orphan" => last # Null
  PROVE  /\ Search(since, until, last) \in Task
         /\ Fits(k, Search(since, until, last))
<1>1. CarFits /\ since <= until
  BY ConstantsAssumption DEF TypeInvariant, CarInvariant, Instants
<1>2. /\ Segments(since, until) \in Seq(Legs)
      /\ \A i \in DOMAIN Segments(since, until) : Placed(Segments(since, until)[i])
  BY <1>1, SegmentsAre
<1>3. Search(since, until, last) \in Searches
  BY <1>2 DEF Search, Searches, Fields, Legs
<1>4. Fits(k, Search(since, until, last))
  BY <1>2 DEF Search, Fits
<1>. QED BY <1>3, <1>4 DEF Task

LEMMA InitTyped == Init => TypeInvariant
<1>. SUFFICES ASSUME Init PROVE TypeInvariant
  OBVIOUS
<1>1. CarInvariant
  <2>1. now \in Instants
    BY ConstantsAssumption DEF Init, Instants
  <2>2. reported \subseteq 0..now /\ 0 \in reported
    BY DEF Init
  <2>3. driven \subseteq 0..(now - 1)
    BY DEF Init
  <2>4. moving \in BOOLEAN
    BY Zenon DEF Init
  <2>. QED BY <2>1, <2>2, <2>3, <2>4 DEF CarInvariant, CarFits
<1>2. TableInvariant
  BY DEF Init, TableInvariant, Table
<1>3. MemoryInvariant
  BY DEF Init, MemoryInvariant
<1>4. TasksInvariant
  BY PlainTasks DEF Init, TasksInvariant
<1>. QED BY <1>1, <1>2, <1>3, <1>4 DEF TypeInvariant

LEMMA RecoverTyped ==
  ASSUME TypeInvariant, NEW since \in Instants, NEW until \in Instants,
         Recover(since, until)
  PROVE  TypeInvariant'
<1>1. CarInvariant' /\ TableInvariant' /\ now' = now
  BY CarStill, TableStill DEF TypeInvariant, Recover, car
<1>2. MemoryInvariant'
  BY <1>1 DEF TypeInvariant, Recover, MemoryInvariant
<1>3. since < until /\ until <= now
      /\ tasks' = [tasks EXCEPT !["recover"] = Search(since, until, Null)]
  BY DEF Recover, Start
<1>4. Search(since, until, Null) \in Task /\ Fits("recover", Search(since, until, Null))
  BY <1>3, SearchIs
<1>5. TasksInvariant'
  BY <1>1, <1>3, <1>4, TaskSet DEF TypeInvariant, Kinds
<1>. QED BY <1>1, <1>2, <1>5 DEF TypeInvariant

\* A task that leaves the table, the memory and the car alone.
LEMMA TaskAloneTyped ==
  ASSUME TypeInvariant, UNCHANGED <<car, rows, nextId, lastTrip, current, swept>>,
         NEW k \in Kinds, NEW task \in Task, Fits(k, task),
         tasks' = [tasks EXCEPT ![k] = task]
  PROVE  TypeInvariant'
<1>1. CarInvariant' /\ TableInvariant' /\ MemoryInvariant' /\ now' = now
  BY CarStill, TableStill, MemoryStill DEF TypeInvariant, car
<1>2. TasksInvariant'
  BY <1>1, TaskSet DEF TypeInvariant
<1>. QED BY <1>1, <1>2 DEF TypeInvariant

\* What remains to be done of a list of segments.
LEMMA TodoTail ==
  ASSUME NEW todo \in Seq(Legs), todo # <<>>,
         \A i \in DOMAIN todo : Placed(todo[i])
  PROVE  /\ Head(todo) \in Legs /\ Placed(Head(todo)) /\ Head(todo) = todo[1]
         /\ Tail(todo) \in Seq(Legs)
         /\ \A i \in DOMAIN Tail(todo) : Placed(Tail(todo)[i])
         /\ \A i \in DOMAIN todo :
              i = 1 \/ \E j \in DOMAIN Tail(todo) : Tail(todo)[j] = todo[i]
<1>1. Len(todo) \in Nat \ {0} /\ DOMAIN todo = 1..Len(todo)
  BY EmptySeq, LenProperties
<1>2. /\ Head(todo) = todo[1] /\ todo[1] \in Legs
      /\ Tail(todo) \in Seq(Legs) /\ Len(Tail(todo)) = Len(todo) - 1
      /\ \A i \in 1..(Len(todo) - 1) : Tail(todo)[i] = todo[i + 1]
  <2>1. Head(todo) = todo[1]
    OBVIOUS
  <2>2. todo[1] \in Legs
    BY <1>1, ElementOfSeq
  <2>3. Len(Tail(todo)) = Len(todo) - 1 /\ Tail(todo) \in Seq(Legs)
        /\ \A i \in 1..Len(Tail(todo)) : Tail(todo)[i] = todo[i + 1]
    BY HeadTailProperties
  <2>. QED BY <2>1, <2>2, <2>3
<1>3. DOMAIN Tail(todo) = 1..(Len(todo) - 1)
  BY <1>2, LenProperties
<1>4. \A i \in DOMAIN todo :
        i = 1 \/ \E j \in DOMAIN Tail(todo) : Tail(todo)[j] = todo[i]
  <2>. SUFFICES ASSUME NEW i \in DOMAIN todo, i # 1
                PROVE  \E j \in DOMAIN Tail(todo) : Tail(todo)[j] = todo[i]
    OBVIOUS
  <2>1. i - 1 \in 1..(Len(todo) - 1) /\ (i - 1) + 1 = i
    BY <1>1
  <2>. QED BY <1>2, <1>3, <2>1
<1>5. \A i \in DOMAIN Tail(todo) : Placed(Tail(todo)[i])
  BY <1>1, <1>2, <1>3
<1>6. 1 \in DOMAIN todo
  BY <1>1
<1>. QED BY <1>2, <1>4, <1>5, <1>6

LEMMA CheckTyped ==
  ASSUME TypeInvariant, NEW k \in Kinds, Check(k)
  PROVE  TypeInvariant'
<1>. DEFINE t == tasks[k]
            skipped == [t EXCEPT !.todo = Tail(t.todo)]
            next == [t EXCEPT !.pc = "insert"]
<1>1. t.pc = "check" /\ t.todo # <<>> /\ t \in Task /\ Fits(k, t)
  BY DEF Check, TypeInvariant, TasksInvariant
<1>2. t \in Searches
  BY <1>1, TaskIs
<1>3. t.todo \in Seq(Legs) /\ \A i \in DOMAIN t.todo : Placed(t.todo[i])
  BY <1>1, <1>2 DEF Searches, Fields, Legs, Fits
<1>4. Tail(t.todo) \in Seq(Legs) /\ \A i \in DOMAIN Tail(t.todo) : Placed(Tail(t.todo)[i])
  BY <1>1, <1>3, TodoTail
<1>5. skipped \in Task /\ Fits(k, skipped)
  <2>1. /\ skipped \in Searches /\ skipped.pc = t.pc /\ skipped.todo = Tail(t.todo)
        /\ skipped.since = t.since /\ skipped.until = t.until /\ skipped.last = t.last
    BY <1>2, <1>4 DEF Searches, Fields, Legs
  <2>. HIDE DEF skipped
  <2>. QED BY <1>1, <1>4, <2>1 DEF Task, Fits
<1>6. next \in Task /\ Fits(k, next)
  <2>1. /\ next \in Searches /\ next.pc = "insert" /\ next.todo = t.todo
        /\ next.since = t.since /\ next.until = t.until /\ next.last = t.last
    BY <1>2 DEF Searches, Fields
  <2>. HIDE DEF next
  <2>. QED BY <1>1, <2>1 DEF Task, Fits
<1>7. \/ tasks' = [tasks EXCEPT ![k] = skipped]
      \/ tasks' = [tasks EXCEPT ![k] = next]
  BY DEF Check
<1>8. UNCHANGED <<car, rows, nextId, lastTrip, current, swept>>
  BY DEF Check
<1>. HIDE DEF skipped, next
<1>. QED BY <1>5, <1>6, <1>7, <1>8, TaskAloneTyped
-----------------------------------------------------------------------------
\* A task that adds a row.
LEMMA InsertTyped ==
  ASSUME TypeInvariant, UNCHANGED <<car, lastTrip, current, swept>>,
         NEW k \in Kinds, NEW row \in Row, row.id = nextId,
         row.start <= row.end, row.end <= now,
         NEW task \in Task, Fits(k, task), Inserts(k, row, task)
  PROVE  TypeInvariant'
<1>1. now' = now /\ now \in Instants /\ CarInvariant' /\ MemoryInvariant'
  BY CarStill, MemoryStill DEF TypeInvariant, CarInvariant, CarFits, car
<1>2. TableInvariant'
  BY <1>1, TableGrows DEF TypeInvariant, Inserts
<1>3. TasksInvariant'
  BY <1>1, TaskChanges DEF TypeInvariant, Inserts
<1>. QED BY <1>1, <1>2, <1>3 DEF TypeInvariant

LEMMA InsertSegmentTyped ==
  ASSUME TypeInvariant, NEW k \in Kinds, InsertSegment(k)
  PROVE  TypeInvariant'
<1>. DEFINE t == tasks[k]
            row == NewRow("recovered", Head(t.todo))
            task == [t EXCEPT !.pc = "check", !.todo = Tail(t.todo), !.made = t.made + 1]
<1>1. t.pc = "insert" /\ t \in Task /\ Fits(k, t)
  BY DEF InsertSegment, TypeInvariant, TasksInvariant
<1>2. t \in Searches /\ t.todo # <<>>
  BY <1>1, TaskIs DEF Fits
<1>3. t.todo \in Seq(Legs) /\ \A i \in DOMAIN t.todo : Placed(t.todo[i])
  BY <1>1, <1>2 DEF Searches, Fields, Legs, Fits
<1>4. /\ Head(t.todo) \in Legs /\ Placed(Head(t.todo))
      /\ Tail(t.todo) \in Seq(Legs) /\ \A i \in DOMAIN Tail(t.todo) : Placed(Tail(t.todo)[i])
  BY <1>2, <1>3, TodoTail
<1>5. /\ row \in Row /\ row.id = nextId /\ row.start <= row.end /\ row.end <= now
  BY <1>4, NewRowIs DEF InsertSegment, Inserts, TypeInvariant, Legs, Placed
<1>6. task \in Task /\ Fits(k, task)
  <2>0. t.made + 1 \in Nat
    BY <1>2 DEF Searches, Fields
  <2>1. /\ task \in Searches /\ task.pc = "check" /\ task.todo = Tail(t.todo)
        /\ task.since = t.since /\ task.until = t.until /\ task.last = t.last
    BY <1>2, <1>4, <2>0 DEF Searches, Fields, Legs
  <2>. HIDE DEF task
  <2>. QED BY <1>1, <1>4, <2>1 DEF Task, Fits
<1>7. Inserts(k, row, task) /\ UNCHANGED <<car, lastTrip, current, swept>>
  BY DEF InsertSegment
<1>. HIDE DEF row, task
<1>. QED BY <1>5, <1>6, <1>7, InsertTyped

LEMMA SearchedTyped ==
  ASSUME TypeInvariant, NEW k \in Kinds, Searched(k)
  PROVE  TypeInvariant'
<1>. DEFINE t == tasks[k]
            assign == [pc |-> "assign", read |-> Newest(rows), fresh |-> TRUE]
            orphan == [t EXCEPT !.pc = "orphan"]
<1>1. t.pc = "check" /\ t \in Task /\ Fits(k, t)
  BY DEF Searched, TypeInvariant, TasksInvariant
<1>2. t \in Searches
  BY <1>1, TaskIs
<1>3. assign \in Task /\ Fits(k, assign)
  <2>1. Newest(rows) \in Row \cup {Null}
    BY NewestType DEF TypeInvariant, TableInvariant, Table
  <2>2. assign \in Assigns
    BY <2>1 DEF Assigns
  <2>. QED BY <2>2 DEF Task, Fits
<1>4. k = "orphan" => orphan \in Task /\ Fits(k, orphan)
  <2>1. /\ orphan \in Searches /\ orphan.pc = "orphan" /\ orphan.todo = t.todo
        /\ orphan.since = t.since /\ orphan.until = t.until /\ orphan.last = t.last
    BY <1>2 DEF Searches, Fields
  <2>. HIDE DEF orphan
  <2>. QED BY <1>1, <2>1 DEF Task, Fits
<1>5. \/ tasks' = [tasks EXCEPT ![k] = assign]
      \/ k = "orphan" /\ tasks' = [tasks EXCEPT ![k] = orphan]
      \/ tasks' = [tasks EXCEPT ![k] = Idle]
  BY DEF Searched
<1>6. CarInvariant' /\ TableInvariant' /\ now' = now
  BY CarStill, TableStill DEF TypeInvariant, Searched, car
<1>7. MemoryInvariant'
  <2>1. UNCHANGED <<lastTrip, current>>
    BY DEF Searched
  <2>2. \/ swept' = swept
        \/ swept' = [since |-> t.since, until |-> t.until]
    BY DEF Searched
  <2>3. t.since \in Instants /\ t.until \in Instants /\ t.since < t.until /\ t.until <= now
    BY <1>1, <1>2 DEF Searches, Fields, Fits
  <2>4. CASE swept' = swept
    BY <1>6, <2>1, <2>4, MemoryStill DEF TypeInvariant
  <2>5. CASE swept' = [since |-> t.since, until |-> t.until]
    BY <1>6, <2>1, <2>3, <2>5 DEF TypeInvariant, MemoryInvariant
  <2>. QED BY <2>2, <2>4, <2>5
<1>8. TasksInvariant'
  <2>. HIDE DEF assign, orphan
  <2>. QED BY <1>3, <1>4, <1>5, <1>6, PlainTasks, TaskSet DEF TypeInvariant
<1>. QED BY <1>6, <1>7, <1>8 DEF TypeInvariant

LEMMA InsertOrphanTyped ==
  ASSUME TypeInvariant, InsertOrphan
  PROVE  TypeInvariant'
<1>. DEFINE t == tasks["orphan"]
            begin == Max({t.since, t.until - OrphanSpan})
            s == [start |-> begin, end |-> t.until, from |-> t.last.upto,
                  upto |-> Reading(t.until)]
            row == NewRow("orphan", s)
            task == [pc |-> "adopt", row |-> row, fresh |-> TRUE]
<1>0. "orphan" \in Kinds
  BY DEF Kinds
<1>1. t.pc = "orphan" /\ t \in Task /\ Fits("orphan", t)
  BY <1>0 DEF InsertOrphan, TypeInvariant, TasksInvariant
<1>2. t \in Searches
  BY <1>1, TaskIs
<1>3. /\ t.since \in Instants /\ t.until \in Instants /\ t.last \in Row
      /\ t.since < t.until /\ t.until <= now
  BY <1>1, <1>2 DEF Searches, Fields, Fits
<1>4. begin \in Instants /\ begin <= t.until
  <2>1. /\ t.since \in Nat /\ t.until \in Nat /\ OrphanSpan \in Nat /\ MaxTime \in Nat
        /\ t.until <= MaxTime /\ t.since < t.until
    BY <1>3, ConstantsAssumption DEF Instants
  <2>2. begin \in {t.since, t.until - OrphanSpan} /\ begin >= t.since
    <3>1. \/ t.since >= t.until - OrphanSpan
          \/ t.until - OrphanSpan >= t.since
      BY <2>1
    <3>2. \E x \in {t.since, t.until - OrphanSpan} :
            \A y \in {t.since, t.until - OrphanSpan} : x >= y
      BY <2>1, <3>1
    <3>. QED BY <3>2 DEF Max
  <2>3. t.until - OrphanSpan <= t.until /\ t.until - OrphanSpan \in Int
    BY <2>1
  <2>4. begin <= t.until
    BY <2>1, <2>2, <2>3
  <2>5. begin \in Int
    BY <2>1, <2>2, <2>3
  <2>. HIDE DEF begin
  <2>6. begin \in 0..MaxTime
    BY <2>1, <2>2, <2>4, <2>5
  <2>. QED BY <2>4, <2>6 DEF Instants
<1>5. t.last.upto \in Instants /\ Reading(t.until) \in Instants
  BY <1>3, ReadingType DEF Row, TypeInvariant, CarInvariant
<1>6. Inserts("orphan", row, task) /\ UNCHANGED <<car, lastTrip, current, swept>>
  BY DEF InsertOrphan
<1>7. /\ s.start = begin /\ s.end = t.until /\ s.from \in Instants /\ s.upto \in Instants
  BY <1>5
<1>. HIDE DEF begin, s
<1>8. /\ row \in Row /\ row.id = nextId /\ row.start = begin /\ row.end = t.until
  BY <1>3, <1>4, <1>6, <1>7, NewRowIs DEF Inserts, TypeInvariant
<1>9. row.start <= row.end /\ row.end <= now
  BY <1>3, <1>4, <1>8
<1>. HIDE DEF row
<1>10. task \in Task /\ Fits("orphan", task)
  <2>1. task \in Adopts
    BY <1>8 DEF Adopts
  <2>. QED BY <2>1 DEF Task, Fits
<1>. HIDE DEF task
<1>. QED BY <1>0, <1>6, <1>8, <1>9, <1>10, InsertTyped

LEMMA OrphanRejectedTyped ==
  ASSUME TypeInvariant, OrphanRejected
  PROVE  TypeInvariant'
BY PlainTasks, TaskAloneTyped DEF OrphanRejected, Kinds

LEMMA AssignTyped ==
  ASSUME TypeInvariant, NEW k \in Kinds, Assign(k)
  PROVE  TypeInvariant'
<1>1. CarInvariant' /\ TableInvariant' /\ now' = now
  BY CarStill, TableStill DEF TypeInvariant, Assign, car
<1>2. tasks[k] \in Task /\ tasks[k].pc = "assign"
  BY DEF TypeInvariant, TasksInvariant, Assign
<1>3. tasks[k].read \in Row \cup {Null}
  BY <1>2, TaskIs DEF Assigns
<1>4. MemoryInvariant'
  BY <1>1, <1>3 DEF TypeInvariant, MemoryInvariant, Assign
<1>5. TasksInvariant'
  BY <1>1, PlainTasks, TaskSet DEF TypeInvariant, Assign
<1>. QED BY <1>1, <1>4, <1>5 DEF TypeInvariant

LEMMA AdoptTyped ==
  ASSUME TypeInvariant, NEW k \in Kinds, Adopt(k)
  PROVE  TypeInvariant'
<1>1. CarInvariant' /\ TableInvariant' /\ now' = now
  BY CarStill, TableStill DEF TypeInvariant, Adopt, car
<1>2. tasks[k] \in Task /\ tasks[k].pc = "adopt"
  BY DEF TypeInvariant, TasksInvariant, Adopt
<1>3. tasks[k].row \in Row
  BY <1>2, TaskIs DEF Adopts
<1>4. lastTrip' \in Row \cup {Null}
  BY <1>3 DEF TypeInvariant, MemoryInvariant, Adopt, Adopted
<1>5. MemoryInvariant'
  BY <1>1, <1>4 DEF TypeInvariant, MemoryInvariant, Adopt
<1>6. TasksInvariant'
  BY <1>1, PlainTasks, TaskSet DEF TypeInvariant, Adopt
<1>. QED BY <1>1, <1>5, <1>6 DEF TypeInvariant
-----------------------------------------------------------------------------
LEMMA TripOpensTyped ==
  ASSUME TypeInvariant, TripOpens
  PROVE  TypeInvariant'
<1>1. CarInvariant' /\ TableInvariant' /\ now' = now
  BY CarStill, TableStill DEF TypeInvariant, TripOpens, car
<1>2. CarFits /\ now \in Instants /\ now \in Nat
  BY ConstantsAssumption DEF TypeInvariant, CarInvariant, CarFits, Instants
<1>3. MemoryInvariant'
  <2>1. current' \in [start : Instants, from : Instants] /\ current'.start = now
    BY <1>2, ReadingType DEF TripOpens
  <2>2. UNCHANGED <<lastTrip, swept>>
    BY DEF TripOpens
  <2>. QED BY <1>1, <1>2, <2>1, <2>2 DEF TypeInvariant, MemoryInvariant
<1>4. TasksInvariant'
  <2>1. CASE ~OrphanGap
    <3>1. tasks' = tasks
      BY <2>1 DEF TripOpens
    <3>2. \A k \in Kinds : Fits(k, tasks[k])'
      BY <1>1, <3>1 DEF TypeInvariant, TasksInvariant, Fits, Placed
    <3>. QED BY <3>1, <3>2 DEF TypeInvariant, TasksInvariant
  <2>2. CASE OrphanGap
    <3>1. lastTrip \in Row /\ lastTrip # Null /\ now > lastTrip.end
      BY <2>2 DEF OrphanGap, TypeInvariant, MemoryInvariant
    <3>2. lastTrip.end \in Instants /\ lastTrip.end < now /\ now <= now
      BY <1>2, <3>1, ConstantsAssumption DEF Row, Instants
    <3>. DEFINE task == Search(lastTrip.end, now, lastTrip)
    <3>3. task \in Task /\ Fits("orphan", task)
      BY <1>2, <3>1, <3>2, SearchIs
    <3>4. tasks' = [tasks EXCEPT !["orphan"] = task]
      BY <2>2 DEF TripOpens, Start
    <3>. HIDE DEF task
    <3>. QED BY <1>1, <3>3, <3>4, TaskSet DEF TypeInvariant, Kinds
  <2>. QED BY <2>1, <2>2
<1>. QED BY <1>1, <1>3, <1>4 DEF TypeInvariant

LEMMA TripClosesTyped ==
  ASSUME TypeInvariant, TripCloses
  PROVE  TypeInvariant'
<1>1. CarInvariant' /\ TableInvariant' /\ now' = now
  BY CarStill, TableStill DEF TypeInvariant, TripCloses, car
<1>2. CarFits /\ now \in Instants /\ now \in Nat
  BY ConstantsAssumption DEF TypeInvariant, CarInvariant, CarFits, Instants
<1>3. MemoryInvariant'
  BY <1>1 DEF TypeInvariant, MemoryInvariant, TripCloses
<1>4. TasksInvariant'
  <2>. DEFINE task == [pc |-> "store", start |-> current.start, end |-> now,
                       from |-> current.from, upto |-> Reading(now), fresh |-> TRUE]
  <2>1. CASE tasks' = tasks
    <3>1. \A k \in Kinds : Fits(k, tasks[k])'
      BY <1>1, <2>1 DEF TypeInvariant, TasksInvariant, Fits, Placed
    <3>. QED BY <2>1, <3>1 DEF TypeInvariant, TasksInvariant
  <2>2. CASE tasks' = [tasks EXCEPT !["live"] = task]
    <3>1. /\ current \in [start : Instants, from : Instants]
          /\ current.start <= now
      BY DEF TypeInvariant, MemoryInvariant, TripCloses
    <3>2. Reading(now) \in Instants
      BY <1>2, ReadingType
    <3>3. task \in Stores
      BY <1>2, <3>1, <3>2 DEF Stores
    <3>4. Fits("live", task)
      BY <1>2, <3>1 DEF Fits, Placed
    <3>. HIDE DEF task
    <3>. QED BY <1>1, <2>2, <3>3, <3>4, TaskSet DEF TypeInvariant, Kinds, Task
  <2>3. tasks' = tasks \/ tasks' = [tasks EXCEPT !["live"] = task]
    BY DEF TripCloses, Start
  <2>. QED BY <2>1, <2>2, <2>3
<1>. QED BY <1>1, <1>3, <1>4 DEF TypeInvariant

LEMMA StoreTyped ==
  ASSUME TypeInvariant, NEW k \in Kinds, Store(k)
  PROVE  TypeInvariant'
<1>. DEFINE t == tasks[k]
            row == NewRow(k, t)
            task == [pc |-> "adopt", row |-> row,
                     fresh |-> k # "live" \/ t.fresh]
<1>1. t.pc = "store" /\ t \in Task /\ Fits(k, t)
  BY DEF Store, TypeInvariant, TasksInvariant
<1>2. t \in Stores /\ k \in {"live", "manual"} /\ Placed(t) /\ (k = "live" => t.end = now)
  BY <1>1, TaskIs DEF Fits
<1>3. Inserts(k, row, task) /\ UNCHANGED <<car, lastTrip, current, swept>>
  BY DEF Store
<1>4. /\ row \in Row /\ row.id = nextId /\ row.start = t.start /\ row.end = t.end
  BY <1>2, <1>3, NewRowIs DEF Inserts, TypeInvariant, Stores
<1>5. row.start <= row.end /\ row.end <= now
  BY <1>2, <1>4 DEF Placed
<1>6. (k # "live" \/ t.fresh) \in BOOLEAN
  BY <1>2 DEF Stores
<1>. HIDE DEF row
<1>7. task \in Task /\ Fits(k, task)
  <2>1. task \in Adopts
    BY <1>4, <1>6 DEF Adopts
  <2>2. task.pc = "adopt" /\ task.row = row
    OBVIOUS
  <2>. HIDE DEF task
  <2>. QED BY <1>2, <1>4, <2>1, <2>2 DEF Task, Fits
<1>. HIDE DEF task
<1>. QED BY <1>3, <1>4, <1>5, <1>7, InsertTyped

LEMMA LogManualTyped ==
  ASSUME TypeInvariant, NEW start \in Instants, NEW end \in Instants,
         LogManual(start, end)
  PROVE  TypeInvariant'
<1>. DEFINE task == [pc |-> "store", start |-> start, end |-> end,
                     from |-> 0, upto |-> 0, fresh |-> TRUE]
<1>1. start < end /\ end <= now /\ tasks' = [tasks EXCEPT !["manual"] = task]
  BY DEF LogManual, Start
<1>2. 0 \in Instants /\ start <= end
  BY <1>1, ConstantsAssumption DEF Instants
<1>3. task \in Stores
  BY <1>2 DEF Stores
<1>4. Fits("manual", task)
  BY <1>1, <1>2 DEF Fits, Placed
<1>5. UNCHANGED <<car, rows, nextId, lastTrip, current, swept>>
  BY DEF LogManual
<1>. HIDE DEF task
<1>. QED BY <1>1, <1>3, <1>4, <1>5, TaskAloneTyped DEF Task, Kinds

LEMMA RemovesTyped ==
  ASSUME TypeInvariant, NEW k \in Kinds, NEW gone, Removes(k, gone)
  PROVE  TypeInvariant'
<1>1. CarInvariant' /\ now' = now
  BY CarStill DEF TypeInvariant, Removes, car
<1>2. TableInvariant'
  <2>1. rows' \subseteq rows /\ nextId' = nextId
    BY DEF Removes
  <2>. QED BY <1>1, <2>1 DEF TypeInvariant, TableInvariant, Table
<1>3. MemoryInvariant'
  BY <1>1 DEF TypeInvariant, MemoryInvariant, Removes
<1>4. TasksInvariant'
  <2>1. \/ tasks' = [Outdated(k) EXCEPT ![k] = Idle]
        \/ tasks' = [Outdated(k) EXCEPT ![k] = [pc |-> "look"]]
    BY DEF Removes
  <2>. QED BY <1>1, <2>1, PlainTasks, TaskChanges DEF TypeInvariant
<1>. QED BY <1>1, <1>2, <1>3, <1>4 DEF TypeInvariant

LEMMA LookTyped ==
  ASSUME TypeInvariant, NEW k \in Kinds, Look(k)
  PROVE  TypeInvariant'
<1>. DEFINE task == [pc |-> "assign", read |-> Newest(rows), fresh |-> TRUE]
<1>1. Newest(rows) \in Row \cup {Null}
  BY NewestType DEF TypeInvariant, TableInvariant, Table
<1>2. task \in Assigns
  BY <1>1 DEF Assigns
<1>3. Fits(k, task)
  BY DEF Fits
<1>4. /\ tasks' = [tasks EXCEPT ![k] = task]
      /\ UNCHANGED <<car, rows, nextId, lastTrip, current, swept>>
  BY DEF Look
<1>. HIDE DEF task
<1>. QED BY <1>2, <1>3, <1>4, TaskAloneTyped DEF Task

LEMMA RestartTyped ==
  ASSUME TypeInvariant, Restart
  PROVE  TypeInvariant'
<1>1. CarInvariant' /\ TableInvariant' /\ now' = now
  BY CarStill, TableStill DEF TypeInvariant, Restart, car
<1>2. Newest(rows) \in Row \cup {Null}
  BY NewestType DEF TypeInvariant, TableInvariant, Table
<1>3. MemoryInvariant'
  BY <1>1, <1>2 DEF TypeInvariant, MemoryInvariant, Restart
<1>4. TasksInvariant'
  <2>1. tasks' \in [Kinds -> Task] /\ \A k \in Kinds : tasks'[k] = Idle
    BY PlainTasks DEF Restart
  <2>2. \A k \in Kinds : Fits(k, tasks[k])'
    BY <2>1 DEF Fits, Idle
  <2>. QED BY <2>1, <2>2 DEF TasksInvariant
<1>. QED BY <1>1, <1>3, <1>4 DEF TypeInvariant

LEMMA TurnsTyped ==
  ASSUME TypeInvariant, TurnsOn \/ TurnsOff
  PROVE  TypeInvariant'
<1>1. UNCHANGED <<now, driven, reported, rows, nextId, lastTrip, current, tasks, swept>>
  BY DEF TurnsOn, TurnsOff
<1>2. moving' \in BOOLEAN
  BY Zenon DEF TurnsOn, TurnsOff
<1>3. CarInvariant' /\ TableInvariant' /\ MemoryInvariant'
  BY <1>1, <1>2, TableStill, MemoryStill DEF TypeInvariant, CarInvariant, CarFits
<1>4. TasksInvariant'
  BY <1>1 DEF TypeInvariant, TasksInvariant, Fits, Placed
<1>. QED BY <1>3, <1>4 DEF TypeInvariant

LEMMA TickTyped ==
  ASSUME TypeInvariant, NEW sampled \in BOOLEAN, Tick(sampled)
  PROVE  TypeInvariant'
<1>1. now \in Nat /\ MaxTime \in Nat /\ now < MaxTime /\ now' = now + 1
  BY ConstantsAssumption DEF TypeInvariant, CarInvariant, CarFits, Instants, Tick
<1>2. UNCHANGED <<moving, rows, nextId, lastTrip, current, tasks, swept>>
  BY DEF Tick
<1>3. CarInvariant'
  <2>1. driven \subseteq 0..(now - 1) /\ reported \subseteq 0..now /\ 0 \in reported
    BY DEF TypeInvariant, CarInvariant, CarFits
  <2>2. driven' \subseteq driven \cup {now} /\ reported' \subseteq reported \cup {now + 1}
        /\ reported \subseteq reported'
    BY DEF Tick
  <2>3. driven' \subseteq 0..(now' - 1)
    BY <1>1, <2>1, <2>2
  <2>4. reported' \subseteq 0..now' /\ 0 \in reported'
    BY <1>1, <2>1, <2>2
  <2>5. now' \in Instants
    BY <1>1 DEF Instants
  <2>. QED BY <1>2, <2>3, <2>4, <2>5 DEF TypeInvariant, CarInvariant, CarFits
<1>4. TableInvariant'
  <2>1. \A r \in rows : r.end \in Nat /\ r.end <= now
    BY ConstantsAssumption DEF TypeInvariant, TableInvariant, Table, Row, Instants
  <2>2. \A r \in rows' : r.end <= now'
    BY <1>1, <1>2, <2>1
  <2>. QED BY <1>2, <2>2 DEF TypeInvariant, TableInvariant, Table
<1>5. MemoryInvariant'
  <2>1. current # Null => current.start <= now + 1
    BY <1>1, ConstantsAssumption DEF TypeInvariant, MemoryInvariant, Instants
  <2>2. swept # Null => swept.until <= now + 1
    BY <1>1, ConstantsAssumption DEF TypeInvariant, MemoryInvariant, Instants
  <2>. QED BY <1>1, <1>2, <2>1, <2>2 DEF TypeInvariant, MemoryInvariant
<1>6. TasksInvariant'
  <2>1. \A k \in Kinds : tasks'[k] = Idle
    BY <1>2 DEF Tick, InFlight
  <2>2. \A k \in Kinds : Fits(k, tasks[k])'
    BY <2>1 DEF Fits, Idle
  <2>. QED BY <1>2, <2>2 DEF TypeInvariant, TasksInvariant
<1>. QED BY <1>3, <1>4, <1>5, <1>6 DEF TypeInvariant

\* The alternatives of Next, each once.
LEMMA NextTyped == TypeInvariant /\ [Next]_vars => TypeInvariant'
<1>. SUFFICES ASSUME TypeInvariant, [Next]_vars PROVE TypeInvariant'
  OBVIOUS
<1>1. CASE UNCHANGED vars
  <2>1. UNCHANGED <<now, moving, driven, reported, rows, nextId, lastTrip, current,
                    tasks, swept>>
    BY <1>1 DEF vars, car
  <2>. QED BY <2>1 DEF TypeInvariant, CarInvariant, CarFits, TableInvariant, Table,
                       MemoryInvariant, TasksInvariant, Fits, Placed
<1>2. ASSUME NEW w \in Windows, Recover(w[1], w[2]) \/ Purge(w[1], w[2])
      PROVE  TypeInvariant'
  <2>1. w[1] \in Instants /\ w[2] \in Instants
    BY ConstantsAssumption DEF Instants
  <2>. QED BY <1>2, <2>1, RecoverTyped, RemovesTyped DEF Purge, Kinds
<1>3. ASSUME NEW s \in Spans, LogManual(s[1], s[2])
      PROVE  TypeInvariant'
  <2>1. s[1] \in Instants /\ s[2] \in Instants
    BY ConstantsAssumption DEF Instants
  <2>. QED BY <1>3, <2>1, LogManualTyped
<1>4. ASSUME NEW k \in Kinds,
             \/ Check(k) \/ InsertSegment(k) \/ Searched(k) \/ Assign(k) \/ Adopt(k)
             \/ Store(k) \/ Look(k)
      PROVE  TypeInvariant'
  BY <1>4, CheckTyped, InsertSegmentTyped, SearchedTyped, AssignTyped, AdoptTyped,
     StoreTyped, LookTyped
<1>5. CASE InsertOrphan \/ OrphanRejected \/ TripOpens \/ TripCloses
  BY <1>5, InsertOrphanTyped, OrphanRejectedTyped, TripOpensTyped, TripClosesTyped
<1>6. CASE DeleteLast \/ Restart \/ TurnsOn \/ TurnsOff
  <2>1. CASE DeleteLast
    BY <2>1, RemovesTyped DEF DeleteLast, Kinds
  <2>. QED BY <1>6, <2>1, RestartTyped, TurnsTyped
<1>7. ASSUME NEW sampled \in BOOLEAN, Tick(sampled)
      PROVE  TypeInvariant'
  BY <1>7, TickTyped
<1>. QED BY <1>1, <1>2, <1>3, <1>4, <1>5, <1>6, <1>7 DEF Next

\* Every reachable state is well typed, and the tasks are where their kinds
\* can be: a search runs in a window that has passed, over segments that lie
\* in order within it, and the clock stands while a coroutine is in flight.
THEOREM RecoveryTyped == Spec => []TypeOK
<1>1. TypeInvariant => TypeOK
  BY TypeInvariantTyped
<1>. QED BY <1>1, InitTyped, NextTyped, PTL DEF Spec
-----------------------------------------------------------------------------
(***************************************************************************)
(* self.last_trip.  The inductive invariant says what a coroutine that has *)
(* written, or has looked, will do to it; Pending(t) is a coroutine whose  *)
(* own look at the table comes later, or has been outrun.                  *)
(***************************************************************************)
Pending(t) ==
  \/ t.pc \in {"look", "assign"}
  \/ t.pc = "adopt" /\ ~t.fresh
  \/ t.pc \in {"check", "insert"} /\ t.made > 0

FreshInvariant ==
  /\ \A k \in Kinds :
       tasks[k].pc = "assign" /\ tasks[k].fresh => tasks[k].read = Newest(rows)
  /\ \A k \in Kinds :
       tasks[k].pc = "adopt" /\ tasks[k].fresh =>
         tasks[k].row \in rows /\ \A r \in rows : r.id <= tasks[k].row.id
  /\ ~stale /\ (\A k \in Kinds : ~Pending(tasks[k])) =>
       \/ lastTrip = Newest(rows)
       \/ \E k \in Kinds : /\ tasks[k].pc = "adopt"
                           /\ lastTrip = Newest(rows \ {tasks[k].row})

\* Nothing is written or assigned, and no task takes up or leaves an adoption.
LEMMA FreshKept ==
  ASSUME FreshInvariant, UNCHANGED <<rows, lastTrip, stale>>,
         \A k \in Kinds :
           \/ tasks'[k] = tasks[k]
           \/ /\ tasks[k].pc # "adopt" /\ tasks'[k].pc # "adopt"
              /\ tasks'[k].pc = "assign" => tasks'[k].read = Newest(rows)
              /\ Pending(tasks[k]) => Pending(tasks'[k])
  PROVE  FreshInvariant'
<1>1. ASSUME NEW k \in Kinds, tasks'[k].pc = "assign", tasks'[k].fresh
      PROVE  tasks'[k].read = Newest(rows')
  BY <1>1 DEF FreshInvariant
<1>2. ASSUME NEW k \in Kinds, tasks'[k].pc = "adopt", tasks'[k].fresh
      PROVE  tasks'[k].row \in rows' /\ \A r \in rows' : r.id <= tasks'[k].row.id
  <2>1. tasks'[k] = tasks[k]
    BY <1>2
  <2>. QED BY <1>2, <2>1 DEF FreshInvariant
<1>3. ASSUME ~stale', \A k \in Kinds : ~Pending(tasks'[k])
      PROVE  \/ lastTrip' = Newest(rows')
             \/ \E k \in Kinds : /\ tasks'[k].pc = "adopt"
                                 /\ lastTrip' = Newest(rows' \ {tasks'[k].row})
  <2>1. \A k \in Kinds : ~Pending(tasks[k])
    BY <1>3
  <2>2. CASE lastTrip = Newest(rows)
    BY <2>2
  <2>3. ASSUME NEW k \in Kinds, tasks[k].pc = "adopt",
               lastTrip = Newest(rows \ {tasks[k].row})
        PROVE  /\ tasks'[k].pc = "adopt"
               /\ lastTrip' = Newest(rows' \ {tasks'[k].row})
    BY <2>3
  <2>. QED BY <1>3, <2>1, <2>2, <2>3 DEF FreshInvariant
<1>. QED BY <1>1, <1>2, <1>3 DEF FreshInvariant, Pending

\* One task changes, and is in no adoption before or after.
LEMMA FreshTask ==
  ASSUME TypeInvariant, FreshInvariant, UNCHANGED <<rows, lastTrip, stale>>,
         NEW k \in Kinds, NEW task, tasks' = [tasks EXCEPT ![k] = task],
         tasks[k].pc # "adopt", task.pc # "adopt",
         task.pc = "assign" => task.read = Newest(rows),
         Pending(tasks[k]) => Pending(task)
  PROVE  FreshInvariant'
<1>1. tasks'[k] = task /\ \A j \in Kinds \ {k} : tasks'[j] = tasks[j]
  BY DEF TypeInvariant, TasksInvariant
<1>. QED BY <1>1, FreshKept

LEMMA PlainPending ==
  /\ ~Pending(Idle) /\ Idle.pc = "idle"
  /\ Pending([pc |-> "look"])
BY DEF Pending, Idle

\* The table changes under task k: who looked before is told.
LEMMA OutdatedPending ==
  ASSUME TypeInvariant, NEW k \in Kinds, NEW task,
         tasks' = [Outdated(k) EXCEPT ![k] = task],
         ~Pending(tasks[k]),
         \A j \in Kinds : ~Pending(tasks'[j])
  PROVE  /\ tasks'[k] = task
         /\ \A j \in Kinds \ {k} : tasks'[j].pc \notin {"assign", "adopt"}
         /\ \A j \in Kinds \ {k} : tasks[j].pc \notin {"assign", "adopt"}
         /\ \A j \in Kinds : ~Pending(tasks[j])
<1>1. tasks'[k] = task /\ \A j \in Kinds \ {k} : tasks'[j] = Outdated(k)[j]
  BY OutdatedIs DEF TypeInvariant
<1>2. ASSUME NEW j \in Kinds \ {k}
      PROVE  /\ tasks'[j].pc \notin {"assign", "adopt"}
             /\ tasks[j].pc \notin {"assign", "adopt"}
             /\ ~Pending(tasks[j])
  <2>1. /\ tasks'[j].pc = tasks[j].pc
        /\ tasks[j].pc \notin {"assign", "adopt", "store"} => tasks'[j] = tasks[j]
        /\ tasks[j].pc \in {"assign", "adopt", "store"} => ~tasks'[j].fresh
    BY <1>1, OutdatedIs DEF TypeInvariant
  <2>2. tasks[j].pc \notin {"assign", "adopt"}
    BY <2>1 DEF Pending
  <2>. QED BY <2>1, <2>2 DEF Pending
<1>. QED BY <1>1, <1>2

\* Who looked before the table changed is not fresh.
LEMMA OutdatedStale ==
  ASSUME TypeInvariant, NEW k \in Kinds, NEW task,
         tasks' = [Outdated(k) EXCEPT ![k] = task]
  PROVE  /\ tasks'[k] = task
         /\ \A j \in Kinds \ {k} :
              tasks'[j].pc \in {"assign", "adopt"} => ~tasks'[j].fresh
BY OutdatedIs DEF TypeInvariant

LEMMA FreshInsert ==
  ASSUME TypeInvariant, FreshInvariant, UNCHANGED <<lastTrip, stale>>,
         NEW k \in Kinds, NEW row \in Row, row.id = nextId,
         NEW fresh, Inserts(k, row, [pc |-> "adopt", row |-> row, fresh |-> fresh]),
         tasks[k].pc \in {"store", "orphan"}
  PROVE  FreshInvariant'
<1>. DEFINE task == [pc |-> "adopt", row |-> row, fresh |-> fresh]
<1>1. tasks' = [Outdated(k) EXCEPT ![k] = task] /\ rows' = rows \cup {row}
  BY DEF Inserts
<1>2. task.pc = "adopt" /\ task.row = row /\ task.fresh = fresh
  OBVIOUS
<1>. HIDE DEF task
<1>3. /\ tasks'[k] = task
      /\ \A j \in Kinds \ {k} :
           tasks'[j].pc \in {"assign", "adopt"} => ~tasks'[j].fresh
  BY <1>1, OutdatedStale
<1>4. \A r \in rows : r.id \in Nat /\ r.id < row.id /\ row.id \in Nat
  BY ConstantsAssumption DEF TypeInvariant, TableInvariant, Table, Row
<1>5. row.id \in Nat /\ \A r \in rows' : r.id <= row.id
  BY <1>1, <1>4, ConstantsAssumption DEF Row
<1>6. rows' \ {row} = rows
  BY <1>1, <1>4
<1>7. \A j \in Kinds :
        tasks'[j].pc = "assign" /\ tasks'[j].fresh => tasks'[j].read = Newest(rows')
  BY <1>2, <1>3
<1>8. \A j \in Kinds :
        tasks'[j].pc = "adopt" /\ tasks'[j].fresh =>
          tasks'[j].row \in rows' /\ \A r \in rows' : r.id <= tasks'[j].row.id
  BY <1>1, <1>2, <1>3, <1>5
<1>9. ASSUME ~stale', \A j \in Kinds : ~Pending(tasks'[j])
      PROVE  lastTrip' = Newest(rows' \ {tasks'[k].row})
  <2>1. ~Pending(tasks[k])
    BY DEF Pending
  <2>2. /\ \A j \in Kinds \ {k} : tasks[j].pc \notin {"assign", "adopt"}
        /\ \A j \in Kinds : ~Pending(tasks[j])
    BY <1>1, <1>9, <2>1, OutdatedPending
  <2>3. \A j \in Kinds : tasks[j].pc # "adopt"
    BY <2>2
  <2>4. lastTrip = Newest(rows)
    BY <1>9, <2>2, <2>3 DEF FreshInvariant
  <2>5. tasks'[k].row = row
    BY <1>2, <1>3
  <2>. QED BY <1>6, <2>4, <2>5
<1>. QED BY <1>2, <1>3, <1>7, <1>8, <1>9 DEF FreshInvariant

\* The newest of a table, once its last row is adopted.
LEMMA AdoptedIs ==
  ASSUME TypeInvariant, NEW k \in Kinds, NEW q \in rows,
         \A r \in rows : r.id <= q.id, k = "live" => q.end = now,
         lastTrip = Newest(rows) \/ lastTrip = Newest(rows \ {q})
  PROVE  Adopted(k, q) = Newest(rows)
<1>0. /\ Table(rows) /\ Table(rows \ {q})
      /\ \A r \in rows : /\ r.end \in Nat /\ r.id \in Nat /\ r.end <= now
                         /\ r \in Row /\ r # Null
      /\ now \in Nat
  BY ConstantsAssumption, NullIsNoRow
     DEF TypeInvariant, CarInvariant, CarFits, TableInvariant, Table, Row, Instants
<1>1. \A r \in rows \ {q} : r.id < q.id
  BY <1>0 DEF Table
<1>2. (\A r \in rows : r.end <= q.end) => Newest(rows) = q
  <2>. SUFFICES ASSUME \A r \in rows : r.end <= q.end PROVE Newest(rows) = q
    OBVIOUS
  <2>1. \A r \in rows \ {q} : Ended(q, r)
    BY <1>0, <1>1 DEF Ended
  <2>. QED BY <1>0, <2>1, NewestUnique
<1>3. CASE k = "live"
  BY <1>0, <1>2, <1>3 DEF Adopted
<1>4. CASE k # "live" /\ lastTrip = Null
  <2>1. rows \ {q} = {} \/ rows = {}
    BY <1>0, <1>4, NewestType
  <2>2. \A r \in rows : r.end <= q.end
    BY <1>0, <2>1
  <2>. QED BY <1>2, <1>4, <2>2 DEF Adopted
<1>5. CASE k # "live" /\ lastTrip # Null
  <2>1. rows # {} /\ (lastTrip = Newest(rows \ {q}) => rows \ {q} # {})
    BY <1>0, <1>5, NewestType
  <2>2. lastTrip \in rows /\ \A r \in rows \ {q} : r # lastTrip => Ended(lastTrip, r)
    <3>1. CASE lastTrip = Newest(rows)
      BY <1>0, <2>1, <3>1, NewestIs
    <3>2. CASE lastTrip = Newest(rows \ {q})
      <4>. DEFINE T == rows \ {q}
      <4>1. Table(T) /\ T # {} /\ lastTrip = Newest(T)
        BY <1>0, <2>1, <3>2
      <4>2. lastTrip \in T /\ \A r \in T \ {lastTrip} : Ended(lastTrip, r)
        <5>. HIDE DEF T
        <5>. QED BY <4>1, NewestIs
      <4>. QED BY <4>2
    <3>. QED BY <3>1, <3>2
  <2>3. \A r \in rows \ {q} : r.end <= lastTrip.end
    BY <1>0, <2>2 DEF Ended
  <2>4. CASE q.end >= lastTrip.end
    <3>1. \A r \in rows : r.end <= q.end
      BY <1>0, <2>2, <2>3, <2>4
    <3>. QED BY <1>2, <1>5, <2>4, <3>1 DEF Adopted
  <2>5. CASE ~(q.end >= lastTrip.end)
    <3>1. Ended(lastTrip, q)
      BY <1>0, <2>2, <2>5 DEF Ended
    <3>2. \A r \in rows \ {lastTrip} : Ended(lastTrip, r)
      BY <2>2, <3>1
    <3>3. Newest(rows) = lastTrip
      BY <1>0, <2>2, <3>2, NewestUnique
    <3>. QED BY <1>5, <2>5, <3>3 DEF Adopted
  <2>. QED BY <2>4, <2>5
<1>. QED BY <1>3, <1>4, <1>5

LEMMA FreshAdopt ==
  ASSUME TypeInvariant, FreshInvariant, NEW k \in Kinds, Adopt(k)
  PROVE  FreshInvariant'
<1>1. /\ tasks[k].pc = "adopt" /\ rows' = rows
      /\ lastTrip' = Adopted(k, tasks[k].row)
      /\ stale' = (stale \/ ~tasks[k].fresh)
      /\ tasks' = [tasks EXCEPT ![k] = Idle]
  BY DEF Adopt
<1>2. tasks'[k] = Idle /\ \A j \in Kinds \ {k} : tasks'[j] = tasks[j]
  BY <1>1 DEF TypeInvariant, TasksInvariant
<1>3. \A j \in Kinds :
        tasks'[j].pc = "assign" /\ tasks'[j].fresh => tasks'[j].read = Newest(rows')
  BY <1>1, <1>2, PlainPending DEF FreshInvariant
<1>4. \A j \in Kinds :
        tasks'[j].pc = "adopt" /\ tasks'[j].fresh =>
          tasks'[j].row \in rows' /\ \A r \in rows' : r.id <= tasks'[j].row.id
  BY <1>1, <1>2, PlainPending DEF FreshInvariant
<1>5. ASSUME ~stale', \A j \in Kinds : ~Pending(tasks'[j])
      PROVE  lastTrip' = Newest(rows')
  <2>. DEFINE q == tasks[k].row
  <2>1. ~stale /\ tasks[k].fresh
    BY <1>1, <1>5
  <2>2. \A j \in Kinds : ~Pending(tasks[j])
    BY <1>1, <1>2, <1>5, <2>1 DEF Pending
  <2>3. q \in rows /\ \A r \in rows : r.id <= q.id
    BY <1>1, <2>1 DEF FreshInvariant
  <2>4. lastTrip = Newest(rows) \/ lastTrip = Newest(rows \ {q})
    <3>1. ASSUME NEW j \in Kinds, tasks[j].pc = "adopt"
          PROVE  tasks[j].row = q
      <4>1. tasks[j].fresh
        BY <2>2, <3>1 DEF Pending
      <4>2. tasks[j].row \in rows /\ \A r \in rows : r.id <= tasks[j].row.id
        BY <3>1, <4>1 DEF FreshInvariant
      <4>3. \A r \in rows : r.id \in Nat
        BY ConstantsAssumption DEF TypeInvariant, TableInvariant, Table, Row
      <4>4. tasks[j].row.id = q.id
        <5>. HIDE DEF q
        <5>. QED BY <2>3, <4>2, <4>3
      <4>. QED BY <2>3, <4>2, <4>4 DEF TypeInvariant, TableInvariant, Table
    <3>. QED BY <2>1, <2>2, <3>1 DEF FreshInvariant
  <2>5. k = "live" => q.end = now
    BY <1>1 DEF TypeInvariant, TasksInvariant, Fits
  <2>6. Adopted(k, q) = Newest(rows)
    <3>. HIDE DEF q
    <3>. QED BY <2>3, <2>4, <2>5, AdoptedIs
  <2>. QED BY <1>1, <2>6
<1>. QED BY <1>3, <1>4, <1>5 DEF FreshInvariant
-----------------------------------------------------------------------------
LEMMA FreshInsertSegment ==
  ASSUME TypeInvariant, FreshInvariant, NEW k \in Kinds, InsertSegment(k)
  PROVE  FreshInvariant'
<1>. DEFINE t == tasks[k]
            task == [t EXCEPT !.pc = "check", !.todo = Tail(t.todo), !.made = t.made + 1]
<1>1. t \in Searches
  BY TaskIs DEF InsertSegment, TypeInvariant, TasksInvariant
<1>2. task.pc = "check" /\ task.made > 0
  BY <1>1 DEF Searches, Fields
<1>3. tasks' = [Outdated(k) EXCEPT ![k] = task]
  BY DEF InsertSegment, Inserts
<1>. HIDE DEF task
<1>4. /\ tasks'[k] = task
      /\ \A j \in Kinds \ {k} :
           tasks'[j].pc \in {"assign", "adopt"} => ~tasks'[j].fresh
  BY <1>3, OutdatedStale
<1>5. Pending(tasks'[k])
  BY <1>2, <1>4 DEF Pending
<1>6. \A j \in Kinds : ~(tasks'[j].pc \in {"assign", "adopt"} /\ tasks'[j].fresh)
  BY <1>2, <1>4
<1>. QED BY <1>5, <1>6 DEF FreshInvariant

LEMMA FreshAssign ==
  ASSUME TypeInvariant, FreshInvariant, NEW k \in Kinds, Assign(k)
  PROVE  FreshInvariant'
<1>1. /\ tasks[k].pc = "assign" /\ rows' = rows
      /\ lastTrip' = tasks[k].read /\ stale' = ~tasks[k].fresh
      /\ tasks' = [tasks EXCEPT ![k] = Idle]
  BY DEF Assign
<1>2. tasks'[k] = Idle /\ \A j \in Kinds \ {k} : tasks'[j] = tasks[j]
  BY <1>1 DEF TypeInvariant, TasksInvariant
<1>3. ~stale' => lastTrip' = Newest(rows')
  BY <1>1 DEF FreshInvariant
<1>4. /\ \A j \in Kinds :
           tasks'[j].pc = "assign" /\ tasks'[j].fresh => tasks'[j].read = Newest(rows')
      /\ \A j \in Kinds :
           tasks'[j].pc = "adopt" /\ tasks'[j].fresh =>
             tasks'[j].row \in rows' /\ \A r \in rows' : r.id <= tasks'[j].row.id
  BY <1>1, <1>2, PlainPending DEF FreshInvariant
<1>. QED BY <1>3, <1>4 DEF FreshInvariant

LEMMA FreshRemoves ==
  ASSUME TypeInvariant, FreshInvariant, NEW k \in Kinds, NEW gone, Removes(k, gone)
  PROVE  FreshInvariant'
<1>1. /\ tasks[k] = Idle /\ rows' = rows \ gone /\ UNCHANGED <<lastTrip, stale>>
      /\ \/ gone = {} /\ tasks' = [Outdated(k) EXCEPT ![k] = Idle]
         \/ tasks' = [Outdated(k) EXCEPT ![k] = [pc |-> "look"]]
  BY DEF Removes
<1>2. PICK task \in {Idle, [pc |-> "look"]} :
        /\ tasks' = [Outdated(k) EXCEPT ![k] = task]
        /\ task = Idle => gone = {}
  <2>1. Idle # [pc |-> "look"]
    BY PlainPending
  <2>. QED BY <1>1, <2>1
<1>3. task.pc \notin {"assign", "adopt"}
  BY <1>2, PlainPending
<1>4. /\ tasks'[k] = task
      /\ \A j \in Kinds \ {k} :
           tasks'[j].pc \in {"assign", "adopt"} => ~tasks'[j].fresh
  BY <1>2, OutdatedStale
<1>5. \A j \in Kinds : ~(tasks'[j].pc \in {"assign", "adopt"} /\ tasks'[j].fresh)
  BY <1>3, <1>4
<1>6. ASSUME ~stale', \A j \in Kinds : ~Pending(tasks'[j])
      PROVE  lastTrip' = Newest(rows')
  <2>1. task = Idle /\ gone = {}
    BY <1>2, <1>4, <1>6, PlainPending
  <2>2. /\ \A j \in Kinds \ {k} : tasks[j].pc \notin {"assign", "adopt"}
        /\ \A j \in Kinds : ~Pending(tasks[j])
    BY <1>1, <1>2, <1>6, PlainPending, OutdatedPending
  <2>3. \A j \in Kinds : tasks[j].pc # "adopt"
    BY <1>1, <2>2, PlainPending
  <2>4. lastTrip = Newest(rows)
    BY <1>1, <1>6, <2>2, <2>3 DEF FreshInvariant
  <2>. QED BY <1>1, <2>1, <2>4
<1>. QED BY <1>5, <1>6 DEF FreshInvariant

LEMMA FreshRestart ==
  ASSUME TypeInvariant, Restart
  PROVE  FreshInvariant'
<1>1. \A k \in Kinds : tasks'[k] = Idle
  BY DEF Restart
<1>2. lastTrip' = Newest(rows')
  BY DEF Restart
<1>3. \A k \in Kinds : tasks'[k].pc = "idle"
  BY <1>1, PlainPending
<1>. QED BY <1>2, <1>3 DEF FreshInvariant

\* A coroutine that does not write the table or self.last_trip.
LEMMA FreshQuiet ==
  ASSUME TypeInvariant, FreshInvariant, NEW k \in Kinds,
         Check(k) \/ Searched(k) \/ Look(k)
  PROVE  FreshInvariant'
<1>. DEFINE t == tasks[k]
            skipped == [t EXCEPT !.todo = Tail(t.todo)]
            next == [t EXCEPT !.pc = "insert"]
            orphan == [t EXCEPT !.pc = "orphan"]
            assign == [pc |-> "assign", read |-> Newest(rows), fresh |-> TRUE]
<1>0. UNCHANGED <<rows, lastTrip, stale>> /\ t \in Task
  BY DEF Check, Searched, Look, TypeInvariant, TasksInvariant
<1>1. assign.pc = "assign" /\ assign.read = Newest(rows) /\ Pending(assign)
  BY DEF Pending
<1>2. CASE Check(k)
  <2>1. t.pc = "check" /\ t \in Searches
    BY <1>0, <1>2, TaskIs DEF Check
  <2>2. /\ skipped.pc = "check" /\ skipped.made = t.made
        /\ next.pc = "insert" /\ next.made = t.made
    BY <2>1 DEF Searches, Fields
  <2>3. tasks' = [tasks EXCEPT ![k] = skipped] \/ tasks' = [tasks EXCEPT ![k] = next]
    BY <1>2 DEF Check
  <2>. HIDE DEF skipped, next
  <2>4. Pending(t) => Pending(skipped) /\ Pending(next)
    BY <2>1, <2>2 DEF Pending
  <2>. QED BY <1>0, <2>1, <2>2, <2>3, <2>4, FreshTask
<1>3. CASE Searched(k)
  <2>1. t.pc = "check" /\ t \in Searches
    BY <1>0, <1>3, TaskIs DEF Searched
  <2>2. orphan.pc = "orphan"
    BY <2>1 DEF Searches, Fields
  <2>3. \/ tasks' = [tasks EXCEPT ![k] = assign]
        \/ ~(t.made > 0) /\ tasks' = [tasks EXCEPT ![k] = orphan]
        \/ ~(t.made > 0) /\ tasks' = [tasks EXCEPT ![k] = Idle]
    BY <1>3 DEF Searched
  <2>. HIDE DEF orphan, assign
  <2>4. ~(t.made > 0) => ~Pending(t)
    BY <2>1 DEF Pending
  <2>. QED BY <1>0, <1>1, <2>1, <2>2, <2>3, <2>4, PlainPending, FreshTask
<1>4. CASE Look(k)
  <2>1. t.pc = "look" /\ tasks' = [tasks EXCEPT ![k] = assign]
    BY <1>4 DEF Look
  <2>. HIDE DEF assign
  <2>. QED BY <1>0, <1>1, <2>1, FreshTask
<1>. QED BY <1>2, <1>3, <1>4

\* A coroutine that starts, or one that ends with nothing done.
LEMMA FreshStart ==
  ASSUME TypeInvariant, FreshInvariant, UNCHANGED <<rows, lastTrip, stale>>,
         NEW k \in Kinds, NEW task, tasks' = [tasks EXCEPT ![k] = task],
         tasks[k].pc \in {"idle", "orphan"}, task.pc \in {"idle", "check", "store"}
  PROVE  FreshInvariant'
<1>1. ~Pending(tasks[k])
  BY DEF Pending
<1>. QED BY <1>1, FreshTask

LEMMA FreshTrip ==
  ASSUME TypeInvariant, FreshInvariant, TripOpens \/ TripCloses
  PROVE  FreshInvariant'
<1>. DEFINE search == Search(lastTrip.end, now, lastTrip)
            store == [pc |-> "store", start |-> current.start, end |-> now,
                      from |-> current.from, upto |-> Reading(now), fresh |-> TRUE]
<1>1. UNCHANGED <<rows, lastTrip, stale>>
  BY DEF TripOpens, TripCloses
<1>2. \/ tasks' = tasks
      \/ tasks["orphan"] = Idle /\ tasks' = [tasks EXCEPT !["orphan"] = search]
      \/ tasks["live"] = Idle /\ tasks' = [tasks EXCEPT !["live"] = store]
  BY DEF TripOpens, TripCloses, Start
<1>3. search.pc = "check" /\ store.pc = "store"
  BY DEF Search
<1>. HIDE DEF search, store
<1>4. CASE tasks' = tasks
  BY <1>1, <1>4, FreshKept
<1>5. CASE tasks["orphan"] = Idle /\ tasks' = [tasks EXCEPT !["orphan"] = search]
  BY <1>1, <1>3, <1>5, PlainPending, FreshStart DEF Kinds
<1>6. CASE tasks["live"] = Idle /\ tasks' = [tasks EXCEPT !["live"] = store]
  BY <1>1, <1>3, <1>6, PlainPending, FreshStart DEF Kinds
<1>. QED BY <1>2, <1>4, <1>5, <1>6

LEMMA FreshNext == TypeInvariant /\ FreshInvariant /\ [Next]_vars => FreshInvariant'
<1>. SUFFICES ASSUME TypeInvariant, FreshInvariant, [Next]_vars PROVE FreshInvariant'
  OBVIOUS
<1>1. CASE UNCHANGED vars
  BY <1>1, FreshKept DEF vars
<1>2. ASSUME NEW w \in Windows, Recover(w[1], w[2])
      PROVE  FreshInvariant'
  <2>. DEFINE search == Search(w[1], w[2], Null)
  <2>1. /\ tasks["recover"] = Idle /\ tasks' = [tasks EXCEPT !["recover"] = search]
        /\ UNCHANGED <<rows, lastTrip, stale>>
    BY <1>2 DEF Recover, Start
  <2>2. search.pc = "check"
    BY DEF Search
  <2>. HIDE DEF search
  <2>. QED BY <2>1, <2>2, PlainPending, FreshStart DEF Kinds
<1>3. ASSUME NEW w \in Windows, Purge(w[1], w[2])
      PROVE  FreshInvariant'
  BY <1>3, FreshRemoves DEF Purge, Kinds
<1>4. ASSUME NEW s \in Spans, LogManual(s[1], s[2])
      PROVE  FreshInvariant'
  <2>. DEFINE store == [pc |-> "store", start |-> s[1], end |-> s[2],
                        from |-> 0, upto |-> 0, fresh |-> TRUE]
  <2>1. /\ tasks["manual"] = Idle /\ tasks' = [tasks EXCEPT !["manual"] = store]
        /\ UNCHANGED <<rows, lastTrip, stale>>
    BY <1>4 DEF LogManual, Start
  <2>2. store.pc = "store"
    OBVIOUS
  <2>. HIDE DEF store
  <2>. QED BY <2>1, <2>2, PlainPending, FreshStart DEF Kinds
<1>5. ASSUME NEW k \in Kinds, Check(k) \/ Searched(k) \/ Look(k)
      PROVE  FreshInvariant'
  BY <1>5, FreshQuiet
<1>6. ASSUME NEW k \in Kinds, InsertSegment(k) \/ Assign(k) \/ Adopt(k)
      PROVE  FreshInvariant'
  BY <1>6, FreshInsertSegment, FreshAssign, FreshAdopt
<1>7. ASSUME NEW k \in Kinds, Store(k)
      PROVE  FreshInvariant'
  <2>. DEFINE t == tasks[k]
              row == NewRow(k, t)
  <2>1. t.pc = "store" /\ t \in Task /\ Fits(k, t)
    BY <1>7 DEF Store, TypeInvariant, TasksInvariant
  <2>2. t \in Stores /\ k \in {"live", "manual"}
    BY <2>1, TaskIs DEF Fits
  <2>3. /\ Inserts(k, row, [pc |-> "adopt", row |-> row, fresh |-> k # "live" \/ t.fresh])
        /\ UNCHANGED <<lastTrip, stale>>
    BY <1>7 DEF Store
  <2>4. row \in Row /\ row.id = nextId
    BY <2>2, <2>3, NewRowIs DEF Inserts, TypeInvariant, Stores
  <2>. HIDE DEF row
  <2>. QED BY <2>1, <2>3, <2>4, FreshInsert
<1>8. CASE InsertOrphan
  <2>. DEFINE t == tasks["orphan"]
              row == NewRow("orphan",
                       [start |-> Max({t.since, t.until - OrphanSpan}),
                        end |-> t.until, from |-> t.last.upto, upto |-> Reading(t.until)])
  <2>1. /\ t.pc = "orphan" /\ UNCHANGED <<lastTrip, stale>>
        /\ Inserts("orphan", row, [pc |-> "adopt", row |-> row, fresh |-> TRUE])
    BY <1>8 DEF InsertOrphan
  <2>2. row \in rows' /\ row.id = nextId
    BY <2>1 DEF Inserts, NewRow
  <2>3. row \in Row
    BY <1>8, <2>2, InsertOrphanTyped DEF TypeInvariant, TableInvariant, Table
  <2>. HIDE DEF row
  <2>. QED BY <2>1, <2>2, <2>3, FreshInsert DEF Kinds
<1>9. CASE OrphanRejected
  BY <1>9, PlainPending, FreshStart DEF OrphanRejected, Kinds
<1>10. CASE TripOpens \/ TripCloses
  BY <1>10, FreshTrip
<1>11. CASE DeleteLast
  BY <1>11, FreshRemoves DEF DeleteLast, Kinds
<1>12. CASE Restart
  BY <1>12, FreshRestart
<1>13. CASE TurnsOn \/ TurnsOff
  BY <1>13, FreshKept DEF TurnsOn, TurnsOff
<1>14. ASSUME NEW sampled \in BOOLEAN, Tick(sampled)
       PROVE  FreshInvariant'
  BY <1>14, FreshKept DEF Tick
<1>. QED BY <1>1, <1>2, <1>3, <1>4, <1>5, <1>6, <1>7, <1>8, <1>9, <1>10, <1>11, <1>12,
            <1>13, <1>14 DEF Next

LEMMA InitFresh == Init => FreshInvariant
<1>. SUFFICES ASSUME Init PROVE FreshInvariant
  OBVIOUS
<1>1. \A k \in Kinds : tasks[k].pc = "idle"
  BY PlainPending DEF Init
<1>2. lastTrip = Newest(rows)
  BY DEF Init, Newest
<1>. QED BY <1>1, <1>2 DEF FreshInvariant

LEMMA FreshIsNewest == TypeInvariant /\ FreshInvariant => LastTripIsNewest
<1>. SUFFICES ASSUME TypeInvariant, FreshInvariant, ~stale,
                     \A k \in Kinds : tasks[k].pc \notin {"look", "assign", "adopt"},
                     \A k \in {"recover", "orphan"} : tasks[k] = Idle
              PROVE  lastTrip = Newest(rows)
  BY DEF LastTripIsNewest
<1>1. \A k \in Kinds : tasks[k].pc \notin {"check", "insert"}
  BY PlainPending DEF TypeInvariant, TasksInvariant, Fits
<1>2. \A k \in Kinds : ~Pending(tasks[k])
  BY <1>1 DEF Pending
<1>. QED BY <1>2 DEF FreshInvariant

\* self.last_trip is the newest row of the table whenever no coroutine is
\* between its write, or its look, and the assignment, and no assignment came
\* from a look the table had outrun: in whatever order recovered, manual,
\* orphan and live rows were written or removed, with any number of coroutines.
THEOREM LastTripFollowsTable == Spec => []LastTripIsNewest
<1>1. Init => TypeInvariant /\ FreshInvariant
  BY InitTyped, InitFresh
<1>2. (TypeInvariant /\ FreshInvariant) /\ [Next]_vars => (TypeInvariant /\ FreshInvariant)'
  BY NextTyped, FreshNext
<1>3. TypeInvariant /\ FreshInvariant => LastTripIsNewest
  BY FreshIsNewest
<1>. QED BY <1>1, <1>2, <1>3, PTL DEF Spec
-----------------------------------------------------------------------------
(***************************************************************************)
(* What a recovery leaves behind.  A drive is covered by a row or by a     *)
(* segment still on the list.                                              *)
(***************************************************************************)
Covered(since, until, left) ==
  \A d \in Drives(since, until) :
    Reading(d.end) - Reading(d.start) >= MinDistance =>
      \/ Overlaps(d.start, d.end)
      \/ \E i \in DOMAIN left : left[i] = Segment(d.start, d.end)

CoverInvariant ==
  \A since, until \in Instants :
    /\ \A todo \in Seq(Legs) :
         /\ wired /\ ~raced /\ tasks["recover"].pc \in {"check", "insert"}
         /\ tasks["recover"].since = since /\ tasks["recover"].until = until
         /\ tasks["recover"].todo = todo
         => Covered(since, until, todo)
    /\ /\ wired /\ swept # Null
       /\ swept.since = since /\ swept.until = until
       => Covered(since, until, <<>>)

\* The past does not change: the car drives on from now.
Onward ==
  /\ now' \in {now, now + 1}
  /\ driven \subseteq driven' /\ driven' \subseteq driven \cup {now}
  /\ reported \subseteq reported' /\ reported' \subseteq reported \cup {now + 1}

LEMMA ReadingStays ==
  ASSUME CarFits, Onward, NEW t \in Instants, t <= now
  PROVE  Reading(t)' = Reading(t)
<1>1. now \in Nat /\ t \in Nat /\ MaxTime \in Nat
  BY ConstantsAssumption DEF CarFits, Instants
<1>2. {r \in reported' : r <= t} = {r \in reported : r <= t}
  BY <1>1 DEF Onward
<1>3. 0 \in reported /\ \A r \in reported : r \in 0..MaxTime
  <2>1. now <= MaxTime
    BY <1>1 DEF CarFits, Instants
  <2>2. \A r \in reported : r \in 0..now
    BY DEF CarFits
  <2>. QED BY <1>1, <2>1, <2>2 DEF CarFits
<1>4. PICK m : m = Max({r \in reported : r <= t})
  OBVIOUS
<1>5. m \in Nat /\ m <= t
  <2>. DEFINE Samples == {r \in reported : r <= t}
  <2>1. 0 \in Samples /\ Samples \subseteq 0..MaxTime
    BY <1>1, <1>3
  <2>2. Max(Samples) \in Samples
    BY <1>1, <2>1, MaxIs
  <2>. QED BY <1>3, <1>4, <2>2
<1>6. {u \in driven' : u < m} = {u \in driven : u < m}
  BY <1>1, <1>5 DEF Onward
<1>7. Reading(t) = Cardinality({u \in driven : u < m})
  BY <1>4 DEF Reading, Odometer
<1>8. Reading(t)' = Cardinality({u \in driven' : u < m})
  BY <1>2, <1>4 DEF Reading, Odometer
<1>. QED BY <1>6, <1>7, <1>8

LEMMA DrivesStay ==
  ASSUME CarFits, Onward, NEW since \in Instants, NEW until \in Instants,
         until <= now
  PROVE  Drives(since, until)' = Drives(since, until)
<1>1. now \in Nat /\ since \in Nat /\ until \in Nat /\ MaxTime \in Nat
  BY ConstantsAssumption DEF CarFits, Instants
<1>2. \A t \in Int : t < now => (On(t)' <=> On(t))
  BY <1>1 DEF Onward, On
<1>3. ASSUME NEW d \in [start : since..until, end : since..until], d.start < d.end
      PROVE  /\ \A t \in d.start..(d.end - 1) : On(t)' <=> On(t)
             /\ On(d.start - 1)' <=> On(d.start - 1)
             /\ d.end = until \/ (On(d.end)' <=> On(d.end))
  <2>1. /\ d.start \in Int /\ d.end \in Int /\ d.end <= until /\ d.start - 1 \in Int
        /\ d.start - 1 < now
    BY <1>1, <1>3
  <2>2. d.end = until \/ d.end < now
    BY <1>1, <2>1
  <2>3. \A t \in d.start..(d.end - 1) : t \in Int /\ t < now
    BY <1>1, <2>1
  <2>4. PICK a, b : a = d.start - 1 /\ b = d.end
    OBVIOUS
  <2>5. (On(a)' <=> On(a)) /\ (b = until \/ (On(b)' <=> On(b)))
    BY <1>2, <2>1, <2>2, <2>4
  <2>. QED BY <1>2, <2>3, <2>4, <2>5
<1>4. ASSUME NEW d \in [start : since..until, end : since..until]
      PROVE  d \in Drives(since, until)' <=> d \in Drives(since, until)
  <2>1. CASE d.start < d.end
    BY <1>3, <2>1 DEF Drives
  <2>2. CASE ~(d.start < d.end)
    BY <2>2 DEF Drives
  <2>. QED BY <2>1, <2>2
<1>5. /\ Drives(since, until)' \subseteq [start : since..until, end : since..until]
      /\ Drives(since, until) \subseteq [start : since..until, end : since..until]
  BY DEF Drives
<1>. QED BY <1>4, <1>5

LEMMA CoveredStays ==
  ASSUME CarFits, Onward, rows \subseteq rows',
         NEW since \in Instants, NEW until \in Instants, until <= now,
         NEW left, Covered(since, until, left)
  PROVE  Covered(since, until, left)'
<1>1. Drives(since, until)' = Drives(since, until)
  BY DrivesStay
<1>2. \A t \in Instants : t <= now => Reading(t)' = Reading(t)
  BY ReadingStays
<1>3. ASSUME NEW d \in Drives(since, until), NEW a, NEW b, a = d.start, b = d.end
      PROVE  /\ Reading(a)' = Reading(a) /\ Reading(b)' = Reading(b)
             /\ Segment(a, b)' = Segment(a, b)
             /\ Overlaps(a, b) => Overlaps(a, b)'
  <2>1. a \in Instants /\ b \in Instants /\ a <= now /\ b <= now
    <3>1. a \in since..until /\ b \in since..until
      BY <1>3 DEF Drives
    <3>. QED BY <3>1, ConstantsAssumption DEF Instants, CarFits
  <2>2. Reading(a)' = Reading(a) /\ Reading(b)' = Reading(b)
    BY <1>2, <2>1
  <2>. QED BY <2>2 DEF Segment, Overlaps
<1>4. ASSUME NEW d \in Drives(since, until), (Reading(d.end) - Reading(d.start) >= MinDistance)'
      PROVE  \/ Overlaps(d.start, d.end)'
             \/ \E i \in DOMAIN left : left[i] = Segment(d.start, d.end)'
  <2>1. PICK a, b : a = d.start /\ b = d.end
    OBVIOUS
  <2>2. /\ Reading(a)' = Reading(a) /\ Reading(b)' = Reading(b)
        /\ Segment(a, b)' = Segment(a, b)
        /\ Overlaps(a, b) => Overlaps(a, b)'
    BY <1>3, <2>1
  <2>3. Reading(b) - Reading(a) >= MinDistance
    BY <1>4, <2>1, <2>2
  <2>4. Overlaps(a, b) \/ \E i \in DOMAIN left : left[i] = Segment(a, b)
    BY <2>1, <2>3 DEF Covered
  <2>5. Overlaps(a, b)' \/ \E i \in DOMAIN left : left[i] = Segment(a, b)'
    BY <2>2, <2>4
  <2>. QED BY <2>1, <2>5
<1>. QED BY <1>1, <1>4 DEF Covered

\* Nothing on the list is dropped but what a row overlaps.
TailCovers ==
  \A since, until \in Instants, todo \in Seq(Legs) :
    /\ todo # <<>> /\ Overlaps(todo[1].start, todo[1].end)
    /\ Covered(since, until, todo)
    => Covered(since, until, Tail(todo))

LEMMA CoveredTail == TailCovers
<1>. SUFFICES ASSUME NEW since \in Instants, NEW until \in Instants,
                     NEW todo \in Seq(Legs), todo # <<>>,
                     Overlaps(todo[1].start, todo[1].end),
                     Covered(since, until, todo),
                     NEW d \in Drives(since, until),
                     Reading(d.end) - Reading(d.start) >= MinDistance,
                     ~Overlaps(d.start, d.end)
              PROVE  \E i \in DOMAIN Tail(todo) : Tail(todo)[i] = Segment(d.start, d.end)
  BY DEF TailCovers, Covered
<1>1. PICK i \in DOMAIN todo : todo[i] = Segment(d.start, d.end)
  BY DEF Covered
<1>2. i # 1
  <2>1. todo[i].start = d.start /\ todo[i].end = d.end
    BY <1>1 DEF Segment
  <2>. QED BY <2>1
<1>3. Len(todo) \in Nat \ {0} /\ DOMAIN todo = 1..Len(todo)
  BY EmptySeq, LenProperties
<1>4. /\ Tail(todo) \in Seq(Legs) /\ Len(Tail(todo)) = Len(todo) - 1
      /\ \A j \in 1..Len(Tail(todo)) : Tail(todo)[j] = todo[j + 1]
  BY HeadTailProperties
<1>5. DOMAIN Tail(todo) = 1..(Len(todo) - 1)
  BY <1>4, LenProperties
<1>6. i - 1 \in 1..(Len(todo) - 1) /\ (i - 1) + 1 = i
  BY <1>2, <1>3
<1>7. Tail(todo)[i - 1] = todo[i]
  BY <1>4, <1>6
<1>. QED BY <1>1, <1>5, <1>6, <1>7

\* The recovery's task is the same, or not on its list any more.
LEMMA CoverKept ==
  ASSUME TypeInvariant, CoverInvariant, Onward, rows \subseteq rows',
         UNCHANGED <<wired, swept>>, raced => raced',
         tasks'["recover"].pc \in {"check", "insert"} =>
           tasks'["recover"] = tasks["recover"]
  PROVE  CoverInvariant'
<1>1. CarFits
  BY DEF TypeInvariant, CarInvariant
<1>. SUFFICES ASSUME NEW since \in Instants, NEW until \in Instants
     PROVE /\ \A todo \in Seq(Legs) :
                /\ wired' /\ ~raced' /\ tasks'["recover"].pc \in {"check", "insert"}
                /\ tasks'["recover"].since = since /\ tasks'["recover"].until = until
                /\ tasks'["recover"].todo = todo
                => Covered(since, until, todo)'
           /\ /\ wired' /\ swept' # Null
              /\ swept'.since = since /\ swept'.until = until
              => Covered(since, until, <<>>)'
  BY DEF CoverInvariant
<1>2. ASSUME NEW todo \in Seq(Legs),
             wired', ~raced', tasks'["recover"].pc \in {"check", "insert"},
             tasks'["recover"].since = since, tasks'["recover"].until = until,
             tasks'["recover"].todo = todo
      PROVE  Covered(since, until, todo)'
  <2>1. Covered(since, until, todo)
    BY <1>2 DEF CoverInvariant
  <2>2. until <= now
    BY <1>2 DEF TypeInvariant, TasksInvariant, Fits, Kinds
  <2>. QED BY <1>1, <2>1, <2>2, CoveredStays
<1>3. ASSUME wired', swept' # Null, swept'.since = since, swept'.until = until
      PROVE  Covered(since, until, <<>>)'
  <2>1. Covered(since, until, <<>>)
    BY <1>3 DEF CoverInvariant
  <2>2. until <= now
    BY <1>3 DEF TypeInvariant, MemoryInvariant
  <2>. QED BY <1>1, <2>1, <2>2, CoveredStays
<1>. QED BY <1>2, <1>3
-----------------------------------------------------------------------------
LEMMA CarOnward ==
  ASSUME UNCHANGED car
  PROVE  Onward /\ wired' = wired
BY DEF car, Onward

\* A coroutine that may write, but is not the recovery on its list.
LEMMA CoverOther ==
  ASSUME TypeInvariant, CoverInvariant, UNCHANGED <<car, swept>>,
         rows \subseteq rows', raced => raced',
         NEW k \in Kinds, NEW task,
         \/ tasks' = [tasks EXCEPT ![k] = task]
         \/ tasks' = [Outdated(k) EXCEPT ![k] = task],
         k = "recover" => task.pc \notin {"check", "insert"}
  PROVE  CoverInvariant'
<1>1. "recover" \in Kinds
  BY DEF Kinds
<1>2. tasks'["recover"].pc \in {"check", "insert"} =>
        tasks'["recover"] = tasks["recover"]
  <2>1. CASE k = "recover"
    BY <1>1, <2>1, OutdatedIs DEF TypeInvariant, TasksInvariant
  <2>2. CASE k # "recover"
    <3>1. tasks'["recover"] = tasks["recover"] \/ tasks'["recover"] = Outdated(k)["recover"]
      BY <1>1, <2>2, OutdatedIs DEF TypeInvariant, TasksInvariant
    <3>2. /\ Outdated(k)["recover"].pc = tasks["recover"].pc
          /\ tasks["recover"].pc \in {"check", "insert"} =>
               Outdated(k)["recover"] = tasks["recover"]
      BY <1>1, OutdatedIs DEF TypeInvariant
    <3>. QED BY <3>1, <3>2
  <2>. QED BY <2>1, <2>2
<1>3. UNCHANGED <<wired, swept>>
  BY CarOnward
<1>. QED BY <1>2, <1>3, CarOnward, CoverKept

\* The list of the recovery loses its head, whose drive a row overlaps.
LEMMA CoverTail ==
  ASSUME TypeInvariant, CoverInvariant, UNCHANGED <<car, swept, raced>>,
         rows \subseteq rows', NEW todo \in Seq(Legs), todo # <<>>,
         tasks["recover"].pc \in {"check", "insert"},
         tasks["recover"].todo = todo,
         NEW task, tasks'["recover"] = task,
         task.todo = Tail(todo),
         task.since = tasks["recover"].since, task.until = tasks["recover"].until,
         Overlaps(todo[1].start, todo[1].end)'
  PROVE  CoverInvariant'
<1>1. CarFits /\ Onward /\ UNCHANGED <<wired, swept, raced>>
  BY CarOnward DEF TypeInvariant, CarInvariant
<1>2. TailCovers'
  BY CoveredTail, PTL
<1>. SUFFICES ASSUME NEW since \in Instants, NEW until \in Instants
     PROVE /\ /\ wired' /\ ~raced'
              /\ tasks'["recover"].since = since /\ tasks'["recover"].until = until
              => Covered(since, until, Tail(todo))'
           /\ /\ wired' /\ swept' # Null
              /\ swept'.since = since /\ swept'.until = until
              => Covered(since, until, <<>>)'
  BY DEF CoverInvariant
<1>3. ASSUME wired', ~raced',
             tasks'["recover"].since = since, tasks'["recover"].until = until
      PROVE  Covered(since, until, Tail(todo))'
  <2>1. tasks["recover"].since = since /\ tasks["recover"].until = until
    BY <1>3
  <2>2. Covered(since, until, todo)
    BY <1>1, <1>3, <2>1 DEF CoverInvariant
  <2>3. until <= now
    BY <2>1 DEF TypeInvariant, TasksInvariant, Fits, Kinds
  <2>4. Covered(since, until, todo)'
    BY <1>1, <2>2, <2>3, CoveredStays
  <2>. QED BY <1>2, <2>4 DEF TailCovers
<1>4. ASSUME wired', swept' # Null, swept'.since = since, swept'.until = until
      PROVE  Covered(since, until, <<>>)'
  <2>1. Covered(since, until, <<>>)
    BY <1>1, <1>4 DEF CoverInvariant
  <2>2. until <= now
    BY <1>1, <1>4 DEF TypeInvariant, MemoryInvariant
  <2>. QED BY <1>1, <2>1, <2>2, CoveredStays
<1>. QED BY <1>3, <1>4

LEMMA CoverRecover ==
  ASSUME TypeInvariant, CoverInvariant, NEW since \in Instants, NEW until \in Instants,
         Recover(since, until)
  PROVE  CoverInvariant'
<1>1. /\ since < until /\ until <= now /\ UNCHANGED <<car, rows>> /\ swept' = Null
      /\ tasks' = [tasks EXCEPT !["recover"] = Search(since, until, Null)]
  BY DEF Recover, Start
<1>2. CarFits /\ Onward /\ wired' = wired /\ since <= until
  BY <1>1, CarOnward, ConstantsAssumption DEF TypeInvariant, CarInvariant, Instants
<1>3. PICK todo : todo = Segments(since, until)
  OBVIOUS
<1>4. /\ tasks'["recover"].since = since /\ tasks'["recover"].until = until
      /\ tasks'["recover"].todo = todo
  BY <1>1, <1>3 DEF Search, TypeInvariant, TasksInvariant, Kinds
<1>5. wired => Covered(since, until, todo)
  BY <1>1, <1>2, <1>3, SegmentsAre DEF Covered
<1>6. wired => Covered(since, until, todo)'
  BY <1>1, <1>2, <1>5, CoveredStays
<1>. QED BY <1>1, <1>2, <1>4, <1>6 DEF CoverInvariant

LEMMA CoverCheck ==
  ASSUME TypeInvariant, CoverInvariant, Check("recover")
  PROVE  CoverInvariant'
<1>. DEFINE t == tasks["recover"]
            skipped == [t EXCEPT !.todo = Tail(t.todo)]
            next == [t EXCEPT !.pc = "insert"]
<1>0. "recover" \in Kinds
  BY DEF Kinds
<1>1. t.pc = "check" /\ t.todo # <<>> /\ t \in Task
  BY <1>0 DEF Check, TypeInvariant, TasksInvariant
<1>2. t \in Searches
  BY <1>1, TaskIs
<1>3. PICK todo : todo = t.todo
  OBVIOUS
<1>4. todo \in Seq(Legs) /\ todo # <<>> /\ Head(todo) = todo[1]
  BY <1>1, <1>2, <1>3 DEF Searches, Fields, Legs
<1>5. UNCHANGED <<car, rows, swept, raced>>
  BY DEF Check
<1>6. \/ /\ Overlaps(todo[1].start, todo[1].end)
         /\ tasks' = [tasks EXCEPT !["recover"] = skipped]
      \/ tasks' = [tasks EXCEPT !["recover"] = next]
  BY <1>3, <1>4 DEF Check
<1>7. CASE /\ Overlaps(todo[1].start, todo[1].end)
           /\ tasks' = [tasks EXCEPT !["recover"] = skipped]
  <2>1. tasks'["recover"] = skipped
    BY <1>0, <1>7 DEF TypeInvariant, TasksInvariant
  <2>2. /\ skipped.todo = Tail(todo)
        /\ skipped.since = t.since /\ skipped.until = t.until
    BY <1>2, <1>3 DEF Searches, Fields
  <2>3. Overlaps(todo[1].start, todo[1].end)'
    BY <1>5, <1>7 DEF Overlaps
  <2>. HIDE DEF skipped
  <2>4. PICK task : task = skipped
    OBVIOUS
  <2>. QED BY <1>1, <1>3, <1>4, <1>5, <2>1, <2>2, <2>3, <2>4, CoverTail
<1>8. CASE tasks' = [tasks EXCEPT !["recover"] = next]
  <2>1. tasks'["recover"] = next
    BY <1>0, <1>8 DEF TypeInvariant, TasksInvariant
  <2>2. next.todo = t.todo /\ next.since = t.since /\ next.until = t.until
    BY <1>2 DEF Searches, Fields
  <2>3. CarFits /\ Onward /\ UNCHANGED <<wired, rows, swept, raced>>
    BY <1>5, CarOnward DEF TypeInvariant, CarInvariant
  <2>. HIDE DEF next
  <2>. SUFFICES ASSUME NEW since \in Instants, NEW until \in Instants
       PROVE /\ /\ wired' /\ ~raced'
                /\ next.since = since /\ next.until = until
                => Covered(since, until, todo)'
             /\ /\ wired' /\ swept' # Null
                /\ swept'.since = since /\ swept'.until = until
                => Covered(since, until, <<>>)'
    BY <1>3, <2>1, <2>2 DEF CoverInvariant
  <2>4. ASSUME wired', ~raced', next.since = since, next.until = until
        PROVE  Covered(since, until, todo)'
    <3>1. Covered(since, until, todo) /\ until <= now
      BY <1>0, <1>1, <1>3, <1>4, <2>2, <2>3, <2>4
         DEF CoverInvariant, TypeInvariant, TasksInvariant, Fits
    <3>. QED BY <2>3, <3>1, CoveredStays
  <2>5. ASSUME wired', swept' # Null, swept'.since = since, swept'.until = until
        PROVE  Covered(since, until, <<>>)'
    <3>1. Covered(since, until, <<>>) /\ until <= now
      BY <2>3, <2>5 DEF CoverInvariant, TypeInvariant, MemoryInvariant
    <3>. QED BY <2>3, <3>1, CoveredStays
  <2>. QED BY <2>4, <2>5
<1>. QED BY <1>6, <1>7, <1>8

LEMMA CoverInsert ==
  ASSUME TypeInvariant, CoverInvariant, InsertSegment("recover")
  PROVE  CoverInvariant'
<1>. DEFINE t == tasks["recover"]
            row == NewRow("recovered", Head(t.todo))
            task == [t EXCEPT !.pc = "check", !.todo = Tail(t.todo), !.made = t.made + 1]
<1>0. "recover" \in Kinds
  BY DEF Kinds
<1>1. t.pc = "insert" /\ t \in Task /\ Fits("recover", t)
  BY <1>0 DEF InsertSegment, TypeInvariant, TasksInvariant
<1>2. t \in Searches /\ t.todo # <<>> /\ \A i \in DOMAIN t.todo : Placed(t.todo[i])
  BY <1>1, TaskIs DEF Fits
<1>3. PICK todo : todo = t.todo
  OBVIOUS
<1>4. todo \in Seq(Legs) /\ todo # <<>> /\ Head(todo) = todo[1]
      /\ Placed(todo[1]) /\ todo[1] \in Legs
  <2>1. todo \in Seq(Legs) /\ todo # <<>>
    BY <1>2, <1>3 DEF Searches, Fields, Legs
  <2>. QED BY <1>2, <1>3, <2>1, TodoTail
<1>5. /\ UNCHANGED <<car, swept, raced>> /\ rows' = rows \cup {row}
      /\ tasks' = [Outdated("recover") EXCEPT !["recover"] = task]
  BY DEF InsertSegment, Inserts
<1>6. /\ task.todo = Tail(todo)
      /\ task.since = t.since /\ task.until = t.until
  BY <1>2, <1>3 DEF Searches, Fields
<1>7. tasks'["recover"] = task
  <2>. HIDE DEF task
  <2>. QED BY <1>0, <1>5, OutdatedIs DEF TypeInvariant
<1>8. Overlaps(todo[1].start, todo[1].end)'
  <2>1. row.start = todo[1].start /\ row.end = todo[1].end
    BY <1>3, <1>4 DEF NewRow
  <2>2. /\ todo[1].start \in Int /\ todo[1].end \in Int /\ Tolerance \in Nat
        /\ todo[1].start <= todo[1].end
    BY <1>4, ConstantsAssumption DEF Legs, Instants, Placed
  <2>3. /\ row.start <= todo[1].end + Tolerance
        /\ row.end >= todo[1].start - Tolerance
    BY <2>1, <2>2
  <2>4. row \in rows'
    BY <1>5
  <2>. HIDE DEF row
  <2>. QED BY <2>3, <2>4 DEF Overlaps
<1>. HIDE DEF task, row
<1>9. PICK next : next = task
  OBVIOUS
<1>. QED BY <1>1, <1>3, <1>4, <1>5, <1>6, <1>7, <1>8, <1>9, CoverTail

LEMMA CoverSearched ==
  ASSUME TypeInvariant, CoverInvariant, Searched("recover")
  PROVE  CoverInvariant'
<1>. DEFINE t == tasks["recover"]
<1>0. "recover" \in Kinds
  BY DEF Kinds
<1>1. t.pc = "check" /\ t \in Task /\ t.todo = <<>>
  BY <1>0 DEF Searched, TypeInvariant, TasksInvariant
<1>2. t \in Searches
  BY <1>1, TaskIs
<1>3. tasks'["recover"].pc \notin {"check", "insert"}
  <2>1. /\ Idle.pc = "idle"
        /\ [pc |-> "assign", read |-> Newest(rows), fresh |-> TRUE].pc = "assign"
    BY PlainPending
  <2>2. \/ tasks'["recover"] = Idle
        \/ tasks'["recover"] = [pc |-> "assign", read |-> Newest(rows), fresh |-> TRUE]
    BY <1>0 DEF Searched, TypeInvariant, TasksInvariant
  <2>. QED BY <2>1, <2>2
<1>4. /\ UNCHANGED <<car, rows, raced>>
      /\ \/ swept' = swept
         \/ ~raced /\ swept' = [since |-> t.since, until |-> t.until]
  BY DEF Searched
<1>5. CarFits /\ Onward /\ wired' = wired
  BY <1>4, CarOnward DEF TypeInvariant, CarInvariant
<1>6. CASE swept' = swept
  BY <1>3, <1>4, <1>5, <1>6, CoverKept
<1>7. CASE ~raced /\ swept' = [since |-> t.since, until |-> t.until]
  <2>. SUFFICES ASSUME NEW since \in Instants, NEW until \in Instants, wired',
                       swept'.since = since, swept'.until = until
                PROVE  Covered(since, until, <<>>)'
    BY <1>3 DEF CoverInvariant
  <2>1. t.since = since /\ t.until = until
    BY <1>7
  <2>2. <<>> \in Seq(Legs)
    BY EmptySeq
  <2>3. Covered(since, until, <<>>)
    BY <1>1, <1>5, <1>7, <2>1, <2>2 DEF CoverInvariant
  <2>4. until <= now
    BY <1>0, <1>1, <2>1 DEF TypeInvariant, TasksInvariant, Fits
  <2>. QED BY <1>4, <1>5, <2>3, <2>4, CoveredStays
<1>. QED BY <1>4, <1>6, <1>7

\* Rows leave: no recovery was run on its own, and none is remembered.
LEMMA CoverRemoves ==
  ASSUME TypeInvariant, CoverInvariant, NEW k \in {"delete", "purge"}, NEW gone,
         Removes(k, gone)
  PROVE  CoverInvariant'
<1>1. k \in Kinds /\ "recover" \in Kinds /\ k # "recover"
  BY DEF Kinds
<1>2. /\ swept' = Null /\ raced' = (raced \/ InFlight # {})
      /\ tasks' \in {[Outdated(k) EXCEPT ![k] = Idle],
                     [Outdated(k) EXCEPT ![k] = [pc |-> "look"]]}
  BY DEF Removes, Alone
<1>3. tasks'["recover"].pc = tasks["recover"].pc
  BY <1>1, <1>2, OutdatedIs DEF TypeInvariant
<1>4. tasks["recover"].pc \in {"check", "insert"} => raced'
  <2>1. tasks["recover"].pc \in {"check", "insert"} => tasks["recover"] # Idle
    BY PlainPending
  <2>. QED BY <1>1, <1>2, <2>1 DEF InFlight
<1>. QED BY <1>2, <1>3, <1>4 DEF CoverInvariant
-----------------------------------------------------------------------------
\* Steps at which the tasks stand still, or of the car.
LEMMA CoverStill ==
  ASSUME TypeInvariant, CoverInvariant, UNCHANGED <<rows, wired, swept, tasks, raced>>,
         Onward
  PROVE  CoverInvariant'
BY CoverKept

LEMMA CoverTrip ==
  ASSUME TypeInvariant, CoverInvariant, TripOpens \/ TripCloses
  PROVE  CoverInvariant'
<1>1. UNCHANGED <<car, rows, swept>> /\ (raced => raced')
  BY DEF TripOpens, TripCloses, Alone
<1>2. tasks'["recover"] = tasks["recover"]
  BY DEF TripOpens, TripCloses, Start, TypeInvariant, TasksInvariant, Kinds
<1>3. Onward /\ UNCHANGED <<wired, swept>>
  BY <1>1, CarOnward
<1>. QED BY <1>1, <1>2, <1>3, CoverKept

LEMMA CoverNext == TypeInvariant /\ CoverInvariant /\ [Next]_vars => CoverInvariant'
<1>. SUFFICES ASSUME TypeInvariant, CoverInvariant, [Next]_vars PROVE CoverInvariant'
  OBVIOUS
<1>1. CASE UNCHANGED vars
  <2>1. UNCHANGED <<rows, wired, swept, tasks, raced>> /\ Onward
    BY <1>1, CarOnward DEF vars
  <2>. QED BY <2>1, CoverStill
<1>2. ASSUME NEW w \in Windows, Recover(w[1], w[2])
      PROVE  CoverInvariant'
  <2>1. w[1] \in Instants /\ w[2] \in Instants
    BY ConstantsAssumption DEF Instants
  <2>. QED BY <1>2, <2>1, CoverRecover
<1>3. ASSUME NEW w \in Windows, Purge(w[1], w[2])
      PROVE  CoverInvariant'
  BY <1>3, CoverRemoves DEF Purge
<1>4. ASSUME NEW s \in Spans, LogManual(s[1], s[2])
      PROVE  CoverInvariant'
  <2>1. PICK task : task = [pc |-> "store", start |-> s[1], end |-> s[2],
                            from |-> 0, upto |-> 0, fresh |-> TRUE]
    OBVIOUS
  <2>2. tasks' = [tasks EXCEPT !["manual"] = task]
    BY <1>4, <2>1 DEF LogManual, Start
  <2>3. UNCHANGED <<car, swept, rows>> /\ (raced => raced') /\ "manual" \in Kinds
    BY <1>4 DEF LogManual, Alone, Kinds
  <2>. QED BY <2>2, <2>3, CoverOther
<1>5. ASSUME NEW k \in Kinds \ {"recover"}, Check(k)
      PROVE  CoverInvariant'
  <2>1. PICK task : tasks' = [tasks EXCEPT ![k] = task]
    BY <1>5 DEF Check
  <2>2. UNCHANGED <<car, swept, rows, raced>>
    BY <1>5 DEF Check
  <2>. QED BY <2>1, <2>2, CoverOther
<1>6. ASSUME NEW k \in Kinds \ {"recover"}, InsertSegment(k)
      PROVE  CoverInvariant'
  <2>1. PICK task : tasks' = [Outdated(k) EXCEPT ![k] = task]
    BY <1>6 DEF InsertSegment, Inserts
  <2>2. UNCHANGED <<car, swept, raced>> /\ rows \subseteq rows'
    BY <1>6 DEF InsertSegment, Inserts
  <2>. QED BY <2>1, <2>2, CoverOther
<1>7. ASSUME NEW k \in Kinds \ {"recover"}, Searched(k)
      PROVE  CoverInvariant'
  <2>1. PICK task : tasks' = [tasks EXCEPT ![k] = task]
    BY <1>7 DEF Searched
  <2>2. UNCHANGED <<car, swept, rows, raced>>
    BY <1>7 DEF Searched
  <2>. QED BY <2>1, <2>2, CoverOther
<1>8. ASSUME Check("recover") \/ InsertSegment("recover") \/ Searched("recover")
      PROVE  CoverInvariant'
  BY <1>8, CoverCheck, CoverInsert, CoverSearched
<1>9. ASSUME NEW k \in Kinds, Assign(k) \/ Adopt(k)
      PROVE  CoverInvariant'
  <2>1. tasks' = [tasks EXCEPT ![k] = Idle] /\ UNCHANGED <<car, swept, rows, raced>>
    BY <1>9 DEF Assign, Adopt
  <2>. QED BY <2>1, PlainPending, CoverOther
<1>10. ASSUME NEW k \in Kinds, Look(k)
       PROVE  CoverInvariant'
  <2>1. PICK task : task = [pc |-> "assign", read |-> Newest(rows), fresh |-> TRUE]
    OBVIOUS
  <2>2. tasks' = [tasks EXCEPT ![k] = task] /\ UNCHANGED <<car, swept, rows, raced>>
    BY <1>10, <2>1 DEF Look
  <2>3. task.pc = "assign"
    BY <2>1
  <2>. QED BY <2>2, <2>3, CoverOther
<1>11. ASSUME NEW k \in Kinds, Store(k)
       PROVE  CoverInvariant'
  <2>. DEFINE adopt == [pc |-> "adopt", row |-> NewRow(k, tasks[k]),
                        fresh |-> k # "live" \/ tasks[k].fresh]
  <2>0. tasks' = [Outdated(k) EXCEPT ![k] = adopt] /\ adopt.pc = "adopt"
    BY <1>11 DEF Store, Inserts
  <2>. HIDE DEF adopt
  <2>1. PICK task : tasks' = [Outdated(k) EXCEPT ![k] = task] /\ task.pc = "adopt"
    BY <2>0
  <2>2. UNCHANGED <<car, swept, raced>> /\ rows \subseteq rows'
    BY <1>11 DEF Store, Inserts
  <2>. QED BY <2>1, <2>2, CoverOther
<1>12. CASE InsertOrphan
  <2>1. PICK task : tasks' = [Outdated("orphan") EXCEPT !["orphan"] = task]
    BY <1>12 DEF InsertOrphan, Inserts
  <2>2. UNCHANGED <<car, swept, raced>> /\ rows \subseteq rows' /\ "orphan" \in Kinds
    BY <1>12 DEF InsertOrphan, Inserts, Kinds
  <2>. QED BY <2>1, <2>2, CoverOther
<1>13. CASE OrphanRejected
  <2>1. /\ tasks' = [tasks EXCEPT !["orphan"] = Idle] /\ "orphan" \in Kinds
        /\ UNCHANGED <<car, swept, rows, raced>>
    BY <1>13 DEF OrphanRejected, Kinds
  <2>. QED BY <2>1, CoverOther
<1>14. CASE TripOpens \/ TripCloses
  BY <1>14, CoverTrip
<1>15. CASE DeleteLast
  BY <1>15, CoverRemoves DEF DeleteLast
<1>16. CASE Restart
  <2>1. UNCHANGED <<car, rows, raced, swept>> /\ tasks'["recover"] = Idle
    BY <1>16 DEF Restart, Kinds
  <2>2. Onward /\ UNCHANGED <<wired, swept>>
    BY <2>1, CarOnward
  <2>. QED BY <2>1, <2>2, PlainPending, CoverKept
<1>17. CASE TurnsOn \/ TurnsOff
  BY <1>17, CoverStill DEF TurnsOn, TurnsOff, Onward
<1>18. ASSUME NEW sampled \in BOOLEAN, Tick(sampled)
       PROVE  CoverInvariant'
  <2>1. Onward
    BY <1>18 DEF Tick, Onward
  <2>. QED BY <1>18, <2>1, CoverStill DEF Tick
<1>. QED BY <1>1, <1>2, <1>3, <1>4, <1>5, <1>6, <1>7, <1>8, <1>9, <1>10, <1>11, <1>12,
            <1>13, <1>14, <1>15, <1>16, <1>17, <1>18 DEF Next

LEMMA InitCovers == Init => CoverInvariant
<1>1. Init => tasks["recover"] = Idle /\ swept = Null
  BY DEF Init, Kinds
<1>2. Idle.pc = "idle"
  BY PlainPending
<1>. QED BY <1>1, <1>2 DEF CoverInvariant

LEMMA CoverCovers == TypeInvariant /\ CoverInvariant => RecoveryCovers
<1>. SUFFICES ASSUME TypeInvariant, CoverInvariant, wired, swept # Null,
                     NEW d \in Drives(swept.since, swept.until),
                     Reading(d.end) - Reading(d.start) >= MinDistance
              PROVE  Overlaps(d.start, d.end)
  BY DEF RecoveryCovers
<1>1. Covered(swept.since, swept.until, <<>>)
  BY DEF CoverInvariant, TypeInvariant, MemoryInvariant
<1>2. DOMAIN <<>> = {}
  BY EmptySeq, LenProperties
<1>. QED BY <1>1, <1>2 DEF Covered

\* A recovery that has run on its own leaves no drive of its window, whose
\* kilometres the recorder saw grow while the car was on, without a row within
\* the tolerance, until rows are removed: for every window, tolerance and
\* distance, with any rows there before.
THEOREM RecoveryLeavesNoGap == Spec => []RecoveryCovers
<1>1. Init => TypeInvariant /\ CoverInvariant
  BY InitTyped, InitCovers
<1>2. (TypeInvariant /\ CoverInvariant) /\ [Next]_vars => (TypeInvariant /\ CoverInvariant)'
  BY NextTyped, CoverNext
<1>3. TypeInvariant /\ CoverInvariant => RecoveryCovers
  BY CoverCovers
<1>. QED BY <1>1, <1>2, <1>3, PTL DEF Spec
-----------------------------------------------------------------------------
(***************************************************************************)
(* Kilometres.  The inductive invariant says what a coroutine that has the *)
(* rows to itself knows of them: an orphan starts past every row, a live   *)
(* trip too, and the segment to be inserted overlaps none.                 *)
(***************************************************************************)
Under(T, km) == \A r \in T : r.upto <= km

\* A row carries the readings at its ends; an orphan starts where the row
\* before it ended, and a manual row carries none.
Gauged(r) ==
  IF r.kind = "manual" THEN r.from = 0 /\ r.upto = 0
  ELSE /\ r.upto = Reading(r.end) /\ r.from <= r.upto
       /\ r.kind = "orphan" \/ r.from = Reading(r.start)

Distinct(r, q) ==
  r = q \/ Beside(r, q) \/ RecoveredAgain(r, q) \/ RecoveredAgain(q, r)

\* What a task that has the rows to itself knows of them.
Foresees(k, t) ==
  /\ t.pc \in {"assign", "adopt", "store"} => t.fresh
  /\ t.pc \in {"check", "insert", "orphan"} =>
       /\ current # Null => t.until <= current.start
       /\ \A i \in DOMAIN t.todo : Cut(t.todo[i], t.until)
       /\ t.pc = "insert" => ~Overlaps(t.todo[1].start, t.todo[1].end)
       /\ t.pc = "orphan" => t.made = 0
       /\ k = "orphan" /\ t.made = 0 =>
            Under(rows, t.last.upto) /\ t.last.upto <= Reading(t.until)
  /\ t.pc = "store" /\ k = "live" =>
       /\ t.from = Reading(t.start) /\ t.upto = Reading(t.end)
       /\ Under(rows, t.from)
       /\ current # Null => t.upto <= current.from
  /\ t.pc = "store" /\ k = "manual" => t.from = 0 /\ t.upto = 0

KmInvariant ==
  ~raced =>
    /\ ~stale
    /\ \A j, k \in InFlight : j = k
    /\ \A r \in rows : Gauged(r)
    /\ \A r, q \in rows : Distinct(r, q)
    /\ current # Null =>
         current.from = Reading(current.start) /\ Under(rows, current.from)
    /\ \A k \in Kinds : Foresees(k, tasks[k])

LEMMA ReadingGrows ==
  ASSUME CarFits, NEW a \in Instants, NEW b \in Instants, a <= b
  PROVE  Reading(a) <= Reading(b)
<1>. DEFINE Samples(t) == {r \in reported : r <= t}
            Past(m) == {u \in driven : u < m}
<1>1. /\ a \in Nat /\ b \in Nat /\ MaxTime \in Nat /\ now \in Nat /\ now <= MaxTime
      /\ a <= MaxTime /\ b <= MaxTime
  BY ConstantsAssumption DEF Instants, CarFits
<1>2. 0 \in reported /\ \A r \in reported : r \in 0..MaxTime
  <2>1. \A r \in reported : r \in 0..now
    BY DEF CarFits
  <2>. QED BY <1>1, <2>1 DEF CarFits
<1>3. /\ Samples(a) \subseteq 0..MaxTime /\ Samples(a) # {}
      /\ Samples(b) \subseteq 0..MaxTime /\ Samples(b) # {}
      /\ Samples(a) \subseteq Samples(b)
  BY <1>1, <1>2
<1>4. PICK m, n : m = Max(Samples(a)) /\ n = Max(Samples(b))
  OBVIOUS
<1>5. m \in Samples(a) /\ n \in Samples(b) /\ \A y \in Samples(b) : y <= n
  <2>. HIDE DEF Samples
  <2>. QED BY <1>1, <1>3, <1>4, MaxIs
<1>6. m \in 0..MaxTime /\ n \in 0..MaxTime /\ m <= n
  BY <1>3, <1>5
<1>7. Past(m) \subseteq Past(n) /\ Past(n) \subseteq 0..(n - 1)
  <2>1. \A u \in driven : u \in Nat
    BY <1>1 DEF CarFits
  <2>. QED BY <1>6, <2>1
<1>8. IsFiniteSet(Past(n)) /\ Cardinality(Past(m)) <= Cardinality(Past(n))
  <2>1. IsFiniteSet(0..(n - 1))
    BY <1>6, FS_Interval
  <2>2. IsFiniteSet(Past(n))
    BY <1>7, <2>1, FS_Subset
  <2>. HIDE DEF Past
  <2>. QED BY <1>7, <2>2, FS_Subset
<1>9. Reading(a) = Cardinality(Past(m)) /\ Reading(b) = Cardinality(Past(n))
  BY <1>4 DEF Reading, Odometer
<1>. QED BY <1>8, <1>9

\* A segment that no row overlaps is beside every row that is no orphan.
LEMMA BesideOverlap ==
  ASSUME TypeInvariant, NEW a \in Instants, NEW b \in Instants, a <= b,
         ~Overlaps(a, b), NEW r \in rows, Gauged(r), r.kind # "orphan"
  PROVE  r.upto <= Reading(a) \/ Reading(b) <= r.from
<1>1. CarFits /\ r \in Row /\ r.start <= r.end
  BY DEF TypeInvariant, CarInvariant, TableInvariant, Table
<1>2. r.start \in Instants /\ r.end \in Instants
  BY <1>1 DEF Row
<1>3. ~(r.start <= b + Tolerance /\ r.end >= a - Tolerance)
  BY DEF Overlaps
<1>4. a \in Nat /\ b \in Nat /\ r.start \in Nat /\ r.end \in Nat /\ Tolerance \in Nat
  BY <1>2, ConstantsAssumption DEF Instants
<1>5. r.end <= a \/ b <= r.start
  BY <1>3, <1>4
<1>6. CASE r.kind = "manual"
  <2>1. Reading(a) \in Nat
    BY <1>1, ReadingType, ConstantsAssumption DEF Instants
  <2>. QED BY <1>6, <2>1 DEF Gauged
<1>7. CASE r.kind # "manual"
  <2>1. r.upto = Reading(r.end) /\ r.from = Reading(r.start)
    BY <1>7 DEF Gauged
  <2>. QED BY <1>1, <1>2, <1>5, <2>1, ReadingGrows
<1>. QED BY <1>6, <1>7

\* Every row ends before a reading taken later.
LEMMA UnderReading ==
  ASSUME TypeInvariant, \A r \in rows : Gauged(r), NEW t \in Instants,
         \A r \in rows : r.end <= t
  PROVE  Under(rows, Reading(t))
<1>. SUFFICES ASSUME NEW r \in rows PROVE r.upto <= Reading(t)
  BY DEF Under
<1>1. CarFits /\ r.end \in Instants /\ r.end <= t /\ Gauged(r)
  BY DEF TypeInvariant, CarInvariant, TableInvariant, Table, Row
<1>2. Reading(t) \in Nat
  BY <1>1, ReadingType, ConstantsAssumption DEF Instants
<1>3. Reading(r.end) <= Reading(t)
  BY <1>1, ReadingGrows
<1>. QED BY <1>1, <1>2, <1>3 DEF Gauged
-----------------------------------------------------------------------------
LEMMA ForeseesIdle ==
  ASSUME NEW k
  PROVE  Foresees(k, Idle) /\ Foresees(k, Idle)' /\ Foresees(k, [pc |-> "look"])'
<1>1. Idle.pc = "idle"
  BY DEF Idle
<1>. QED BY <1>1 DEF Foresees

\* Nothing a task knows of has changed.
LEMMA ForeseesSame ==
  ASSUME UNCHANGED <<car, rows, current>>, NEW k, NEW t, Foresees(k, t)
  PROVE  Foresees(k, t)'
BY DEF Foresees, Under, Cut, Segment, Overlaps, Reading, Odometer, car

LEMMA GaugedSame ==
  ASSUME UNCHANGED car
  PROVE  /\ \A r : Gauged(r)' <=> Gauged(r)
         /\ \A t : Reading(t)' = Reading(t)
BY DEF Gauged, Reading, Odometer, car

\* A step of one coroutine that leaves the table alone.
LEMMA KmTask ==
  ASSUME TypeInvariant, KmInvariant, UNCHANGED <<car, rows, current, raced>>,
         NEW k \in Kinds, tasks[k] # Idle, NEW task,
         tasks' = [tasks EXCEPT ![k] = task],
         ~raced => ~stale' /\ Foresees(k, task)
  PROVE  KmInvariant'
<1>. SUFFICES ASSUME ~raced' PROVE KmInvariant'
  BY DEF KmInvariant
<1>1. ~raced
  OBVIOUS
<1>2. tasks'[k] = task /\ \A j \in Kinds \ {k} : tasks'[j] = tasks[j]
  BY DEF TypeInvariant, TasksInvariant
<1>3. ~stale' /\ Foresees(k, task)
  BY <1>1
<1>4. \A i, j \in InFlight' : i = j
  <2>1. InFlight' \subseteq InFlight
    BY <1>2 DEF InFlight
  <2>. QED BY <1>1, <2>1 DEF KmInvariant
<1>5. \A j \in Kinds : Foresees(j, tasks[j])'
  <2>. SUFFICES ASSUME NEW j \in Kinds PROVE Foresees(j, tasks[j])'
    OBVIOUS
  <2>1. PICK t : t = tasks'[j] /\ Foresees(j, t)
    BY <1>1, <1>2, <1>3 DEF KmInvariant
  <2>2. Foresees(j, t)'
    BY <2>1, ForeseesSame
  <2>. QED BY <2>1, <2>2 DEF Foresees
<1>6. \A r \in rows' : Gauged(r)'
  BY <1>1, GaugedSame DEF KmInvariant
<1>7. current' # Null =>
        current'.from = Reading(current.start)' /\ Under(rows, current.from)'
  BY <1>1, GaugedSame DEF KmInvariant, Under
<1>8. \A r, q \in rows' : Distinct(r, q)'
  BY <1>1 DEF KmInvariant, Distinct, Beside, RecoveredAgain
<1>. QED BY <1>3, <1>4, <1>5, <1>6, <1>7, <1>8 DEF KmInvariant

\* One coroutine writes a row.
LEMMA KmInsert ==
  ASSUME TypeInvariant, KmInvariant, UNCHANGED <<car, current, stale, raced>>,
         NEW k \in Kinds, tasks[k] # Idle, NEW row, rows' = rows \cup {row},
         NEW task, tasks' = [Outdated(k) EXCEPT ![k] = task],
         ~raced =>
           /\ Gauged(row) /\ \A r \in rows : Beside(r, row) \/ RecoveredAgain(r, row)
           /\ current # Null => row.upto <= current.from
           /\ Foresees(k, task)'
  PROVE  KmInvariant'
<1>. SUFFICES ASSUME ~raced' PROVE KmInvariant'
  BY DEF KmInvariant
<1>1. ~raced
  OBVIOUS
<1>2. tasks'[k] = task /\ \A j \in Kinds \ {k} : tasks'[j] = Idle
  <2>1. \A j \in Kinds \ {k} : tasks[j] = Idle
    BY <1>1 DEF KmInvariant, InFlight
  <2>. QED BY <2>1, OutdatedIs DEF TypeInvariant
<1>3. /\ Gauged(row) /\ \A r \in rows : Beside(r, row) \/ RecoveredAgain(r, row)
      /\ current # Null => row.upto <= current.from
      /\ Foresees(k, task)'
  BY <1>1
<1>4. \A i, j \in InFlight' : i = j
  BY <1>2 DEF InFlight
<1>5. \A j \in Kinds : Foresees(j, tasks[j])'
  <2>. SUFFICES ASSUME NEW j \in Kinds PROVE Foresees(j, tasks[j])'
    OBVIOUS
  <2>1. PICK t : t = tasks'[j] /\ Foresees(j, t)'
    BY <1>2, <1>3, ForeseesIdle
  <2>. QED BY <2>1 DEF Foresees
<1>6. \A r \in rows' : Gauged(r)'
  BY <1>1, <1>3, GaugedSame DEF KmInvariant
<1>7. current' # Null =>
        current'.from = Reading(current.start)' /\ Under(rows, current.from)'
  BY <1>1, <1>3, GaugedSame DEF KmInvariant, Under
<1>8. \A r, q \in rows' : Distinct(r, q)'
  <2>1. \A r, q \in rows : Distinct(r, q)
    BY <1>1 DEF KmInvariant
  <2>2. \A r \in rows : Distinct(r, row) /\ Distinct(row, r)
    BY <1>3 DEF Distinct, Beside
  <2>. QED BY <2>1, <2>2 DEF Distinct, Beside, RecoveredAgain
<1>9. ~stale'
  BY <1>1 DEF KmInvariant
<1>. QED BY <1>9, <1>4, <1>5, <1>6, <1>7, <1>8 DEF KmInvariant

LEMMA KmCheck ==
  ASSUME TypeInvariant, KmInvariant, NEW k \in Kinds, Check(k)
  PROVE  KmInvariant'
<1>. DEFINE t == tasks[k]
            skipped == [t EXCEPT !.todo = Tail(t.todo)]
            next == [t EXCEPT !.pc = "insert"]
            s == Head(t.todo)
<1>1. /\ t.pc = "check" /\ t.todo # <<>> /\ t \in Searches /\ t # Idle
      /\ t.todo \in Seq(Legs) /\ \A i \in DOMAIN t.todo : Placed(t.todo[i])
  <2>1. t.pc = "check" /\ t.todo # <<>> /\ t \in Task /\ Fits(k, t)
    BY DEF Check, TypeInvariant, TasksInvariant
  <2>2. t \in Searches
    BY <2>1, TaskIs
  <2>. QED BY <2>1, <2>2 DEF Searches, Fields, Legs, Fits, Idle
<1>2. /\ s = t.todo[1]
      /\ \A i \in DOMAIN Tail(t.todo) : \E j \in DOMAIN t.todo : Tail(t.todo)[i] = t.todo[j]
  <2>1. Head(t.todo) = t.todo[1]
    BY <1>1, TodoTail
  <2>2. Len(t.todo) \in Nat /\ DOMAIN t.todo = 1..Len(t.todo)
        /\ Tail(t.todo) \in Seq(Legs) /\ Len(Tail(t.todo)) = Len(t.todo) - 1
        /\ \A i \in 1..Len(Tail(t.todo)) : Tail(t.todo)[i] = t.todo[i + 1]
    BY <1>1, HeadTailProperties, LenProperties
  <2>3. DOMAIN Tail(t.todo) = 1..(Len(t.todo) - 1)
    BY <2>2, LenProperties
  <2>4. ASSUME NEW i \in DOMAIN Tail(t.todo)
        PROVE  \E j \in DOMAIN t.todo : Tail(t.todo)[i] = t.todo[j]
    <3>1. i + 1 \in DOMAIN t.todo /\ Tail(t.todo)[i] = t.todo[i + 1]
      BY <2>2, <2>3
    <3>. QED BY <3>1
  <2>. QED BY <2>1, <2>4
<1>3. /\ skipped.pc = "check" /\ skipped.todo = Tail(t.todo) /\ skipped.made = t.made
      /\ skipped.until = t.until /\ skipped.last = t.last
      /\ next.pc = "insert" /\ next.todo = t.todo /\ next.made = t.made
      /\ next.until = t.until /\ next.last = t.last
  BY <1>1 DEF Searches, Fields
<1>4. \/ Overlaps(s.start, s.end) /\ tasks' = [tasks EXCEPT ![k] = skipped]
      \/ ~Overlaps(s.start, s.end) /\ tasks' = [tasks EXCEPT ![k] = next]
  BY DEF Check
<1>5. UNCHANGED <<car, rows, current, raced, stale>>
  BY DEF Check
<1>6. ~raced => ~stale' /\ Foresees(k, t)
  BY <1>5 DEF KmInvariant
<1>. HIDE DEF skipped, next
<1>7. Foresees(k, t) => Foresees(k, skipped)
  BY <1>1, <1>2, <1>3 DEF Foresees
<1>8. Foresees(k, t) /\ ~Overlaps(s.start, s.end) => Foresees(k, next)
  BY <1>1, <1>2, <1>3 DEF Foresees
<1>. QED BY <1>1, <1>4, <1>5, <1>6, <1>7, <1>8, KmTask

LEMMA KmSearched ==
  ASSUME TypeInvariant, KmInvariant, NEW k \in Kinds, Searched(k)
  PROVE  KmInvariant'
<1>. DEFINE t == tasks[k]
            orphan == [t EXCEPT !.pc = "orphan"]
            assign == [pc |-> "assign", read |-> Newest(rows), fresh |-> TRUE]
<1>1. t.pc = "check" /\ t \in Searches /\ t # Idle
  <2>1. t.pc = "check" /\ t \in Task
    BY DEF Searched, TypeInvariant, TasksInvariant
  <2>. QED BY <2>1, TaskIs DEF Idle
<1>2. /\ orphan.pc = "orphan" /\ orphan.todo = t.todo /\ orphan.made = t.made
      /\ orphan.until = t.until /\ orphan.last = t.last /\ t.made \in Nat
  BY <1>1 DEF Searches, Fields
<1>3. \/ tasks' = [tasks EXCEPT ![k] = assign]
      \/ ~(t.made > 0) /\ tasks' = [tasks EXCEPT ![k] = orphan]
      \/ tasks' = [tasks EXCEPT ![k] = Idle]
  BY DEF Searched
<1>4. UNCHANGED <<car, rows, current, raced, stale>>
  BY DEF Searched
<1>5. ~raced => ~stale' /\ Foresees(k, t)
  BY <1>4 DEF KmInvariant
<1>6. Foresees(k, assign)
  BY DEF Foresees
<1>. HIDE DEF orphan, assign
<1>7. Foresees(k, t) /\ ~(t.made > 0) => Foresees(k, orphan)
  BY <1>1, <1>2 DEF Foresees
<1>. QED BY <1>1, <1>3, <1>4, <1>5, <1>6, <1>7, ForeseesIdle, KmTask

\* The memory takes a row a coroutine has written, or the newest.
LEMMA KmAssign ==
  ASSUME TypeInvariant, KmInvariant, NEW k \in Kinds,
         Assign(k) \/ Adopt(k) \/ Look(k)
  PROVE  KmInvariant'
<1>1. tasks[k] # Idle /\ UNCHANGED <<car, rows, current, raced>>
  BY DEF Assign, Adopt, Look, Idle
<1>2. ~raced => ~stale /\ Foresees(k, tasks[k])
  BY DEF KmInvariant
<1>3. CASE Assign(k) \/ Adopt(k)
  <2>1. tasks' = [tasks EXCEPT ![k] = Idle]
    BY <1>3 DEF Assign, Adopt
  <2>2. ~raced => ~stale'
    BY <1>2, <1>3 DEF Assign, Adopt, Foresees
  <2>. QED BY <1>1, <2>1, <2>2, ForeseesIdle, KmTask
<1>4. CASE Look(k)
  <2>1. PICK task : task = [pc |-> "assign", read |-> Newest(rows), fresh |-> TRUE]
    OBVIOUS
  <2>2. tasks' = [tasks EXCEPT ![k] = task] /\ stale' = stale
    BY <1>4, <2>1 DEF Look
  <2>3. Foresees(k, task)
    BY <2>1 DEF Foresees
  <2>. QED BY <1>1, <1>2, <2>2, <2>3, KmTask
<1>. QED BY <1>3, <1>4

LEMMA KmRejected ==
  ASSUME TypeInvariant, KmInvariant, OrphanRejected
  PROVE  KmInvariant'
<1>1. /\ "orphan" \in Kinds /\ tasks["orphan"] # Idle
      /\ tasks' = [tasks EXCEPT !["orphan"] = Idle]
      /\ UNCHANGED <<car, rows, current, raced, stale>>
  BY DEF OrphanRejected, Idle, Kinds
<1>2. ~raced => ~stale'
  BY <1>1 DEF KmInvariant
<1>. QED BY <1>1, <1>2, ForeseesIdle, KmTask
-----------------------------------------------------------------------------
\* What the steps that write do to the rows.
LEMMA RowType ==
  ASSUME TypeInvariant, NEW r \in rows
  PROVE  /\ r \in Row /\ r.from \in Nat /\ r.upto \in Nat /\ r.id < nextId
         /\ r.start \in Instants /\ r.end \in Instants /\ r.start <= r.end
         /\ r.end <= now
<1>1. r \in Row /\ r.start <= r.end /\ r.end <= now /\ r.id < nextId
  BY DEF TypeInvariant, TableInvariant, Table
<1>. QED BY <1>1, ConstantsAssumption DEF Row, Instants

LEMMA KmInsertSegment ==
  ASSUME TypeInvariant, KmInvariant, NEW k \in Kinds, InsertSegment(k)
  PROVE  KmInvariant'
<1>. DEFINE t == tasks[k]
            s == Head(t.todo)
            row == NewRow("recovered", s)
            task == [t EXCEPT !.pc = "check", !.todo = Tail(t.todo), !.made = t.made + 1]
<1>1. /\ t.pc = "insert" /\ t.todo # <<>> /\ t \in Searches /\ t # Idle
      /\ t.todo \in Seq(Legs) /\ \A i \in DOMAIN t.todo : Placed(t.todo[i])
      /\ t.until \in Instants
  <2>1. t.pc = "insert" /\ t \in Task /\ Fits(k, t)
    BY DEF InsertSegment, TypeInvariant, TasksInvariant
  <2>2. t \in Searches
    BY <2>1, TaskIs
  <2>. QED BY <2>1, <2>2 DEF Searches, Fields, Legs, Fits, Idle
<1>2. /\ s = t.todo[1] /\ s \in Legs /\ 1 \in DOMAIN t.todo
      /\ \A i \in DOMAIN Tail(t.todo) : \E j \in DOMAIN t.todo : Tail(t.todo)[i] = t.todo[j]
  <2>1. Head(t.todo) = t.todo[1] /\ Head(t.todo) \in Legs
    BY <1>1, TodoTail
  <2>2. Len(t.todo) \in Nat \ {0} /\ DOMAIN t.todo = 1..Len(t.todo)
        /\ Tail(t.todo) \in Seq(Legs) /\ Len(Tail(t.todo)) = Len(t.todo) - 1
        /\ \A i \in 1..Len(Tail(t.todo)) : Tail(t.todo)[i] = t.todo[i + 1]
    BY <1>1, HeadTailProperties, LenProperties, EmptySeq
  <2>3. DOMAIN Tail(t.todo) = 1..(Len(t.todo) - 1)
    BY <2>2, LenProperties
  <2>4. ASSUME NEW i \in DOMAIN Tail(t.todo)
        PROVE  \E j \in DOMAIN t.todo : Tail(t.todo)[i] = t.todo[j]
    <3>1. i + 1 \in DOMAIN t.todo /\ Tail(t.todo)[i] = t.todo[i + 1]
      BY <2>2, <2>3
    <3>. QED BY <3>1
  <2>5. 1 \in DOMAIN t.todo
    BY <2>2
  <2>. QED BY <2>1, <2>4, <2>5
<1>3. /\ task.pc = "check" /\ task.todo = Tail(t.todo) /\ task.made = t.made + 1
      /\ task.until = t.until /\ task.last = t.last /\ t.made + 1 # 0
  BY <1>1 DEF Searches, Fields
<1>4. /\ rows' = rows \cup {row} /\ tasks' = [Outdated(k) EXCEPT ![k] = task]
      /\ UNCHANGED <<car, current, raced, stale>>
  BY DEF InsertSegment, Inserts
<1>5. /\ row.id = nextId /\ row.start = s.start /\ row.end = s.end
      /\ row.from = s.from /\ row.upto = s.upto /\ row.kind = "recovered"
  BY DEF NewRow
<1>. HIDE DEF row, task
<1>7. PICK new, u, until : new = row /\ u = task /\ until = t.until
  OBVIOUS
<1>6. ASSUME ~raced
      PROVE  /\ Gauged(row) /\ \A r \in rows : Beside(r, row) \/ RecoveredAgain(r, row)
             /\ current # Null => row.upto <= current.from
             /\ Foresees(k, u)'
  <2>1. Foresees(k, t) /\ (\A r \in rows : Gauged(r))
        /\ (current # Null => current.from = Reading(current.start))
    BY <1>6 DEF KmInvariant
  <2>2. ~Overlaps(s.start, s.end) /\ Cut(s, t.until)
    BY <1>1, <1>2, <2>1 DEF Foresees
  <2>3. PICK a, b \in Instants : a <= b /\ b <= t.until /\ s = Segment(a, b)
    BY <2>2 DEF Cut
  <2>4. /\ s.start = a /\ s.end = b /\ s.from = Reading(a) /\ s.upto = Reading(b)
    BY <2>3 DEF Segment
  <2>5. CarFits
    BY DEF TypeInvariant, CarInvariant
  <2>6. Gauged(row)
    BY <1>5, <2>3, <2>4, <2>5, ReadingGrows DEF Gauged
  <2>7. ASSUME NEW r \in rows
        PROVE  Beside(r, row) \/ RecoveredAgain(r, row)
    <3>1. CASE r.kind = "orphan"
      BY <1>5, <3>1, RowType DEF RecoveredAgain
    <3>2. CASE r.kind # "orphan"
      <4>1. r.upto <= Reading(a) \/ Reading(b) <= r.from
        BY <2>1, <2>2, <2>3, <2>4, <3>2, BesideOverlap
      <4>. QED BY <1>5, <2>4, <4>1 DEF Beside
    <3>. QED BY <3>1, <3>2
  <2>8. current # Null => row.upto <= current.from
    <3>. SUFFICES ASSUME current # Null PROVE row.upto <= current.from
      OBVIOUS
    <3>1. current.start \in Instants /\ t.until <= current.start
      BY <1>1, <2>1 DEF Foresees, TypeInvariant, MemoryInvariant
    <3>2. b <= current.start
      BY <1>1, <2>3, <3>1, ConstantsAssumption DEF Instants
    <3>. QED BY <1>5, <2>1, <2>4, <2>5, <3>1, <3>2, ReadingGrows
  <2>9. Foresees(k, u)'
    <3>1. \A x : Cut(x, until)' <=> Cut(x, until)
      BY <1>4 DEF Cut, Segment, Reading, Odometer, car
    <3>2. current' # Null => until <= current'.start
      BY <1>1, <1>4, <1>7, <2>1 DEF Foresees
    <3>3. \A i \in DOMAIN u.todo : Cut(u.todo[i], until)
      BY <1>1, <1>2, <1>3, <1>7, <2>1 DEF Foresees
    <3>4. u.pc = "check" /\ u.made # 0 /\ u.until = until
      BY <1>3, <1>7
    <3>. QED BY <3>1, <3>2, <3>3, <3>4 DEF Foresees
  <2>. QED BY <2>6, <2>7, <2>8, <2>9
<1>. QED BY <1>1, <1>4, <1>6, <1>7, KmInsert

\* A row past all others.
LEMMA KmInsertLast ==
  ASSUME TypeInvariant, KmInvariant, UNCHANGED <<car, current, stale, raced>>,
         NEW k \in Kinds, tasks[k] # Idle, NEW row, rows' = rows \cup {row},
         tasks' = [Outdated(k) EXCEPT ![k] = [pc |-> "adopt", row |-> row, fresh |-> TRUE]],
         ~raced => /\ Gauged(row) /\ Under(rows, row.from)
                   /\ current # Null => row.upto <= current.from
  PROVE  KmInvariant'
<1>1. PICK task : task = [pc |-> "adopt", row |-> row, fresh |-> TRUE]
  OBVIOUS
<1>2. Foresees(k, task)'
  BY <1>1 DEF Foresees
<1>3. ASSUME NEW r \in rows, ~raced
      PROVE  Beside(r, row) \/ RecoveredAgain(r, row)
  BY <1>3 DEF Under, Beside
<1>. QED BY <1>1, <1>2, <1>3, KmInsert

LEMMA KmOrphan ==
  ASSUME TypeInvariant, KmInvariant, InsertOrphan
  PROVE  KmInvariant'
<1>. DEFINE t == tasks["orphan"]
            row == NewRow("orphan",
                     [start |-> Max({t.since, t.until - OrphanSpan}),
                      end |-> t.until, from |-> t.last.upto, upto |-> Reading(t.until)])
<1>1. /\ "orphan" \in Kinds /\ t # Idle /\ t.pc = "orphan"
      /\ rows' = rows \cup {row} /\ UNCHANGED <<car, current, stale, raced>>
      /\ tasks' = [Outdated("orphan") EXCEPT
                     !["orphan"] = [pc |-> "adopt", row |-> row, fresh |-> TRUE]]
  BY DEF InsertOrphan, Inserts, Idle, Kinds
<1>2. /\ row.end = t.until /\ row.from = t.last.upto /\ row.upto = Reading(t.until)
      /\ row.kind = "orphan"
  BY DEF NewRow
<1>3. t \in Searches /\ t.until \in Instants
  <2>1. t \in Task
    BY <1>1 DEF TypeInvariant, TasksInvariant
  <2>2. t \in Searches
    BY <1>1, <2>1, TaskIs
  <2>. QED BY <2>2 DEF Searches, Fields
<1>. HIDE DEF row
<1>4. ASSUME ~raced
      PROVE  /\ Gauged(row) /\ Under(rows, row.from)
             /\ current # Null => row.upto <= current.from
  <2>1. Foresees("orphan", t) /\ (current # Null => current.from = Reading(current.start))
    BY <1>1, <1>4 DEF KmInvariant
  <2>2. /\ Under(rows, t.last.upto) /\ t.last.upto <= Reading(t.until)
        /\ current # Null => t.until <= current.start
    BY <1>1, <2>1 DEF Foresees
  <2>3. Gauged(row)
    BY <1>2, <2>2 DEF Gauged
  <2>4. ASSUME current # Null PROVE row.upto <= current.from
    <3>1. current.start \in Instants /\ CarFits
      BY <2>4 DEF TypeInvariant, MemoryInvariant, CarInvariant
    <3>. QED BY <1>2, <1>3, <2>1, <2>2, <2>4, <3>1, ReadingGrows
  <2>. QED BY <1>2, <2>2, <2>3, <2>4
<1>5. PICK new : new = row
  OBVIOUS
<1>. QED BY <1>1, <1>4, <1>5, KmInsertLast

LEMMA KmStore ==
  ASSUME TypeInvariant, KmInvariant, NEW k \in Kinds, Store(k)
  PROVE  KmInvariant'
<1>. DEFINE t == tasks[k]
            row == NewRow(k, t)
            task == [pc |-> "adopt", row |-> row, fresh |-> k # "live" \/ t.fresh]
<1>1. /\ t.pc = "store" /\ t # Idle /\ t \in Stores
      /\ k \in {"live", "manual"} /\ t.start <= t.end
      /\ rows' = rows \cup {row} /\ UNCHANGED <<car, current, stale, raced>>
      /\ tasks' = [Outdated(k) EXCEPT ![k] = task]
  <2>1. t.pc = "store" /\ t \in Task /\ Fits(k, t)
    BY DEF Store, TypeInvariant, TasksInvariant
  <2>2. t \in Stores
    BY <2>1, TaskIs
  <2>. QED BY <2>1, <2>2 DEF Store, Inserts, Fits, Placed, Idle
<1>2. /\ row.start = t.start /\ row.end = t.end /\ row.from = t.from
      /\ row.upto = t.upto /\ row.kind = k
  BY DEF NewRow
<1>. HIDE DEF row
<1>5. PICK new, u : new = row /\ u = task
  OBVIOUS
<1>3. ASSUME ~raced
      PROVE  /\ Foresees(k, u)'
             /\ Gauged(row) /\ (Under(rows, row.from) \/ row.upto = 0)
             /\ current # Null => row.upto <= current.from
  <2>1. Foresees(k, t) /\ (current # Null => current.from = Reading(current.start))
    BY <1>3 DEF KmInvariant
  <2>2. CarFits /\ t.start \in Instants /\ t.end \in Instants
    BY <1>1 DEF TypeInvariant, CarInvariant, Stores
  <2>3. task.fresh /\ task.pc = "adopt"
    BY <1>1, <2>1 DEF Foresees
  <2>. HIDE DEF task
  <2>5. Foresees(k, u)'
    BY <1>5, <2>3 DEF Foresees
  <2>6. CASE k = "live"
    <3>1. /\ t.from = Reading(t.start) /\ t.upto = Reading(t.end) /\ Under(rows, t.from)
          /\ current # Null => t.upto <= current.from
      BY <1>1, <2>1, <2>6 DEF Foresees
    <3>2. t.from <= t.upto
      BY <1>1, <2>2, <3>1, ReadingGrows
    <3>3. Gauged(row)
      BY <1>2, <2>6, <3>1, <3>2 DEF Gauged
    <3>. QED BY <1>2, <2>5, <3>1, <3>3
  <2>7. CASE k = "manual"
    <3>1. t.from = 0 /\ t.upto = 0
      BY <1>1, <2>1, <2>7 DEF Foresees
    <3>2. Gauged(row)
      BY <1>2, <2>7, <3>1 DEF Gauged
    <3>3. ASSUME current # Null PROVE row.upto <= current.from
      <4>1. current.start \in Instants
        BY <3>3 DEF TypeInvariant, MemoryInvariant
      <4>2. Reading(current.start) \in Nat
        BY <2>2, <4>1, ReadingType, ConstantsAssumption DEF Instants
      <4>. QED BY <1>2, <2>1, <3>1, <3>3, <4>2
    <3>. QED BY <1>2, <2>5, <3>1, <3>2, <3>3
  <2>. QED BY <1>1, <2>6, <2>7
<1>4. ASSUME NEW r \in rows, ~raced
      PROVE  Beside(r, row) \/ RecoveredAgain(r, row)
  <2>1. Under(rows, row.from) \/ row.upto = 0
    BY <1>3, <1>4
  <2>2. r.from \in Nat
    BY RowType
  <2>. QED BY <2>1, <2>2 DEF Under, Beside
<1>. HIDE DEF task
<1>. QED BY <1>1, <1>3, <1>4, <1>5, KmInsert
-----------------------------------------------------------------------------
\* A coroutine starts with the rows to itself, or beside others.
LEMMA KmStart ==
  ASSUME TypeInvariant, KmInvariant, UNCHANGED <<car, rows, stale>>,
         NEW k \in Kinds, NEW task, tasks' = [tasks EXCEPT ![k] = task],
         ~raced' =>
           /\ ~raced /\ InFlight = {}
           /\ current' # Null => /\ current'.from = Reading(current'.start)
                                 /\ Under(rows, current'.from)
           /\ Foresees(k, task)'
  PROVE  KmInvariant'
<1>. SUFFICES ASSUME ~raced' PROVE KmInvariant'
  BY DEF KmInvariant
<1>1. /\ ~raced /\ InFlight = {}
      /\ current' # Null => /\ current'.from = Reading(current'.start)
                            /\ Under(rows, current'.from)
      /\ Foresees(k, task)'
  OBVIOUS
<1>2. tasks'[k] = task /\ \A j \in Kinds \ {k} : tasks'[j] = Idle
  BY <1>1 DEF TypeInvariant, TasksInvariant, InFlight
<1>3. \A i, j \in InFlight' : i = j
  BY <1>2 DEF InFlight
<1>4. \A j \in Kinds : Foresees(j, tasks[j])'
  <2>. SUFFICES ASSUME NEW j \in Kinds PROVE Foresees(j, tasks[j])'
    OBVIOUS
  <2>1. PICK t : t = tasks'[j] /\ Foresees(j, t)'
    BY <1>1, <1>2, ForeseesIdle
  <2>. QED BY <2>1 DEF Foresees
<1>5. \A r \in rows' : Gauged(r)'
  BY <1>1, GaugedSame DEF KmInvariant
<1>6. current' # Null =>
        current'.from = Reading(current.start)' /\ Under(rows, current.from)'
  BY <1>1, GaugedSame DEF Under
<1>7. \A r, q \in rows' : Distinct(r, q)'
  BY <1>1 DEF KmInvariant, Distinct, Beside, RecoveredAgain
<1>8. ~stale'
  BY <1>1 DEF KmInvariant
<1>. QED BY <1>3, <1>4, <1>5, <1>6, <1>7, <1>8 DEF KmInvariant

LEMMA KmRecover ==
  ASSUME TypeInvariant, KmInvariant, NEW since \in Instants, NEW until \in Instants,
         Recover(since, until)
  PROVE  KmInvariant'
<1>1. /\ since < until /\ until <= now /\ UNCHANGED <<car, rows, stale, current>>
      /\ tasks' = [tasks EXCEPT !["recover"] = Search(since, until, Null)]
      /\ raced' = (raced \/ InFlight # {} \/ (current # Null /\ until > current.start))
  BY DEF Recover, Start
<1>2. CarFits /\ since <= until
  BY <1>1, ConstantsAssumption DEF TypeInvariant, CarInvariant, Instants
<1>3. PICK todo : todo = Segments(since, until)
  OBVIOUS
<1>4. \A i \in DOMAIN todo : Cut(todo[i], until)
  BY <1>1, <1>2, <1>3, SegmentsAre
<1>5. PICK task : task = Search(since, until, Null)
  OBVIOUS
<1>6. task.pc = "check" /\ task.todo = todo /\ task.until = until
  BY <1>3, <1>5 DEF Search
<1>7. \A s : Cut(s, until)' <=> Cut(s, until)
  BY <1>1 DEF Cut, Segment, Reading, Odometer, car
<1>8. ~raced' => (current' # Null => until <= current'.start)
  <2>. SUFFICES ASSUME ~raced', current # Null PROVE until <= current.start
    BY <1>1
  <2>1. ~(until > current.start)
    BY <1>1
  <2>2. current.start \in Nat /\ until \in Nat
    BY ConstantsAssumption DEF TypeInvariant, MemoryInvariant, Instants
  <2>. QED BY <2>1, <2>2
<1>9. ~raced' => Foresees("recover", task)'
  BY <1>4, <1>6, <1>7, <1>8 DEF Foresees
<1>10. ~raced' => /\ ~raced /\ InFlight = {}
                  /\ current' # Null => /\ current'.from = Reading(current'.start)
                                        /\ Under(rows, current'.from)
  BY <1>1 DEF KmInvariant
<1>. QED BY <1>1, <1>5, <1>9, <1>10, KmStart DEF Kinds

LEMMA KmManual ==
  ASSUME TypeInvariant, KmInvariant, NEW start, NEW end, LogManual(start, end)
  PROVE  KmInvariant'
<1>1. PICK task : task = [pc |-> "store", start |-> start, end |-> end,
                          from |-> 0, upto |-> 0, fresh |-> TRUE]
  OBVIOUS
<1>2. /\ tasks' = [tasks EXCEPT !["manual"] = task] /\ "manual" \in Kinds
      /\ UNCHANGED <<car, rows, stale, current>> /\ raced' = (raced \/ InFlight # {})
  BY <1>1 DEF LogManual, Start, Alone, Kinds
<1>3. Foresees("manual", task)'
  BY <1>1 DEF Foresees
<1>4. ~raced' => /\ ~raced /\ InFlight = {}
                 /\ current' # Null => /\ current'.from = Reading(current'.start)
                                       /\ Under(rows, current'.from)
  BY <1>2 DEF KmInvariant
<1>. QED BY <1>2, <1>3, <1>4, KmStart

LEMMA KmOpens ==
  ASSUME TypeInvariant, KmInvariant, FreshInvariant, TripOpens
  PROVE  KmInvariant'
<1>1. /\ UNCHANGED <<car, rows, stale>>
      /\ current = Null /\ current' = [start |-> now, from |-> Reading(now)]
  BY DEF TripOpens
<1>2. /\ current' # Null /\ current'.start = now /\ current'.from = Reading(now)
      /\ CarFits /\ now \in Instants
  BY <1>1 DEF Null, TypeInvariant, CarInvariant, CarFits
<1>3. ~raced => Under(rows, Reading(now))
  BY <1>2, RowType, UnderReading DEF KmInvariant
<1>4. CASE OrphanGap
  <2>1. PICK task, last : last = lastTrip /\ task = Search(last.end, now, last)
    OBVIOUS
  <2>2. /\ tasks' = [tasks EXCEPT !["orphan"] = task] /\ "orphan" \in Kinds
        /\ raced' = (raced \/ InFlight # {})
    BY <1>4, <2>1 DEF TripOpens, Start, Alone, Kinds
  <2>3. /\ last \in Row /\ last.kind # "manual" /\ now > last.end
        /\ last.end \in Instants
    BY <1>4, <2>1 DEF OrphanGap, TypeInvariant, MemoryInvariant, Row
  <2>4. last.end <= now
    BY <1>2, <2>3, ConstantsAssumption DEF Instants
  <2>5. PICK todo : todo = Segments(last.end, now)
    OBVIOUS
  <2>6. \A i \in DOMAIN todo : Cut(todo[i], now)
    <3>1. PICK a, b : a = last.end /\ b = now
      OBVIOUS
    <3>2. a \in Instants /\ b \in Instants /\ a <= b /\ todo = Segments(a, b) /\ b <= now
      BY <1>2, <2>3, <2>4, <2>5, <3>1, ConstantsAssumption DEF Instants
    <3>3. \A i \in DOMAIN todo : Cut(todo[i], b)
      BY <1>2, <3>2, SegmentsAre
    <3>. QED BY <3>1, <3>3
  <2>7. /\ task.pc = "check" /\ task.todo = todo /\ task.until = now
        /\ task.last = last
    BY <2>1, <2>5 DEF Search
  <2>8. ASSUME ~raced, InFlight = {}
        PROVE  Under(rows, last.upto) /\ last.upto <= Reading(now)
    <3>1. \A k \in Kinds : tasks[k] = Idle /\ Idle.pc = "idle"
      BY <2>8 DEF InFlight, Idle
    <3>2. "recover" \in Kinds /\ "orphan" \in Kinds
      BY DEF Kinds
    <3>3. last = Newest(rows)
      BY <2>1, <2>8, <3>1, <3>2, FreshIsNewest DEF LastTripIsNewest, KmInvariant
    <3>4. rows # {} /\ Table(rows)
      BY <2>3, <3>3, NewestType, NullIsNoRow DEF TypeInvariant, TableInvariant
    <3>5. last \in rows /\ \A q \in rows \ {last} : Ended(last, q)
      BY <3>3, <3>4, NewestIs
    <3>6. \A r \in rows : r.end <= last.end
      <4>1. \A r \in rows : r.end \in Nat
        BY RowType, ConstantsAssumption DEF Instants
      <4>. QED BY <3>5, <4>1 DEF Ended
    <3>7. last.upto = Reading(last.end)
      BY <2>3, <2>8, <3>5 DEF KmInvariant, Gauged
    <3>8. Under(rows, Reading(last.end))
      BY <2>3, <2>8, <3>6, UnderReading DEF KmInvariant
    <3>9. Reading(last.end) <= Reading(now)
      BY <1>2, <2>3, <2>4, ReadingGrows
    <3>. QED BY <3>7, <3>8, <3>9
  <2>9. PICK instant : instant = now
    OBVIOUS
  <2>10. (\A s : Cut(s, instant)' <=> Cut(s, instant)) /\ Reading(instant)' = Reading(instant)
    BY <1>1 DEF Cut, Segment, Reading, Odometer, car
  <2>11. ~raced /\ InFlight = {} => Foresees("orphan", task)'
    <3>1. instant <= current'.start
      BY <1>2, <2>9, ConstantsAssumption DEF Instants
    <3>2. \A i \in DOMAIN todo : Cut(todo[i], instant)'
      BY <2>6, <2>9, <2>10
    <3>3. ~raced /\ InFlight = {} =>
            Under(rows, last.upto)' /\ last.upto <= Reading(instant)'
      BY <1>1, <2>8, <2>9, <2>10 DEF Under
    <3>. QED BY <2>7, <2>9, <3>1, <3>2, <3>3 DEF Foresees
  <2>. QED BY <1>1, <1>2, <1>3, <2>2, <2>11, KmStart
<1>5. CASE ~OrphanGap
  <2>1. UNCHANGED <<tasks, raced>>
    BY <1>5 DEF TripOpens
  <2>. SUFFICES ASSUME ~raced PROVE KmInvariant'
    BY <2>1 DEF KmInvariant
  <2>2. \A k \in Kinds : Foresees(k, tasks[k])'
    <3>. SUFFICES ASSUME NEW k \in Kinds PROVE Foresees(k, tasks[k])'
      OBVIOUS
    <3>1. PICK t : t = tasks[k]
      OBVIOUS
    <3>2. Foresees(k, t) /\ Fits(k, t) /\ t \in Task
      BY <3>1 DEF KmInvariant, TypeInvariant, TasksInvariant
    <3>3. t.pc \in {"check", "insert", "orphan"} => t.until <= current'.start
      BY <1>2, <3>2 DEF Fits
    <3>4. t.pc = "store" /\ k = "live" => t.upto <= current'.from
      <4>. SUFFICES ASSUME t.pc = "store", k = "live" PROVE t.upto <= current'.from
        OBVIOUS
      <4>1. t.upto = Reading(t.end) /\ t.end = now
        BY <3>2 DEF Foresees, Fits
      <4>. QED BY <1>2, <4>1, ReadingGrows, ReadingType, ConstantsAssumption DEF Instants
    <3>5. Foresees(k, t)'
      BY <1>1, <3>2, <3>3, <3>4
         DEF Foresees, Under, Cut, Segment, Overlaps, Reading, Odometer, car
    <3>. QED BY <2>1, <3>1, <3>5 DEF Foresees
  <2>3. \A i, j \in InFlight' : i = j
    BY <2>1 DEF KmInvariant, InFlight
  <2>4. \A r \in rows' : Gauged(r)'
    BY <1>1, GaugedSame DEF KmInvariant
  <2>5. current' # Null =>
          current'.from = Reading(current.start)' /\ Under(rows, current.from)'
    BY <1>1, <1>2, <1>3, GaugedSame DEF Under
  <2>6. \A r, q \in rows' : Distinct(r, q)'
    BY <1>1 DEF KmInvariant, Distinct, Beside, RecoveredAgain
  <2>7. ~stale'
    BY <1>1 DEF KmInvariant
  <2>. QED BY <2>2, <2>3, <2>4, <2>5, <2>6, <2>7 DEF KmInvariant
<1>. QED BY <1>4, <1>5

LEMMA KmCloses ==
  ASSUME TypeInvariant, KmInvariant, TripCloses
  PROVE  KmInvariant'
<1>1. UNCHANGED <<car, rows, stale>> /\ current # Null /\ current' = Null
  BY DEF TripCloses
<1>2. /\ CarFits /\ now \in Instants /\ current.start \in Instants
      /\ current.start <= now
  BY <1>1 DEF TypeInvariant, CarInvariant, CarFits, MemoryInvariant
<1>3. CASE Reading(now) - current.from < MinDistance
  <2>1. UNCHANGED <<tasks, raced>>
    BY <1>3 DEF TripCloses
  <2>. SUFFICES ASSUME ~raced PROVE KmInvariant'
    BY <2>1 DEF KmInvariant
  <2>2. \A k \in Kinds : Foresees(k, tasks[k])'
    <3>. SUFFICES ASSUME NEW k \in Kinds PROVE Foresees(k, tasks[k])'
      OBVIOUS
    <3>1. PICK t : t = tasks[k] /\ Foresees(k, t)
      BY DEF KmInvariant
    <3>2. Foresees(k, t)'
      <4>1. /\ \A s, u : Cut(s, u)' <=> Cut(s, u)
            /\ \A a, b : Overlaps(a, b)' <=> Overlaps(a, b)
            /\ \A u : Reading(u)' = Reading(u)
            /\ \A km : Under(rows, km)' <=> Under(rows, km)
        BY <1>1 DEF Under, Cut, Segment, Overlaps, Reading, Odometer, car
      <4>. QED BY <1>1, <3>1, <4>1 DEF Foresees
    <3>. QED BY <2>1, <3>1, <3>2 DEF Foresees
  <2>3. \A i, j \in InFlight' : i = j
    BY <2>1 DEF KmInvariant, InFlight
  <2>4. \A r \in rows' : Gauged(r)'
    BY <1>1, GaugedSame DEF KmInvariant
  <2>5. \A r, q \in rows' : Distinct(r, q)'
    BY <1>1 DEF KmInvariant, Distinct, Beside, RecoveredAgain
  <2>6. ~stale'
    BY <1>1 DEF KmInvariant
  <2>. QED BY <1>1, <2>2, <2>3, <2>4, <2>5, <2>6 DEF KmInvariant
<1>4. CASE ~(Reading(now) - current.from < MinDistance)
  <2>1. PICK task : task = [pc |-> "store", start |-> current.start, end |-> now,
                            from |-> current.from, upto |-> Reading(now), fresh |-> TRUE]
    OBVIOUS
  <2>2. /\ tasks' = [tasks EXCEPT !["live"] = task] /\ "live" \in Kinds
        /\ raced' = (raced \/ InFlight # {})
    BY <1>4, <2>1 DEF TripCloses, Start, Alone, Kinds
  <2>3. /\ task.pc = "store" /\ task.fresh /\ task.start = current.start
        /\ task.end = now /\ task.from = current.from /\ task.upto = Reading(now)
    BY <2>1
  <2>4. ~raced => Foresees("live", task)'
    <3>1. ~raced => /\ task.from = Reading(task.start)
                    /\ Under(rows, task.from)
      BY <1>1, <2>3 DEF KmInvariant
    <3>2. (\A t : Reading(t)' = Reading(t)) /\ rows' = rows
      BY <1>1, GaugedSame
    <3>. QED BY <1>1, <2>3, <3>1, <3>2 DEF Foresees, Under
  <2>. QED BY <1>1, <2>2, <2>4, KmStart
<1>. QED BY <1>3, <1>4
-----------------------------------------------------------------------------
LEMMA KmRemoves ==
  ASSUME TypeInvariant, KmInvariant, NEW k \in Kinds, NEW gone, Removes(k, gone)
  PROVE  KmInvariant'
<1>1. /\ rows' \subseteq rows /\ UNCHANGED <<car, current, stale>>
      /\ raced' = (raced \/ InFlight # {})
      /\ \/ tasks' = [Outdated(k) EXCEPT ![k] = Idle]
         \/ tasks' = [Outdated(k) EXCEPT ![k] = [pc |-> "look"]]
  BY DEF Removes, Alone
<1>. SUFFICES ASSUME ~raced' PROVE KmInvariant'
  BY DEF KmInvariant
<1>2. ~raced /\ \A j \in Kinds : tasks[j] = Idle
  BY <1>1 DEF InFlight
<1>3. \A j \in Kinds \ {k} : tasks'[j] = Idle
  <2>1. Idle.pc = "idle"
    BY DEF Idle
  <2>. QED BY <1>1, <1>2, <2>1 DEF Outdated
<1>4. tasks'[k] \in {Idle, [pc |-> "look"]}
  BY <1>1 DEF Outdated
<1>5. \A i, j \in InFlight' : i = j
  BY <1>3 DEF InFlight
<1>6. \A j \in Kinds : Foresees(j, tasks[j])'
  <2>. SUFFICES ASSUME NEW j \in Kinds PROVE Foresees(j, tasks[j])'
    OBVIOUS
  <2>1. PICK t : t = tasks'[j] /\ Foresees(j, t)'
    BY <1>3, <1>4, ForeseesIdle
  <2>. QED BY <2>1 DEF Foresees
<1>7. \A r \in rows' : Gauged(r)'
  BY <1>1, <1>2, GaugedSame DEF KmInvariant
<1>8. current' # Null =>
        current'.from = Reading(current.start)' /\ Under(rows, current.from)'
  BY <1>1, <1>2, GaugedSame DEF KmInvariant, Under
<1>9. \A r, q \in rows' : Distinct(r, q)'
  BY <1>1, <1>2 DEF KmInvariant, Distinct, Beside, RecoveredAgain
<1>10. ~stale'
  BY <1>1, <1>2 DEF KmInvariant
<1>. QED BY <1>5, <1>6, <1>7, <1>8, <1>9, <1>10 DEF KmInvariant

LEMMA KmRestart ==
  ASSUME TypeInvariant, KmInvariant, Restart
  PROVE  KmInvariant'
<1>1. /\ UNCHANGED <<car, rows, raced>> /\ current' = Null /\ ~stale'
      /\ \A k \in Kinds : tasks'[k] = Idle
  BY DEF Restart
<1>. SUFFICES ASSUME ~raced' PROVE KmInvariant'
  BY DEF KmInvariant
<1>2. \A j \in Kinds : Foresees(j, tasks[j])'
  <2>. SUFFICES ASSUME NEW j \in Kinds PROVE Foresees(j, tasks[j])'
    OBVIOUS
  <2>1. PICK t : t = tasks'[j] /\ Foresees(j, t)'
    BY <1>1, ForeseesIdle
  <2>. QED BY <2>1 DEF Foresees
<1>3. \A i, j \in InFlight' : i = j
  BY <1>1 DEF InFlight
<1>4. \A r \in rows' : Gauged(r)'
  BY <1>1, GaugedSame DEF KmInvariant
<1>5. \A r, q \in rows' : Distinct(r, q)'
  BY <1>1 DEF KmInvariant, Distinct, Beside, RecoveredAgain
<1>. QED BY <1>1, <1>2, <1>3, <1>4, <1>5 DEF KmInvariant

\* The car turns on or off, or time passes: readings of the past stay.
LEMMA KmCar ==
  ASSUME TypeInvariant, KmInvariant,
         Onward, UNCHANGED <<rows, current, raced, stale, tasks>>,
         InFlight = {} \/ UNCHANGED <<now, driven, reported>>
  PROVE  KmInvariant'
<1>. SUFFICES ASSUME ~raced' PROVE KmInvariant'
  BY DEF KmInvariant
<1>1. ~raced /\ CarFits
  BY DEF TypeInvariant, CarInvariant
<1>2. \A t \in Instants : t <= now => Reading(t)' = Reading(t)
  BY <1>1, ReadingStays
<1>3. \A r \in rows' : Gauged(r)'
  <2>. SUFFICES ASSUME NEW r \in rows PROVE Gauged(r)'
    OBVIOUS
  <2>1. /\ r.start \in Instants /\ r.end \in Instants /\ r.start <= now /\ r.end <= now
    <3>1. r.start \in Nat /\ r.end \in Nat /\ now \in Nat /\ r.start <= r.end /\ r.end <= now
      BY <1>1, RowType, ConstantsAssumption DEF CarFits, Instants
    <3>. QED BY <3>1, RowType
  <2>2. Reading(r.start)' = Reading(r.start) /\ Reading(r.end)' = Reading(r.end)
    BY <1>2, <2>1
  <2>3. Gauged(r)
    BY <1>1 DEF KmInvariant
  <2>. QED BY <2>2, <2>3 DEF Gauged
<1>4. \A k \in Kinds : Foresees(k, tasks[k])'
  <2>. SUFFICES ASSUME NEW k \in Kinds PROVE Foresees(k, tasks[k])'
    OBVIOUS
  <2>1. PICK t : t = tasks[k] /\ Foresees(k, t)
    BY <1>1 DEF KmInvariant
  <2>2. Foresees(k, t)'
    <3>1. CASE InFlight = {}
      <4>1. t = Idle
        BY <2>1, <3>1 DEF InFlight
      <4>. QED BY <4>1, ForeseesIdle
    <3>2. CASE UNCHANGED <<now, driven, reported>>
      <4>1. /\ \A s, u : Cut(s, u)' <=> Cut(s, u)
            /\ \A a, b : Overlaps(a, b)' <=> Overlaps(a, b)
            /\ \A u : Reading(u)' = Reading(u)
            /\ \A km : Under(rows, km)' <=> Under(rows, km)
        BY <3>2 DEF Under, Cut, Segment, Overlaps, Reading, Odometer
      <4>. QED BY <2>1, <4>1 DEF Foresees
    <3>. QED BY <3>1, <3>2
  <2>. QED BY <2>1, <2>2 DEF Foresees
<1>5. \A i, j \in InFlight' : i = j
  BY <1>1 DEF KmInvariant, InFlight
<1>6. current' # Null =>
        current'.from = Reading(current.start)' /\ Under(rows, current.from)'
  <2>. SUFFICES ASSUME current # Null
                PROVE  current.from = Reading(current.start)' /\ Under(rows, current.from)
    BY DEF Under
  <2>1. PICK live : live = current
    OBVIOUS
  <2>2. live.start \in Instants /\ live.start <= now
    BY <2>1 DEF TypeInvariant, MemoryInvariant
  <2>3. Reading(live.start)' = Reading(live.start)
    BY <1>2, <2>2
  <2>. QED BY <1>1, <2>1, <2>3 DEF KmInvariant
<1>7. \A r, q \in rows' : Distinct(r, q)'
  BY <1>1 DEF KmInvariant, Distinct, Beside, RecoveredAgain
<1>8. ~stale'
  BY <1>1 DEF KmInvariant
<1>. QED BY <1>3, <1>4, <1>5, <1>6, <1>7, <1>8 DEF KmInvariant
-----------------------------------------------------------------------------
LEMMA KmNext ==
  TypeInvariant /\ FreshInvariant /\ KmInvariant /\ [Next]_vars => KmInvariant'
<1>. SUFFICES ASSUME TypeInvariant, FreshInvariant, KmInvariant, [Next]_vars
              PROVE  KmInvariant'
  OBVIOUS
<1>1. CASE UNCHANGED vars
  <2>1. /\ UNCHANGED <<rows, current, raced, stale, tasks, car>>
        /\ UNCHANGED <<now, driven, reported>>
    BY <1>1 DEF vars, car
  <2>2. Onward
    BY <2>1, CarOnward
  <2>. QED BY <2>1, <2>2, KmCar
<1>2. ASSUME NEW w \in Windows, Recover(w[1], w[2])
      PROVE  KmInvariant'
  <2>1. w[1] \in Instants /\ w[2] \in Instants
    BY ConstantsAssumption DEF Instants
  <2>. QED BY <1>2, <2>1, KmRecover
<1>3. ASSUME NEW w \in Windows, Purge(w[1], w[2])
      PROVE  KmInvariant'
  BY <1>3, KmRemoves DEF Purge, Kinds
<1>4. ASSUME NEW s \in Spans, LogManual(s[1], s[2])
      PROVE  KmInvariant'
  BY <1>4, KmManual
<1>5. ASSUME NEW k \in Kinds,
             \/ Check(k) \/ InsertSegment(k) \/ Searched(k) \/ Assign(k) \/ Adopt(k)
             \/ Store(k) \/ Look(k)
      PROVE  KmInvariant'
  BY <1>5, KmCheck, KmInsertSegment, KmSearched, KmAssign, KmStore
<1>6. CASE InsertOrphan
  BY <1>6, KmOrphan
<1>7. CASE OrphanRejected
  BY <1>7, KmRejected
<1>8. CASE TripOpens
  BY <1>8, KmOpens
<1>9. CASE TripCloses
  BY <1>9, KmCloses
<1>10. CASE DeleteLast
  BY <1>10, KmRemoves DEF DeleteLast, Kinds
<1>11. CASE Restart
  BY <1>11, KmRestart
<1>12. CASE TurnsOn \/ TurnsOff
  <2>1. /\ UNCHANGED <<now, driven, reported>>
        /\ UNCHANGED <<rows, current, raced, stale, tasks>>
    BY <1>12 DEF TurnsOn, TurnsOff
  <2>2. Onward
    BY <2>1 DEF Onward
  <2>. QED BY <2>1, <2>2, KmCar
<1>13. ASSUME NEW sampled \in BOOLEAN, Tick(sampled)
       PROVE  KmInvariant'
  <2>1. /\ UNCHANGED <<rows, current, raced, stale, tasks>> /\ InFlight = {}
        /\ Onward
    BY <1>13 DEF Tick, Onward
  <2>. QED BY <2>1, KmCar
<1>. QED BY <1>1, <1>2, <1>3, <1>4, <1>5, <1>6, <1>7, <1>8, <1>9, <1>10, <1>11,
            <1>12, <1>13 DEF Next

LEMMA InitKm == Init => KmInvariant
<1>. SUFFICES ASSUME Init PROVE KmInvariant
  OBVIOUS
<1>1. /\ rows = {} /\ current = Null /\ ~stale
      /\ \A k \in Kinds : tasks[k] = Idle
  BY DEF Init
<1>2. \A k \in Kinds : Foresees(k, tasks[k])
  BY <1>1, ForeseesIdle
<1>. QED BY <1>1, <1>2 DEF KmInvariant, InFlight

LEMMA KmApart == KmInvariant => RecoveredKilometresOnce
BY DEF KmInvariant, RecoveredKilometresOnce, Distinct

\* While the services and the close run one at a time and no recovery is
\* pointed at the trip being driven, no stretch of the odometer is in two rows,
\* save one an orphan row stands for and a later recovery found again:
\* async_trip_overlaps, _detect_orphan_gap and the inserts, for every clock,
\* tolerance, minimum distance and order of calls.
THEOREM RecoveredKilometresAreApart == Spec => []RecoveredKilometresOnce
<1>1. Init => TypeInvariant /\ FreshInvariant /\ KmInvariant
  BY InitTyped, InitFresh, InitKm
<1>2. TypeInvariant /\ FreshInvariant /\ KmInvariant /\ [Next]_vars
        => TypeInvariant' /\ FreshInvariant' /\ KmInvariant'
  BY NextTyped, FreshNext, KmNext
<1>3. KmInvariant => RecoveredKilometresOnce
  BY KmApart
<1>. QED BY <1>1, <1>2, <1>3, PTL DEF Spec
=============================================================================
