--------------------------- MODULE CostPoolProofs ---------------------------
(***************************************************************************)
(* Theorems about CostPool, for every value of its constants.              *)
(*                                                                         *)
(* The fractions first: equal quotients are the same pair, and sums,       *)
(* differences and products of fractions are those of the quotients. Then  *)
(* the totals and recursive functions a replay is made of, the types, and  *)
(* the one invariant that is inductive: the stored trips are what a replay *)
(* makes of the tables, as long as only charges move (FixedPoint).         *)
(***************************************************************************)
EXTENDS CostPool, FiniteSums, SequenceTheorems
-----------------------------------------------------------------------------
(***************************************************************************)
(* Fractions.  Frac gives the same pair for equal quotients, since the     *)
(* least denominator does not depend on the pair it is asked of.  So each  *)
(* fact about fractions is shown over a denominator they have in common,   *)
(* where it is one about naturals.                                         *)
(***************************************************************************)
Positive == Nat \ {0}
Fraction == {Frac(n, d) : n \in Nat, d \in Positive}

LEMMA Cancel ==
  ASSUME NEW a \in Int, NEW b \in Int, NEW d \in Positive, a * d = b * d
  PROVE  a = b
BY DEF Positive

LEMMA CancelOrder ==
  ASSUME NEW a \in Int, NEW b \in Int, NEW d \in Positive
  PROVE  a * d <= b * d <=> a <= b
<1>1. ASSUME a <= b PROVE a * d <= b * d
  <2>1. b - a \in Nat /\ d \in Nat
    BY <1>1 DEF Positive
  <2>2. (b - a) * d >= 0
    BY <2>1
  <2>. QED BY <2>1, <2>2
<1>2. ASSUME b < a PROVE b * d < a * d
  <2>1. a - b \in Positive /\ d \in Positive
    BY <1>2 DEF Positive
  <2>2. (a - b) * d > 0
    BY <2>1 DEF Positive
  <2>. QED BY <2>1, <2>2 DEF Positive
<1>. QED BY <1>1, <1>2 DEF Positive

LEMMA Multiple ==
  ASSUME NEW k \in Nat, NEW d \in Positive
  PROVE  /\ k % d = 0 <=> \E p \in Nat : k = p * d
         /\ k % d = 0 => k \div d \in Nat /\ k = (k \div d) * d
<1>1. /\ k % d \in 0..(d - 1) /\ k = d * (k \div d) + (k % d)
      /\ k \div d \in Nat
  BY DEF Positive
<1>2. ASSUME NEW p \in Nat, k = p * d PROVE k % d = 0
  <2>. DEFINE j == p - (k \div d)
  <2>1. j \in Int /\ d * j = k % d /\ d \in Int
    BY <1>1, <1>2 DEF Positive
  <2>. HIDE DEF j
  <2>2. ~(j >= 1)
    <3>. SUFFICES ASSUME j >= 1 PROVE FALSE
      OBVIOUS
    <3>1. d * j >= d
      BY <2>1 DEF Positive
    <3>. QED BY <1>1, <2>1, <3>1 DEF Positive
  <2>3. ~(j <= -1)
    <3>. SUFFICES ASSUME j <= -1 PROVE FALSE
      OBVIOUS
    <3>1. d * j <= -d
      BY <2>1 DEF Positive
    <3>. QED BY <1>1, <2>1, <3>1 DEF Positive
  <2>4. j = 0
    BY <2>1, <2>2, <2>3
  <2>. QED BY <2>1, <2>4
<1>3. k % d = 0 => k = (k \div d) * d
  BY <1>1 DEF Positive
<1>. QED BY <1>1, <1>2, <1>3

Denominator(n, d, q) ==
  /\ q \in 1..d /\ (n * q) % d = 0
  /\ \A r \in 1..(q - 1) : (n * r) % d # 0

LEMMA DenominatorIs ==
  ASSUME NEW n \in Nat, NEW d \in Positive
  PROVE  \E q \in Positive :
           /\ Denominator(n, d, q)
           /\ \A r : Denominator(n, d, r) => r = q
<1>. DEFINE T == {q \in 1..d : (n * q) % d = 0}
<1>1. d \in T
  <2>1. n * d \in Nat
    BY DEF Positive
  <2>2. (n * d) % d = 0
    BY <2>1, Multiple
  <2>. QED BY <2>2 DEF Positive
<1>2. PICK q \in T : \A r \in T : q <= r
  <2>1. T \subseteq Nat /\ T # {}
    BY <1>1
  <2>. HIDE DEF T
  <2>. QED BY <2>1, LeastNat
<1>3. Denominator(n, d, q)
  <2>1. ASSUME NEW r \in 1..(q - 1) PROVE (n * r) % d # 0
    <3>1. r \in 1..d /\ ~(q <= r)
      BY DEF Positive
    <3>2. r \notin T
      BY <1>2, <3>1
    <3>. QED BY <3>1, <3>2
  <2>. QED BY <2>1 DEF Denominator
<1>4. ASSUME NEW r, Denominator(n, d, r) PROVE r = q
  <2>1. r \in T /\ q <= r
    BY <1>2, <1>4 DEF Denominator
  <2>2. ~(q < r)
    BY <1>2, <1>4, <2>1 DEF Denominator, Positive
  <2>. QED BY <2>1, <2>2 DEF Positive
<1>. QED BY <1>2, <1>3, <1>4 DEF Positive

LEMMA FracChoice ==
  ASSUME NEW n \in Nat, NEW d \in Positive
  PROVE  \E q \in Positive :
           /\ Denominator(n, d, q) /\ Frac(n, d) = <<(n * q) \div d, q>>
<1>1. PICK q \in Positive : /\ Denominator(n, d, q)
                            /\ \A r : Denominator(n, d, r) => r = q
  BY DenominatorIs
<1>2. q = CHOOSE r \in 1..d : /\ (n * r) % d = 0
                              /\ \A s \in 1..(r - 1) : (n * s) % d # 0
  BY <1>1 DEF Denominator
<1>. QED BY <1>1, <1>2 DEF Frac

LEMMA FracIs ==
  ASSUME NEW n \in Nat, NEW d \in Positive
  PROVE  /\ Frac(n, d) \in Nat \X Positive /\ Frac(n, d) \in Fraction
         /\ Frac(n, d)[1] * d = n * Frac(n, d)[2]
         /\ Frac(n, d)[1] = 0 <=> n = 0
<1>1. PICK q \in Positive : Denominator(n, d, q) /\ Frac(n, d) = <<(n * q) \div d, q>>
  BY FracChoice
<1>2. n * q \in Nat /\ (n * q) % d = 0
  BY <1>1 DEF Denominator, Positive
<1>3. PICK p \in Nat : p = (n * q) \div d /\ n * q = p * d
  BY <1>2, Multiple
<1>4. Frac(n, d) = <<p, q>> /\ p * d = n * q
  BY <1>1, <1>3
<1>5. p = 0 <=> n = 0
  BY <1>4 DEF Positive
<1>6. Frac(n, d) \in Fraction
  BY DEF Fraction
<1>. QED BY <1>4, <1>5, <1>6

\* Equal quotients have the same denominators.
LEMMA DenominatorSame ==
  ASSUME NEW n \in Nat, NEW d \in Positive, NEW m \in Nat, NEW e \in Positive,
         n * e = m * d, NEW q, Denominator(n, d, q)
  PROVE  Denominator(m, e, q) /\ (m * q) \div e = (n * q) \div d
<1>1. ASSUME NEW r \in Nat, NEW p \in Nat
      PROVE  n * r = p * d <=> m * r = p * e
  <2>1. (n * r) * e = (m * r) * d
    <3>1. (n * r) * e = r * (n * e) /\ (m * r) * d = r * (m * d)
      BY DEF Positive
    <3>. QED BY <3>1
  <2>2. (p * d) * e = (p * e) * d
    BY DEF Positive
  <2>3. n * r \in Nat /\ m * r \in Nat /\ p * d \in Nat /\ p * e \in Nat
    BY DEF Positive
  <2>4. n * r = p * d => m * r = p * e
    BY <2>1, <2>2, <2>3, Cancel
  <2>5. m * r = p * e => n * r = p * d
    BY <2>1, <2>2, <2>3, Cancel
  <2>. QED BY <2>4, <2>5
<1>2. ASSUME NEW r \in Nat PROVE (n * r) % d = 0 <=> (m * r) % e = 0
  <2>1. n * r \in Nat /\ m * r \in Nat
    OBVIOUS
  <2>2. (n * r) % d = 0 <=> \E p \in Nat : n * r = p * d
    BY <2>1, Multiple
  <2>3. (m * r) % e = 0 <=> \E p \in Nat : m * r = p * e
    BY <2>1, Multiple
  <2>. QED BY <1>1, <2>2, <2>3
<1>3. q \in Nat /\ q # 0 /\ (n * q) % d = 0
  BY DEF Denominator, Positive
<1>4. (m * e) % e = 0
  <2>1. m * e \in Nat
    BY DEF Positive
  <2>. QED BY <2>1, Multiple
<1>5. (n * e) % d = 0
  BY <1>2, <1>4 DEF Positive
<1>6. q <= e
  <2>. SUFFICES ASSUME e < q PROVE FALSE
    BY <1>3 DEF Positive
  <2>1. e \in 1..(q - 1)
    BY <1>3 DEF Positive
  <2>. QED BY <1>5, <2>1 DEF Denominator
<1>7. Denominator(m, e, q)
  <2>1. ASSUME NEW r \in 1..(q - 1) PROVE (m * r) % e # 0
    <3>1. r \in Nat /\ (n * r) % d # 0
      BY <1>3 DEF Denominator
    <3>. QED BY <1>2, <3>1
  <2>2. (m * q) % e = 0
    BY <1>2, <1>3
  <2>. QED BY <1>3, <1>6, <2>1, <2>2 DEF Denominator, Positive
<1>8. (m * q) \div e = (n * q) \div d
  <2>1. n * q \in Nat /\ m * q \in Nat /\ (m * q) % e = 0
    BY <1>2, <1>3
  <2>2. PICK p \in Nat : p = (n * q) \div d /\ n * q = p * d
    BY <1>3, <2>1, Multiple
  <2>3. PICK s \in Nat : s = (m * q) \div e /\ m * q = s * e
    BY <2>1, Multiple
  <2>4. m * q = p * e
    BY <1>1, <1>3, <2>2
  <2>5. p = s
    BY <2>3, <2>4, Cancel
  <2>. QED BY <2>2, <2>3, <2>5
<1>. QED BY <1>7, <1>8

LEMMA FracSame ==
  ASSUME NEW n \in Nat, NEW d \in Positive, NEW m \in Nat, NEW e \in Positive
  PROVE  Frac(n, d) = Frac(m, e) <=> n * e = m * d
<1>1. ASSUME n * e = m * d PROVE Frac(n, d) = Frac(m, e)
  <2>1. PICK q \in Positive : Denominator(n, d, q) /\ Frac(n, d) = <<(n * q) \div d, q>>
    BY FracChoice
  <2>2. PICK r \in Positive : Denominator(m, e, r) /\ Frac(m, e) = <<(m * r) \div e, r>>
    BY FracChoice
  <2>3. Denominator(m, e, q) /\ (m * q) \div e = (n * q) \div d
    BY <1>1, <2>1, DenominatorSame
  <2>4. q = r
    BY <2>2, <2>3, DenominatorIs
  <2>. QED BY <2>1, <2>2, <2>3, <2>4
<1>2. ASSUME Frac(n, d) = Frac(m, e) PROVE n * e = m * d
  <2>1. PICK p \in Nat, q \in Positive : /\ Frac(n, d) = <<p, q>>
                                         /\ p * d = n * q /\ p * e = m * q
    BY <1>2, FracIs
  <2>2. (n * e) * q = (p * d) * e /\ (m * d) * q = (p * e) * d
    <3>1. (n * e) * q = (n * q) * e /\ (m * d) * q = (m * q) * d
      BY DEF Positive
    <3>. QED BY <2>1, <3>1
  <2>3. (p * d) * e = (p * e) * d /\ n * e \in Nat /\ m * d \in Nat
    BY DEF Positive
  <2>. QED BY <2>2, <2>3, Cancel
<1>. QED BY <1>1, <1>2
-----------------------------------------------------------------------------
(* Arithmetic over a common denominator.                                   *)
LEMMA FracPair ==
  ASSUME NEW n \in Nat, NEW d \in Positive
  PROVE  \E p \in Nat, q \in Positive : Frac(n, d) = <<p, q>> /\ p * d = n * q
BY FracIs

LEMMA ZeroIs ==
  /\ Zero \in Fraction
  /\ \A d \in Positive : Zero = Frac(0, d)
  /\ \A n \in Nat, d \in Positive : Frac(n, d) = Zero <=> n = 0
<1>1. Frac(0, 1) = Zero
  <2>1. PICK q \in Positive : Denominator(0, 1, q) /\ Frac(0, 1) = <<(0 * q) \div 1, q>>
    BY FracChoice DEF Positive
  <2>2. q = 1
    BY <2>1 DEF Denominator
  <2>. QED BY <2>1, <2>2 DEF Zero
<1>2. ASSUME NEW n \in Nat, NEW d \in Positive
      PROVE  Frac(n, d) = Zero <=> n = 0
  <2>1. 0 * d = 0 /\ n * 1 = n /\ 1 \in Positive
    BY DEF Positive
  <2>2. Frac(n, d) = Frac(0, 1) <=> n * 1 = 0 * d
    BY <2>1, FracSame
  <2>. QED BY <1>1, <2>1, <2>2
<1>3. Zero \in Fraction
  BY <1>1 DEF Fraction, Positive
<1>. QED BY <1>2, <1>3

LEMMA WholeIs ==
  ASSUME NEW n \in Nat
  PROVE  <<n, 1>> = Frac(n, 1) /\ <<n, 1>> \in Fraction
<1>0. 1 \in Positive
  BY DEF Positive
<1>1. PICK q \in Positive : Denominator(n, 1, q) /\ Frac(n, 1) = <<(n * q) \div 1, q>>
  BY <1>0, FracChoice
<1>2. q = 1
  BY <1>1 DEF Denominator
<1>3. <<n, 1>> = Frac(n, 1)
  BY <1>1, <1>2
<1>. QED BY <1>3 DEF Fraction, Positive

LEMMA PlusOver ==
  ASSUME NEW m \in Nat, NEW n \in Nat, NEW d \in Positive
  PROVE  Plus(Frac(m, d), Frac(n, d)) = Frac(m + n, d)
<1>1. PICK p \in Nat, q \in Positive : Frac(m, d) = <<p, q>> /\ p * d = m * q
  BY FracPair
<1>2. PICK r \in Nat, s \in Positive : Frac(n, d) = <<r, s>> /\ r * d = n * s
  BY FracPair
<1>3. Plus(Frac(m, d), Frac(n, d)) = Frac(p * s + r * q, q * s)
  BY <1>1, <1>2 DEF Plus
<1>4. (p * s + r * q) * d = (m + n) * (q * s)
  <2>1. (p * s) * d = m * (q * s)
    <3>1. (p * s) * d = (p * d) * s /\ m * (q * s) = (m * q) * s
      BY DEF Positive
    <3>. QED BY <1>1, <3>1
  <2>2. (r * q) * d = n * (q * s)
    <3>1. (r * q) * d = (r * d) * q /\ n * (q * s) = (n * s) * q
      BY DEF Positive
    <3>. QED BY <1>2, <3>1
  <2>3. (p * s + r * q) * d = (p * s) * d + (r * q) * d
    BY DEF Positive
  <2>4. (m + n) * (q * s) = m * (q * s) + n * (q * s)
    BY DEF Positive
  <2>. QED BY <2>1, <2>2, <2>3, <2>4
<1>5. p * s + r * q \in Nat /\ q * s \in Positive /\ m + n \in Nat
  BY DEF Positive
<1>. QED BY <1>3, <1>4, <1>5, FracSame

LEMMA AtMostOver ==
  ASSUME NEW m \in Nat, NEW n \in Nat, NEW d \in Positive
  PROVE  AtMost(Frac(m, d), Frac(n, d)) <=> m <= n
<1>1. PICK p \in Nat, q \in Positive : Frac(m, d) = <<p, q>> /\ p * d = m * q
  BY FracPair
<1>2. PICK r \in Nat, s \in Positive : Frac(n, d) = <<r, s>> /\ r * d = n * s
  BY FracPair
<1>3. AtMost(Frac(m, d), Frac(n, d)) <=> p * s <= r * q
  BY <1>1, <1>2 DEF AtMost
<1>4. (p * s) * d = m * (q * s)
  <2>1. (p * s) * d = (p * d) * s /\ m * (q * s) = (m * q) * s
    BY DEF Positive
  <2>. QED BY <1>1, <2>1
<1>5. (r * q) * d = n * (q * s)
  <2>1. (r * q) * d = (r * d) * q /\ n * (q * s) = (n * s) * q
    BY DEF Positive
  <2>. QED BY <1>2, <2>1
<1>6. p * s \in Int /\ r * q \in Int /\ q * s \in Positive
  BY DEF Positive
<1>7. p * s <= r * q <=> (p * s) * d <= (r * q) * d
  BY <1>6, CancelOrder
<1>8. m * (q * s) <= n * (q * s) <=> m <= n
  BY <1>6, CancelOrder
<1>. QED BY <1>3, <1>4, <1>5, <1>7, <1>8

LEMMA MinusOver ==
  ASSUME NEW m \in Nat, NEW n \in Nat, NEW d \in Positive
  PROVE  /\ m <= n => Minus(Frac(m, d), Frac(n, d)) = Frac(0, d)
         /\ n <= m => Minus(Frac(m, d), Frac(n, d)) = Frac(m - n, d)
<1>0. Zero = Frac(0, d)
  BY ZeroIs
<1>1. ASSUME m <= n PROVE Minus(Frac(m, d), Frac(n, d)) = Frac(0, d)
  BY <1>0, <1>1, AtMostOver DEF Minus
<1>2. ASSUME n < m PROVE Minus(Frac(m, d), Frac(n, d)) = Frac(m - n, d)
  <2>1. PICK p \in Nat, q \in Positive : Frac(m, d) = <<p, q>> /\ p * d = m * q
    BY FracPair
  <2>2. PICK r \in Nat, s \in Positive : Frac(n, d) = <<r, s>> /\ r * d = n * s
    BY FracPair
  <2>3. ~AtMost(Frac(m, d), Frac(n, d))
    BY <1>2, AtMostOver
  <2>4. Minus(Frac(m, d), Frac(n, d)) = Frac(p * s - r * q, q * s)
    BY <2>1, <2>2, <2>3 DEF Minus
  <2>5. ~(p * s <= r * q)
    BY <2>1, <2>2, <2>3 DEF AtMost
  <2>6. p * s - r * q \in Nat /\ q * s \in Positive /\ m - n \in Nat
    <3>1. p * s \in Nat /\ r * q \in Nat
      BY DEF Positive
    <3>. QED BY <1>2, <2>5, <3>1 DEF Positive
  <2>7. (p * s - r * q) * d = (m - n) * (q * s)
    <3>1. (p * s) * d = m * (q * s)
      <4>1. (p * s) * d = (p * d) * s /\ m * (q * s) = (m * q) * s
        BY DEF Positive
      <4>. QED BY <2>1, <4>1
    <3>2. (r * q) * d = n * (q * s)
      <4>1. (r * q) * d = (r * d) * q /\ n * (q * s) = (n * s) * q
        BY DEF Positive
      <4>. QED BY <2>2, <4>1
    <3>3. (p * s - r * q) * d = (p * s) * d - (r * q) * d
      BY DEF Positive
    <3>4. (m - n) * (q * s) = m * (q * s) - n * (q * s)
      BY DEF Positive
    <3>. QED BY <3>1, <3>2, <3>3, <3>4
  <2>. QED BY <2>4, <2>6, <2>7, FracSame
<1>3. m <= n /\ n <= m => m - n = 0
  OBVIOUS
<1>. QED BY <1>1, <1>2, <1>3

LEMMA TimesOver ==
  ASSUME NEW m \in Nat, NEW n \in Nat, NEW d \in Positive, NEW e \in Positive
  PROVE  Times(Frac(m, d), Frac(n, e)) = Frac(m * n, d * e)
<1>1. PICK p \in Nat, q \in Positive : Frac(m, d) = <<p, q>> /\ p * d = m * q
  BY FracPair
<1>2. PICK r \in Nat, s \in Positive : Frac(n, e) = <<r, s>> /\ r * e = n * s
  BY FracPair
<1>3. Times(Frac(m, d), Frac(n, e)) = Frac(p * r, q * s)
  BY <1>1, <1>2 DEF Times
<1>4. (p * r) * (d * e) = (m * n) * (q * s)
  <2>1. (p * r) * (d * e) = (p * d) * (r * e)
    BY DEF Positive
  <2>2. (m * n) * (q * s) = (m * q) * (n * s)
    BY DEF Positive
  <2>. QED BY <1>1, <1>2, <2>1, <2>2
<1>5. p * r \in Nat /\ q * s \in Positive /\ m * n \in Nat /\ d * e \in Positive
  BY DEF Positive
<1>. QED BY <1>3, <1>4, <1>5, FracSame

LEMMA OverOver ==
  ASSUME NEW m \in Nat, NEW n \in Positive, NEW d \in Positive
  PROVE  Over(Frac(m, d), Frac(n, d)) = Frac(m, n)
<1>1. PICK p \in Nat, q \in Positive : Frac(m, d) = <<p, q>> /\ p * d = m * q
  BY FracPair
<1>2. PICK r \in Nat, s \in Positive : Frac(n, d) = <<r, s>> /\ r * d = n * s
  BY FracPair DEF Positive
<1>3. Over(Frac(m, d), Frac(n, d)) = Frac(p * s, q * r)
  BY <1>1, <1>2 DEF Over
<1>4. r # 0
  <2>1. n * s # 0
    BY DEF Positive
  <2>. QED BY <1>2, <2>1 DEF Positive
<1>5. (p * s) * n = m * (q * r)
  <2>1. ((p * s) * n) * d = (m * (q * r)) * d
    <3>1. ((p * s) * n) * d = (p * d) * (n * s)
      BY DEF Positive
    <3>2. (m * (q * r)) * d = (m * q) * (r * d)
      BY DEF Positive
    <3>. QED BY <1>1, <1>2, <3>1, <3>2
  <2>2. (p * s) * n \in Int /\ m * (q * r) \in Int
    BY DEF Positive
  <2>. QED BY <2>1, <2>2, Cancel
<1>6. p * s \in Nat /\ q * r \in Positive
  BY <1>4 DEF Positive
<1>. QED BY <1>3, <1>5, <1>6, FracSame

LEMMA Expand ==
  ASSUME NEW n \in Nat, NEW d \in Positive, NEW k \in Positive
  PROVE  Frac(n, d) = Frac(n * k, d * k) /\ n * k \in Nat /\ d * k \in Positive
<1>1. n * k \in Nat /\ d * k \in Positive /\ n * (d * k) = (n * k) * d
  BY DEF Positive
<1>. QED BY <1>1, FracSame

\* Two and three fractions have a denominator in common.
LEMMA Common ==
  ASSUME NEW x \in Fraction, NEW y \in Fraction
  PROVE  \E d \in Positive, m, n \in Nat : x = Frac(m, d) /\ y = Frac(n, d)
<1>1. PICK m \in Nat, d \in Positive : x = Frac(m, d)
  BY DEF Fraction
<1>2. PICK n \in Nat, e \in Positive : y = Frac(n, e)
  BY DEF Fraction
<1>3. x = Frac(m * e, d * e) /\ m * e \in Nat /\ d * e \in Positive
  BY <1>1, Expand
<1>4. y = Frac(n * d, e * d) /\ n * d \in Nat /\ e * d = d * e
  BY <1>2, Expand DEF Positive
<1>. QED BY <1>3, <1>4

LEMMA CommonThree ==
  ASSUME NEW x \in Fraction, NEW y \in Fraction, NEW z \in Fraction
  PROVE  \E d \in Positive, l, m, n \in Nat :
           x = Frac(l, d) /\ y = Frac(m, d) /\ z = Frac(n, d)
<1>1. PICK d \in Positive, l \in Nat, m \in Nat : x = Frac(l, d) /\ y = Frac(m, d)
  BY Common
<1>2. PICK n \in Nat, e \in Positive : z = Frac(n, e)
  BY DEF Fraction
<1>3. /\ x = Frac(l * e, d * e) /\ l * e \in Nat /\ d * e \in Positive
      /\ y = Frac(m * e, d * e) /\ m * e \in Nat
  BY <1>1, Expand
<1>4. z = Frac(n * d, e * d) /\ n * d \in Nat /\ e * d = d * e
  BY <1>2, Expand DEF Positive
<1>. QED BY <1>3, <1>4
-----------------------------------------------------------------------------
(* The arithmetic of fractions.                                            *)
LEMMA FractionIs ==
  ASSUME NEW x \in Fraction
  PROVE  /\ x \in Nat \X Positive /\ x \in Figure /\ x # NoFigure
         /\ Frac(x[1], x[2]) = x
         /\ x = Zero <=> x[1] = 0
<1>1. PICK n \in Nat, d \in Positive : x = Frac(n, d)
  BY DEF Fraction
<1>2. x \in Nat \X Positive /\ x[1] * d = n * x[2] /\ (x[1] = 0 <=> n = 0)
  BY <1>1, FracIs
<1>3. Frac(x[1], x[2]) = x
  BY <1>1, <1>2, FracSame
<1>4. x = Zero <=> x[1] = 0
  BY <1>1, <1>2, ZeroIs
<1>5. x # NoFigure
  <2>1. PICK p \in Nat, q \in Positive : x = <<p, q>>
    BY <1>2
  <2>2. Len(<<p, q>>) = 2 /\ Len(<<>>) = 0
    OBVIOUS
  <2>. QED BY <2>1, <2>2 DEF NoFigure
<1>. QED BY <1>2, <1>3, <1>4, <1>5 DEF Figure, Positive

LEMMA FracType ==
  ASSUME NEW n \in Nat, NEW d \in Positive
  PROVE  Frac(n, d) \in Fraction
BY DEF Fraction

LEMMA PlusType ==
  ASSUME NEW x \in Fraction, NEW y \in Fraction
  PROVE  Plus(x, y) \in Fraction
<1>1. PICK d \in Positive, m \in Nat, n \in Nat : x = Frac(m, d) /\ y = Frac(n, d)
  BY Common
<1>. QED BY <1>1, PlusOver, FracType

LEMMA PlusZero ==
  ASSUME NEW x \in Fraction
  PROVE  Plus(x, Zero) = x /\ Plus(Zero, x) = x
<1>1. PICK n \in Nat, d \in Positive : x = Frac(n, d)
  BY DEF Fraction
<1>2. Zero = Frac(0, d) /\ n + 0 = n /\ 0 + n = n
  BY ZeroIs
<1>. QED BY <1>1, <1>2, PlusOver

LEMMA PlusCommutes ==
  ASSUME NEW x \in Fraction, NEW y \in Fraction
  PROVE  Plus(x, y) = Plus(y, x)
<1>1. PICK d \in Positive, m \in Nat, n \in Nat : x = Frac(m, d) /\ y = Frac(n, d)
  BY Common
<1>2. m + n = n + m
  OBVIOUS
<1>. QED BY <1>1, <1>2, PlusOver

LEMMA PlusAssociates ==
  ASSUME NEW x \in Fraction, NEW y \in Fraction, NEW z \in Fraction
  PROVE  /\ Plus(x, Plus(y, z)) = Plus(Plus(x, y), z)
         /\ Plus(x, Plus(y, z)) = Plus(y, Plus(x, z))
<1>1. PICK d \in Positive, l \in Nat, m \in Nat, n \in Nat :
        x = Frac(l, d) /\ y = Frac(m, d) /\ z = Frac(n, d)
  BY CommonThree
<1>2. /\ Plus(y, z) = Frac(m + n, d) /\ Plus(x, y) = Frac(l + m, d)
      /\ Plus(x, z) = Frac(l + n, d)
      /\ m + n \in Nat /\ l + m \in Nat /\ l + n \in Nat
  BY <1>1, PlusOver
<1>3. /\ Plus(x, Plus(y, z)) = Frac(l + (m + n), d)
      /\ Plus(Plus(x, y), z) = Frac((l + m) + n, d)
      /\ Plus(y, Plus(x, z)) = Frac(m + (l + n), d)
  BY <1>1, <1>2, PlusOver
<1>4. l + (m + n) = (l + m) + n /\ l + (m + n) = m + (l + n)
  OBVIOUS
<1>. QED BY <1>3, <1>4

\* AtMost is a linear order, with Zero at its start.
LEMMA AtMostOrders ==
  ASSUME NEW x \in Fraction, NEW y \in Fraction
  PROVE  /\ AtMost(x, x) /\ AtMost(Zero, x)
         /\ AtMost(x, y) \/ AtMost(y, x)
         /\ AtMost(x, y) /\ AtMost(y, x) => x = y
         /\ AtMost(x, Zero) => x = Zero
<1>1. PICK d \in Positive, m \in Nat, n \in Nat : x = Frac(m, d) /\ y = Frac(n, d)
  BY Common
<1>2. Zero = Frac(0, d)
  BY ZeroIs
<1>3. /\ AtMost(x, x) <=> m <= m
      /\ AtMost(Zero, x) <=> 0 <= m
      /\ AtMost(x, Zero) <=> m <= 0
      /\ AtMost(x, y) <=> m <= n
      /\ AtMost(y, x) <=> n <= m
  BY <1>1, <1>2, AtMostOver
<1>4. m <= n /\ n <= m => m = n
  OBVIOUS
<1>5. m <= 0 => m = 0
  OBVIOUS
<1>. QED BY <1>1, <1>2, <1>3, <1>4, <1>5

LEMMA AtMostTransitive ==
  ASSUME NEW x \in Fraction, NEW y \in Fraction, NEW z \in Fraction,
         AtMost(x, y), AtMost(y, z)
  PROVE  AtMost(x, z)
<1>1. PICK d \in Positive, l \in Nat, m \in Nat, n \in Nat :
        x = Frac(l, d) /\ y = Frac(m, d) /\ z = Frac(n, d)
  BY CommonThree
<1>2. l <= m /\ m <= n
  BY <1>1, AtMostOver
<1>3. l <= n
  BY <1>2
<1>. QED BY <1>1, <1>3, AtMostOver

LEMMA PlusKeepsOrder ==
  ASSUME NEW x \in Fraction, NEW y \in Fraction, NEW z \in Fraction
  PROVE  AtMost(Plus(x, z), Plus(y, z)) <=> AtMost(x, y)
<1>1. PICK d \in Positive, l \in Nat, m \in Nat, n \in Nat :
        x = Frac(l, d) /\ y = Frac(m, d) /\ z = Frac(n, d)
  BY CommonThree
<1>2. AtMost(x, y) <=> l <= m
  BY <1>1, AtMostOver
<1>3. /\ l + n <= m + n <=> l <= m
      /\ l + n \in Nat /\ m + n \in Nat
  OBVIOUS
<1>4. Plus(x, z) = Frac(l + n, d) /\ Plus(y, z) = Frac(m + n, d)
  BY <1>1, PlusOver
<1>. QED BY <1>2, <1>3, <1>4, AtMostOver

LEMMA PlusKeepsBoth ==
  ASSUME NEW w \in Fraction, NEW x \in Fraction, NEW y \in Fraction,
         NEW z \in Fraction, AtMost(w, x), AtMost(y, z)
  PROVE  AtMost(Plus(w, y), Plus(x, z))
<1>1. AtMost(Plus(w, y), Plus(x, y))
  BY PlusKeepsOrder
<1>2. AtMost(Plus(y, x), Plus(z, x))
  BY PlusKeepsOrder
<1>3. Plus(y, x) = Plus(x, y) /\ Plus(z, x) = Plus(x, z)
  BY PlusCommutes
<1>4. /\ Plus(w, y) \in Fraction /\ Plus(x, y) \in Fraction
      /\ Plus(x, z) \in Fraction
  BY PlusType
<1>. QED BY <1>1, <1>2, <1>3, <1>4, AtMostTransitive

LEMMA LesserIs ==
  ASSUME NEW x \in Fraction, NEW y \in Fraction
  PROVE  /\ Lesser(x, y) \in Fraction /\ Lesser(x, y) \in {x, y}
         /\ AtMost(Lesser(x, y), x) /\ AtMost(Lesser(x, y), y)
         /\ Lesser(x, y) = Lesser(y, x)
BY AtMostOrders DEF Lesser

LEMMA LesserOver ==
  ASSUME NEW m \in Nat, NEW n \in Nat, NEW d \in Positive
  PROVE  Lesser(Frac(m, d), Frac(n, d)) = Frac(IF m <= n THEN m ELSE n, d)
BY AtMostOver DEF Lesser

LEMMA LesserKeepsOrder ==
  ASSUME NEW x \in Fraction, NEW y \in Fraction, NEW z \in Fraction, AtMost(x, y)
  PROVE  AtMost(Lesser(x, z), Lesser(y, z))
BY AtMostOrders, AtMostTransitive DEF Lesser

LEMMA MinusIs ==
  ASSUME NEW x \in Fraction, NEW y \in Fraction
  PROVE  /\ Minus(x, y) \in Fraction
         /\ AtMost(Minus(x, y), x)
         /\ AtMost(y, x) => Plus(y, Minus(x, y)) = x
         /\ AtMost(x, y) => Minus(x, y) = Zero
         /\ Plus(Lesser(x, y), Minus(x, y)) = x
         /\ AtMost(y, x) => Minus(x, Minus(x, y)) = y
<1>1. PICK d \in Positive, m \in Nat, n \in Nat : x = Frac(m, d) /\ y = Frac(n, d)
  BY Common
<1>2. AtMost(x, y) <=> m <= n
  BY <1>1, AtMostOver
<1>3. AtMost(y, x) <=> n <= m
  BY <1>1, AtMostOver
<1>4. CASE m <= n
  <2>1. Minus(x, y) = Frac(0, d) /\ Zero = Frac(0, d)
    BY <1>1, <1>4, MinusOver, ZeroIs
  <2>2. Minus(x, y) = Zero /\ Lesser(x, y) = x
    BY <1>2, <1>4, <2>1 DEF Lesser
  <2>3. /\ AtMost(Zero, x) /\ Zero \in Fraction /\ Plus(x, Zero) = x
        /\ Plus(y, Zero) = y
    BY AtMostOrders, ZeroIs, PlusZero
  <2>4. n <= m => x = y
    BY <1>1, <1>4
  <2>5. Minus(x, Zero) = x
    BY <1>1, <2>1, MinusOver
  <2>. QED BY <1>3, <2>2, <2>3, <2>4, <2>5
<1>5. CASE n < m
  <2>1. Minus(x, y) = Frac(m - n, d) /\ m - n \in Nat
    BY <1>1, <1>5, MinusOver
  <2>2. Minus(x, y) \in Fraction
    BY <2>1, FracType
  <2>3. m - n <= m
    OBVIOUS
  <2>4. AtMost(Minus(x, y), x)
    BY <1>1, <2>1, <2>3, AtMostOver
  <2>5. Plus(y, Minus(x, y)) = Frac(n + (m - n), d)
    BY <1>1, <2>1, PlusOver
  <2>6. n + (m - n) = m
    OBVIOUS
  <2>7. Plus(y, Minus(x, y)) = x
    BY <1>1, <2>5, <2>6
  <2>8. ~AtMost(x, y) /\ Lesser(x, y) = y
    BY <1>2, <1>5 DEF Lesser
  <2>9. Minus(x, Minus(x, y)) = Frac(m - (m - n), d)
    BY <1>1, <2>1, <2>3, MinusOver
  <2>10. m - (m - n) = n
    OBVIOUS
  <2>. QED BY <1>1, <2>2, <2>4, <2>7, <2>8, <2>9, <2>10
<1>. QED BY <1>4, <1>5

LEMMA MinusKeepsOrder ==
  ASSUME NEW x \in Fraction, NEW y \in Fraction, NEW z \in Fraction, AtMost(x, y)
  PROVE  AtMost(Minus(x, z), Minus(y, z))
<1>1. PICK d \in Positive, l \in Nat, m \in Nat, n \in Nat :
        x = Frac(l, d) /\ y = Frac(m, d) /\ z = Frac(n, d)
  BY CommonThree
<1>2. l <= m
  BY <1>1, AtMostOver
<1>3. CASE l <= n
  <2>1. Minus(x, z) = Zero
    BY <1>1, <1>3, MinusOver, ZeroIs
  <2>. QED BY <2>1, MinusIs, AtMostOrders
<1>4. CASE n < l
  <2>1. /\ Minus(x, z) = Frac(l - n, d) /\ Minus(y, z) = Frac(m - n, d)
        /\ l - n \in Nat /\ m - n \in Nat /\ l - n <= m - n
    BY <1>1, <1>2, <1>4, MinusOver
  <2>. QED BY <2>1, AtMostOver
<1>. QED BY <1>3, <1>4

LEMMA TimesType ==
  ASSUME NEW x \in Fraction, NEW y \in Fraction
  PROVE  Times(x, y) \in Fraction /\ Times(x, y) = Times(y, x)
         /\ Times(x, Zero) = Zero
<1>1. PICK m \in Nat, d \in Positive : x = Frac(m, d)
  BY DEF Fraction
<1>2. PICK n \in Nat, e \in Positive : y = Frac(n, e)
  BY DEF Fraction
<1>3. Times(x, y) = Frac(m * n, d * e) /\ Times(y, x) = Frac(n * m, e * d)
  BY <1>1, <1>2, TimesOver
<1>4. /\ m * n \in Nat /\ d * e \in Positive /\ m * n = n * m /\ d * e = e * d
      /\ m * 0 = 0 /\ 1 \in Positive
  BY DEF Positive
<1>5. Zero = Frac(0, 1) /\ Times(x, Zero) = Frac(m * 0, d * 1)
  BY <1>1, <1>4, ZeroIs, TimesOver
<1>6. Times(x, Zero) = Zero
  BY <1>4, <1>5, ZeroIs DEF Positive
<1>. QED BY <1>3, <1>4, <1>6, FracType

LEMMA TimesDistributes ==
  ASSUME NEW x \in Fraction, NEW y \in Fraction, NEW p \in Fraction
  PROVE  Times(p, Plus(x, y)) = Plus(Times(p, x), Times(p, y))
<1>1. PICK d \in Positive, m \in Nat, n \in Nat : x = Frac(m, d) /\ y = Frac(n, d)
  BY Common
<1>2. PICK k \in Nat, e \in Positive : p = Frac(k, e)
  BY DEF Fraction
<1>3. Plus(x, y) = Frac(m + n, d) /\ m + n \in Nat
  BY <1>1, PlusOver
<1>4. Times(p, Plus(x, y)) = Frac(k * (m + n), e * d)
  BY <1>2, <1>3, TimesOver
<1>5. Times(p, x) = Frac(k * m, e * d) /\ Times(p, y) = Frac(k * n, e * d)
  BY <1>1, <1>2, TimesOver
<1>6. /\ k * m \in Nat /\ k * n \in Nat /\ e * d \in Positive
      /\ k * (m + n) = k * m + k * n
  BY DEF Positive
<1>. QED BY <1>4, <1>5, <1>6, PlusOver

LEMMA TimesKeepsOrder ==
  ASSUME NEW x \in Fraction, NEW y \in Fraction, NEW p \in Fraction, AtMost(x, y)
  PROVE  AtMost(Times(x, p), Times(y, p))
<1>1. PICK d \in Positive, m \in Nat, n \in Nat : x = Frac(m, d) /\ y = Frac(n, d)
  BY Common
<1>2. PICK k \in Nat, e \in Positive : p = Frac(k, e)
  BY DEF Fraction
<1>3. m <= n
  BY <1>1, AtMostOver
<1>4. Times(x, p) = Frac(m * k, d * e) /\ Times(y, p) = Frac(n * k, d * e)
  BY <1>1, <1>2, TimesOver
<1>5. m * k \in Nat /\ n * k \in Nat /\ d * e \in Positive
  BY DEF Positive
<1>6. m * k <= n * k
  <2>1. PICK j \in Nat : n = m + j
    BY <1>3
  <2>2. n * k = m * k + j * k /\ j * k \in Nat
    BY <2>1
  <2>. QED BY <1>5, <2>2
<1>. QED BY <1>4, <1>5, <1>6, AtMostOver

\* A quotient, and how it compares.
LEMMA OverIs ==
  ASSUME NEW x \in Fraction, NEW y \in Fraction, y # Zero
  PROVE  /\ Over(x, y) \in Fraction
         /\ Times(Over(x, y), y) = x
         /\ Over(x, y) = Zero <=> x = Zero
<1>1. PICK d \in Positive, m \in Nat, n \in Nat : x = Frac(m, d) /\ y = Frac(n, d)
  BY Common
<1>2. n \in Positive
  BY <1>1, ZeroIs DEF Positive
<1>3. Over(x, y) = Frac(m, n)
  BY <1>1, <1>2, OverOver
<1>4. Times(Over(x, y), y) = Frac(m * n, n * d)
  BY <1>1, <1>2, <1>3, TimesOver
<1>5. m * n \in Nat /\ n * d \in Positive /\ (m * n) * d = m * (n * d)
  BY <1>2 DEF Positive
<1>6. Times(Over(x, y), y) = x
  BY <1>1, <1>4, <1>5, FracSame
<1>. QED BY <1>1, <1>2, <1>3, <1>6, ZeroIs, FracType

LEMMA OverOrders ==
  ASSUME NEW p \in Fraction, NEW x \in Fraction, NEW y \in Fraction, y # Zero
  PROVE  /\ AtMost(Times(p, y), x) => AtMost(p, Over(x, y))
         /\ AtMost(x, Times(p, y)) => AtMost(Over(x, y), p)
<1>1. PICK d \in Positive, m \in Nat, n \in Nat, k \in Nat :
        x = Frac(m, d) /\ y = Frac(n, d) /\ p = Frac(k, d)
  BY CommonThree
<1>2. n \in Positive
  BY <1>1, ZeroIs DEF Positive
<1>3. Over(x, y) = Frac(m, n)
  BY <1>1, <1>2, OverOver
<1>4. Times(p, y) = Frac(k * n, d * d)
  BY <1>1, TimesOver
<1>5. x = Frac(m * d, d * d) /\ m * d \in Nat /\ d * d \in Positive /\ k * n \in Nat
  BY <1>1, Expand DEF Positive
<1>6. /\ AtMost(Times(p, y), x) <=> k * n <= m * d
      /\ AtMost(x, Times(p, y)) <=> m * d <= k * n
  BY <1>4, <1>5, AtMostOver
<1>7. /\ p = Frac(k * n, d * n) /\ d * n \in Positive
      /\ Frac(m, n) = Frac(m * d, n * d) /\ n * d = d * n
  BY <1>1, <1>2, Expand DEF Positive
<1>8. /\ AtMost(p, Over(x, y)) <=> k * n <= m * d
      /\ AtMost(Over(x, y), p) <=> m * d <= k * n
  BY <1>3, <1>5, <1>7, AtMostOver
<1>. QED BY <1>6, <1>8
-----------------------------------------------------------------------------
(***************************************************************************)
(* Totals: FiniteSums' argument for sums of fractions.  Each fact holds    *)
(* for all subsets of a finite set because there is no least subset for    *)
(* which it does not.                                                      *)
(***************************************************************************)
Tally(w, S, g) ==
  g = [s \in SUBSET S |->
         IF s = {} THEN Zero
         ELSE Plus(w[CHOOSE x \in s : TRUE], g[s \ {CHOOSE x \in s : TRUE}])]

LEMMA TotalTally ==
  ASSUME NEW w, NEW S
  PROVE  Total(w, S) = (CHOOSE g : Tally(w, S, g))[S]
BY DEF Total, FoldFunctionOnSet, MapThenFoldSet, Tally

\* The tally of the subsets with at most n elements.
TallyUpTo(w, S, n, g) ==
  LET small == {s \in SUBSET S : Cardinality(s) <= n}
  IN g = [s \in small |->
            IF s = {} THEN Zero
            ELSE Plus(w[CHOOSE x \in s : TRUE], g[s \ {CHOOSE x \in s : TRUE}])]

LEMMA TallyUpToExists ==
  ASSUME NEW w, NEW S, IsFiniteSet(S), NEW n \in Nat
  PROVE  \E g : TallyUpTo(w, S, n, g)
<1>. DEFINE Bad == {m \in Nat : ~ \E g : TallyUpTo(w, S, m, g)}
<1>. SUFFICES ASSUME Bad # {} PROVE FALSE
  OBVIOUS
<1>1. PICK m \in Bad : \A k \in Bad : m <= k
  BY LeastNat
<1>2. \A s \in SUBSET S : IsFiniteSet(s) /\ Cardinality(s) \in Nat
  BY FS_Subset, FS_CardinalityType
<1>3. \A s \in SUBSET S : s # {} =>
        /\ (CHOOSE x \in s : TRUE) \in s
        /\ s \ {CHOOSE x \in s : TRUE} \in SUBSET S
        /\ Cardinality(s \ {CHOOSE x \in s : TRUE}) = Cardinality(s) - 1
  BY <1>2, FS_RemoveElement
<1>4. CASE m = 0
  <2>. DEFINE g == [s \in {s \in SUBSET S : Cardinality(s) <= 0} |-> Zero]
  <2>1. \A s \in SUBSET S : Cardinality(s) <= 0 => s = {}
    BY <1>2, FS_EmptySet
  <2>2. TallyUpTo(w, S, 0, g)
    BY <2>1 DEF TallyUpTo
  <2>. HIDE DEF g
  <2>. QED BY <1>4, <2>2
<1>5. CASE m # 0
  <2>0. m - 1 \in Nat /\ m - 1 < m
    BY <1>5
  <2>1. PICK f : TallyUpTo(w, S, m - 1, f)
    BY <1>1, <2>0
  <2>. DEFINE small == {s \in SUBSET S : Cardinality(s) <= m}
              smaller == {s \in SUBSET S : Cardinality(s) <= m - 1}
              rest(s) == s \ {CHOOSE x \in s : TRUE}
              g == [s \in small |->
                      IF s = {} THEN Zero
                      ELSE Plus(w[CHOOSE x \in s : TRUE], f[rest(s)])]
  <2>2. \A s \in small : s # {} => rest(s) \in smaller
    BY <1>2, <1>3
  <2>3. smaller \subseteq small
    BY <1>2, <2>0
  <2>4. f = [s \in smaller |->
               IF s = {} THEN Zero
               ELSE Plus(w[CHOOSE x \in s : TRUE], f[rest(s)])]
    BY <2>1 DEF TallyUpTo
  <2>. HIDE DEF small, smaller, rest
  <2>5. \A s \in smaller :
          f[s] = IF s = {} THEN Zero
                 ELSE Plus(w[CHOOSE x \in s : TRUE], f[rest(s)])
    BY <2>4
  <2>6. \A s \in smaller : g[s] = f[s]
    BY <2>3, <2>5
  <2>7. g = [s \in small |->
               IF s = {} THEN Zero
               ELSE Plus(w[CHOOSE x \in s : TRUE], g[rest(s)])]
    <3>. DEFINE h == [s \in small |->
                        IF s = {} THEN Zero
                        ELSE Plus(w[CHOOSE x \in s : TRUE], g[rest(s)])]
    <3>1. \A s \in small : s # {} => g[rest(s)] = f[rest(s)]
      BY <2>2, <2>6
    <3>2. ASSUME NEW s \in small PROVE g[s] = h[s]
      <4>1. CASE s = {}
        BY <4>1
      <4>2. CASE s # {}
        <5>1. g[rest(s)] = f[rest(s)]
          BY <3>1, <4>2
        <5>2. g[s] = Plus(w[CHOOSE x \in s : TRUE], f[rest(s)])
          BY <4>2
        <5>3. h[s] = Plus(w[CHOOSE x \in s : TRUE], g[rest(s)])
          BY <4>2
        <5>. QED BY <5>1, <5>2, <5>3
      <4>. QED BY <4>1, <4>2
    <3>3. g = [s \in small |-> g[s]] /\ h = [s \in small |-> h[s]]
      OBVIOUS
    <3>. HIDE DEF g, h
    <3>4. g = h
      BY <3>2, <3>3
    <3>. QED BY <3>4 DEF h
  <2>. HIDE DEF g
  <2>8. TallyUpTo(w, S, m, g)
    BY <2>7 DEF TallyUpTo, small, rest
  <2>. QED BY <2>8
<1>. QED BY <1>4, <1>5

LEMMA TallyExists ==
  ASSUME NEW w, NEW S, IsFiniteSet(S)
  PROVE  \E g : Tally(w, S, g)
<1>1. Cardinality(S) \in Nat /\ \A s \in SUBSET S : Cardinality(s) <= Cardinality(S)
  BY FS_Subset, FS_CardinalityType
<1>2. PICK g : TallyUpTo(w, S, Cardinality(S), g)
  BY <1>1, TallyUpToExists
<1>3. {s \in SUBSET S : Cardinality(s) <= Cardinality(S)} = SUBSET S
  BY <1>1
<1>4. Tally(w, S, g)
  BY <1>2, <1>3 DEF Tally, TallyUpTo
<1>. QED BY <1>4

LEMMA TallyUnique ==
  ASSUME NEW w, NEW S, IsFiniteSet(S), NEW T \in SUBSET S,
         NEW g, Tally(w, S, g), NEW h, Tally(w, T, h)
  PROVE  \A s \in SUBSET T : g[s] = h[s]
<1>. DEFINE Bad == {s \in SUBSET T : g[s] # h[s]}
<1>. SUFFICES ASSUME Bad # {} PROVE FALSE
  OBVIOUS
<1>1. IsFiniteSet(T)
  BY FS_Subset
<1>2. PICK s \in Bad : \A u \in SUBSET s : u = s \/ u \notin Bad
  <2>1. Bad \subseteq SUBSET T
    OBVIOUS
  <2>. HIDE DEF Bad
  <2>. QED BY <1>1, <2>1, LeastSet
<1>. DEFINE x == CHOOSE x \in s : TRUE
<1>3. /\ g[s] = IF s = {} THEN Zero ELSE Plus(w[x], g[s \ {x}])
      /\ h[s] = IF s = {} THEN Zero ELSE Plus(w[x], h[s \ {x}])
  BY DEF Tally
<1>4. s # {} => x \in s
  OBVIOUS
<1>. HIDE DEF x
<1>5. s # {} => g[s \ {x}] = h[s \ {x}]
  BY <1>2, <1>4
<1>. QED BY <1>3, <1>5

LEMMA TotalEmpty ==
  ASSUME NEW w
  PROVE  Total(w, {}) = Zero
<1>1. PICK g : Tally(w, {}, g)
  BY TallyExists, FS_EmptySet
<1>2. Tally(w, {}, CHOOSE f : Tally(w, {}, f))
  BY <1>1
<1>3. \A f : Tally(w, {}, f) => f[{}] = Zero
  BY DEF Tally
<1>. QED BY <1>2, <1>3, TotalTally

AnyOf(S) == CHOOSE x \in S : TRUE

LEMMA TotalStep ==
  ASSUME NEW w, NEW S, IsFiniteSet(S), S # {}
  PROVE  /\ AnyOf(S) \in S
         /\ Total(w, S) = Plus(w[AnyOf(S)], Total(w, S \ {AnyOf(S)}))
<1>1. PICK x : x = CHOOSE y \in S : TRUE
  OBVIOUS
<1>2. x \in S /\ x = AnyOf(S)
  BY <1>1 DEF AnyOf
<1>. DEFINE T == S \ {x}
<1>3. IsFiniteSet(T) /\ T \in SUBSET S
  BY FS_Subset
<1>4. PICK g : g = CHOOSE f : Tally(w, S, f)
  OBVIOUS
<1>5. PICK h : h = CHOOSE f : Tally(w, T, f)
  OBVIOUS
<1>6. Tally(w, S, g)
  BY <1>4, TallyExists
<1>7. Tally(w, T, h)
  <2>. HIDE DEF T
  <2>. QED BY <1>3, <1>5, TallyExists
<1>8. Total(w, S) = g[S] /\ Total(w, T) = h[T]
  BY <1>4, <1>5, TotalTally
<1>9. g[S] = Plus(w[x], g[T])
  BY <1>1, <1>6 DEF Tally
<1>10. g[T] = h[T]
  <2>. HIDE DEF T
  <2>. QED BY <1>3, <1>6, <1>7, TallyUnique
<1>. QED BY <1>1, <1>2, <1>8, <1>9, <1>10

LEMMA TotalType ==
  ASSUME NEW w, NEW S, IsFiniteSet(S), \A x \in S : w[x] \in Fraction
  PROVE  Total(w, S) \in Fraction
<1>. DEFINE Bad == {T \in SUBSET S : Total(w, T) \notin Fraction}
<1>. SUFFICES ASSUME Bad # {} PROVE FALSE
  OBVIOUS
<1>1. PICK T \in Bad : \A U \in SUBSET T : U = T \/ U \notin Bad
  <2>1. Bad \subseteq SUBSET S
    OBVIOUS
  <2>. HIDE DEF Bad
  <2>. QED BY <2>1, LeastSet
<1>2. IsFiniteSet(T) /\ T # {}
  <2>1. T \in SUBSET S
    OBVIOUS
  <2>2. IsFiniteSet(T)
    BY <2>1, FS_Subset
  <2>3. T # {}
    BY TotalEmpty, ZeroIs
  <2>. QED BY <2>2, <2>3
<1>3. PICK x \in T : Total(w, T) = Plus(w[x], Total(w, T \ {x}))
  BY <1>2, TotalStep
<1>4. Total(w, T \ {x}) \in Fraction /\ w[x] \in Fraction
  BY <1>1
<1>. QED BY <1>3, <1>4, PlusType

\* Any element may be taken out first.
LEMMA TotalTakes ==
  ASSUME NEW w, NEW S, IsFiniteSet(S), \A x \in S : w[x] \in Fraction, NEW a \in S
  PROVE  Total(w, S) = Plus(w[a], Total(w, S \ {a}))
<1>. DEFINE Bad == {T \in SUBSET S : \E x \in T :
                      Total(w, T) # Plus(w[x], Total(w, T \ {x}))}
<1>. SUFFICES ASSUME Bad # {} PROVE FALSE
  OBVIOUS
<1>1. PICK T \in Bad : \A U \in SUBSET T : U = T \/ U \notin Bad
  <2>1. Bad \subseteq SUBSET S
    OBVIOUS
  <2>. HIDE DEF Bad
  <2>. QED BY <2>1, LeastSet
<1>2. PICK x \in T : Total(w, T) # Plus(w[x], Total(w, T \ {x}))
  OBVIOUS
<1>3. IsFiniteSet(T)
  BY FS_Subset
<1>4. PICK y \in T : Total(w, T) = Plus(w[y], Total(w, T \ {y}))
  BY <1>3, TotalStep
<1>5. x # y
  BY <1>2, <1>4
<1>6. Total(w, T \ {y}) = Plus(w[x], Total(w, (T \ {y}) \ {x}))
  BY <1>1, <1>5
<1>7. Total(w, T \ {x}) = Plus(w[y], Total(w, (T \ {x}) \ {y}))
  BY <1>1, <1>5
<1>8. (T \ {y}) \ {x} = (T \ {x}) \ {y}
  OBVIOUS
<1>9. Total(w, (T \ {x}) \ {y}) \in Fraction
  <2>1. IsFiniteSet((T \ {x}) \ {y})
    BY <1>3, FS_RemoveElement
  <2>. QED BY <2>1, TotalType
<1>10. w[x] \in Fraction /\ w[y] \in Fraction
  OBVIOUS
<1>11. PICK p, q, r \in Fraction :
         p = w[x] /\ q = w[y] /\ r = Total(w, (T \ {x}) \ {y})
  BY <1>9, <1>10
<1>12. Total(w, T) = Plus(q, Plus(p, r))
  BY <1>4, <1>6, <1>8, <1>11
<1>13. Total(w, T) # Plus(p, Plus(q, r))
  BY <1>2, <1>7, <1>11
<1>14. Plus(q, Plus(p, r)) = Plus(p, Plus(q, r))
  BY PlusAssociates
<1>. QED BY <1>12, <1>13, <1>14, Zenon

\* Two functions with the same values on the set have the same total.
LEMMA TotalSame ==
  ASSUME NEW v, NEW w, NEW S, IsFiniteSet(S), \A x \in S : v[x] = w[x]
  PROVE  Total(v, S) = Total(w, S)
<1>. DEFINE Bad == {T \in SUBSET S : Total(v, T) # Total(w, T)}
<1>. SUFFICES ASSUME Bad # {} PROVE FALSE
  OBVIOUS
<1>1. PICK T \in Bad : \A U \in SUBSET T : U = T \/ U \notin Bad
  <2>1. Bad \subseteq SUBSET S
    OBVIOUS
  <2>. HIDE DEF Bad
  <2>. QED BY <2>1, LeastSet
<1>2. IsFiniteSet(T) /\ T # {}
  <2>1. T \in SUBSET S
    OBVIOUS
  <2>2. IsFiniteSet(T)
    BY <2>1, FS_Subset
  <2>3. T # {}
    BY TotalEmpty
  <2>. QED BY <2>2, <2>3
<1>3. PICK x \in T : /\ x = AnyOf(T)
                     /\ Total(v, T) = Plus(v[x], Total(v, T \ {x}))
  BY <1>2, TotalStep
<1>4. Total(w, T) = Plus(w[x], Total(w, T \ {x}))
  BY <1>2, <1>3, TotalStep
<1>5. Total(v, T \ {x}) = Total(w, T \ {x})
  BY <1>1
<1>. QED BY <1>3, <1>4, <1>5

\* The total over 1..n, taken from its end.
LEMMA TotalUpTo ==
  ASSUME NEW w, NEW n \in Nat, \A i \in 1..n : w[i] \in Fraction
  PROVE  /\ Total(w, 1..n) \in Fraction
         /\ n = 0 => Total(w, 1..n) = Zero
         /\ n > 0 => Total(w, 1..n) = Plus(Total(w, 1..(n - 1)), w[n])
<1>1. IsFiniteSet(1..n) /\ IsFiniteSet(1..(n - 1))
  BY FS_Interval
<1>2. Total(w, 1..n) \in Fraction
  BY <1>1, TotalType
<1>3. n = 0 => Total(w, 1..n) = Zero
  <2>1. n = 0 => 1..n = {}
    OBVIOUS
  <2>. QED BY <2>1, TotalEmpty
<1>4. ASSUME n > 0
      PROVE  Total(w, 1..n) = Plus(Total(w, 1..(n - 1)), w[n])
  <2>1. n \in 1..n /\ (1..n) \ {n} = 1..(n - 1)
    BY <1>4
  <2>2. Total(w, 1..n) = Plus(w[n], Total(w, 1..(n - 1)))
    BY <1>1, <2>1, TotalTakes
  <2>3. \A i \in 1..(n - 1) : w[i] \in Fraction
    OBVIOUS
  <2>4. Total(w, 1..(n - 1)) \in Fraction
    BY <1>1, <2>3, TotalType
  <2>. QED BY <2>1, <2>2, <2>4, PlusCommutes
<1>. QED BY <1>2, <1>3, <1>4
-----------------------------------------------------------------------------
(***************************************************************************)
(* Recursion and induction along 0..n, which the replay and the lots use.  *)
(***************************************************************************)
LEMMA Climb ==
  ASSUME NEW n \in Nat, NEW Q, 0 \in Q, \A i \in 1..n : i - 1 \in Q => i \in Q
  PROVE  \A i \in 0..n : i \in Q
<1>. DEFINE Bad == {i \in 0..n : i \notin Q}
<1>. SUFFICES ASSUME Bad # {} PROVE FALSE
  OBVIOUS
<1>1. PICK i \in Bad : \A j \in Bad : i <= j
  <2>1. Bad \subseteq Nat
    OBVIOUS
  <2>. HIDE DEF Bad
  <2>. QED BY <2>1, LeastNat
<1>2. i \in 1..n /\ i - 1 \in 0..n /\ ~(i <= i - 1)
  OBVIOUS
<1>3. i - 1 \in Q
  BY <1>1, <1>2
<1>. QED BY <1>2, <1>3

Steps(n, P, base, step) ==
  n \in Nat /\ base \in P /\ \A i \in 1..n : step[i] \in [P -> P]

Follows(f, n, P, base, step) ==
  /\ f \in [0..n -> P] /\ f[0] = base
  /\ \A i \in 1..n : f[i] = step[i][f[i - 1]]

LEMMA Recursion ==
  ASSUME NEW n, NEW P, NEW base, NEW step, Steps(n, P, base, step)
  PROVE  \E f : Follows(f, n, P, base, step)
<1>0. n \in Nat /\ base \in P /\ \A i \in 1..n : step[i] \in [P -> P]
  BY DEF Steps
<1>. DEFINE Q == {m \in 0..n : \E f \in [0..m -> P] :
                    f[0] = base /\ \A i \in 1..m : f[i] = step[i][f[i - 1]]}
<1>1. 0 \in Q
  <2>. DEFINE f == [i \in 0..0 |-> base]
  <2>1. f \in [0..0 -> P] /\ f[0] = base /\ \A i \in 1..0 : f[i] = step[i][f[i - 1]]
    BY <1>0
  <2>. HIDE DEF f
  <2>. QED BY <1>0, <2>1
<1>2. ASSUME NEW m \in 1..n, m - 1 \in Q PROVE m \in Q
  <2>1. PICK f \in [0..(m - 1) -> P] :
          f[0] = base /\ \A i \in 1..(m - 1) : f[i] = step[i][f[i - 1]]
    BY <1>2
  <2>. DEFINE g == [i \in 0..m |-> IF i = m THEN step[m][f[m - 1]] ELSE f[i]]
  <2>2. g \in [0..m -> P]
    <3>1. step[m][f[m - 1]] \in P
      BY <1>0
    <3>. QED BY <1>0, <3>1
  <2>3. g[0] = base
    BY <1>0, <2>1
  <2>4. ASSUME NEW i \in 1..m PROVE g[i] = step[i][g[i - 1]]
    <3>1. g[i - 1] = f[i - 1]
      BY <1>0
    <3>2. i # m => g[i] = f[i] /\ i \in 1..(m - 1)
      BY <1>0
    <3>. QED BY <2>1, <3>1, <3>2
  <2>5. m \in 0..n
    BY <1>0
  <2>. HIDE DEF g
  <2>. QED BY <2>2, <2>3, <2>4, <2>5
<1>3. n \in Q
  <2>. HIDE DEF Q
  <2>. QED BY <1>0, <1>1, <1>2, Climb
<1>. QED BY <1>3 DEF Follows
-----------------------------------------------------------------------------
(* The lots: their types, and what is left once some of each is taken.     *)
Lot == [kwh : Fraction, price : Fraction]

LEMMA LotsAre ==
  ASSUME NEW lots \in Seq(Lot)
  PROVE  /\ Len(lots) \in Nat /\ DOMAIN lots = 1..Len(lots)
         /\ \A i \in 1..Len(lots) : /\ lots[i] \in Lot /\ lots[i].kwh \in Fraction
                                    /\ lots[i].price \in Fraction
<1>1. Len(lots) \in Nat /\ DOMAIN lots = 1..Len(lots)
  BY LenProperties
<1>2. ASSUME NEW i \in 1..Len(lots) PROVE lots[i] \in Lot
  BY ElementOfSeq
<1>. QED BY <1>1, <1>2 DEF Lot

LEMMA InLotsType ==
  ASSUME NEW lots \in Seq(Lot)
  PROVE  InLots(lots) \in Fraction
<1>. DEFINE w == [i \in DOMAIN lots |-> lots[i].kwh]
<1>0. DOMAIN lots = 1..Len(lots) /\ Len(lots) \in Nat
  BY LotsAre
<1>1. IsFiniteSet(DOMAIN lots) /\ \A i \in DOMAIN lots : w[i] \in Fraction
  <2>1. IsFiniteSet(1..Len(lots))
    BY <1>0, FS_Interval
  <2>. QED BY <1>0, <2>1, LotsAre
<1>. HIDE DEF w
<1>2. Total(w, DOMAIN lots) \in Fraction
  BY <1>1, TotalType
<1>. QED BY <1>2 DEF InLots, w

\* What lots 1..i hold together.
Upto(lots, i) == Total([j \in DOMAIN lots |-> lots[j].kwh], 1..i)

LEMMA UptoIs ==
  ASSUME NEW lots \in Seq(Lot), NEW i \in 0..Len(lots)
  PROVE  /\ Upto(lots, i) \in Fraction
         /\ i = 0 => Upto(lots, i) = Zero
         /\ i > 0 => Upto(lots, i) = Plus(Upto(lots, i - 1), lots[i].kwh)
         /\ Upto(lots, Len(lots)) = InLots(lots)
<1>. DEFINE w == [j \in DOMAIN lots |-> lots[j].kwh]
<1>1. \A j \in 1..Len(lots) : w[j] = lots[j].kwh /\ w[j] \in Fraction
  BY LotsAre
<1>2. i \in Nat /\ \A j \in 1..i : w[j] \in Fraction
  BY <1>1, LotsAre
<1>3. i > 0 => w[i] = lots[i].kwh
  BY <1>1
<1>4. Upto(lots, i) = Total(w, 1..i) /\ Upto(lots, i - 1) = Total(w, 1..(i - 1))
  BY DEF Upto
<1>5. Upto(lots, Len(lots)) = InLots(lots)
  BY LotsAre DEF Upto, InLots
<1>. HIDE DEF w
<1>. QED BY <1>2, <1>3, <1>4, <1>5, TotalUpTo

Left(lots, taken, i) == [lots[i] EXCEPT !.kwh = Minus(lots[i].kwh, taken[i])]

\* f is what is left of the first i lots, for each i.
Keeps(lots, taken, f) ==
  /\ f \in [0..Len(lots) -> Seq(Lot)] /\ f[0] = <<>>
  /\ \A i \in 1..Len(lots) :
       f[i] = IF Minus(lots[i].kwh, taken[i]) = Zero THEN f[i - 1]
              ELSE Append(f[i - 1], Left(lots, taken, i))

LEMMA LeftType ==
  ASSUME NEW lots \in Seq(Lot), NEW taken, NEW i \in 1..Len(lots),
         taken[i] \in Fraction
  PROVE  /\ Left(lots, taken, i) \in Lot
         /\ Left(lots, taken, i).kwh = Minus(lots[i].kwh, taken[i])
         /\ Left(lots, taken, i).price = lots[i].price
<1>1. lots[i] \in Lot /\ lots[i].kwh \in Fraction
  BY LotsAre
<1>2. Minus(lots[i].kwh, taken[i]) \in Fraction
  BY <1>1, MinusIs
<1>. QED BY <1>1, <1>2 DEF Left, Lot

LEMMA WithoutIs ==
  ASSUME NEW lots \in Seq(Lot), NEW taken \in [1..Len(lots) -> Fraction]
  PROVE  \E f : Keeps(lots, taken, f) /\ Without(lots, taken) = f[Len(lots)]
<1>. DEFINE n == Len(lots)
            used(i) == Minus(lots[i].kwh, taken[i]) = Zero
            step == [i \in 1..n |-> [s \in Seq(Lot) |->
                       IF used(i) THEN s ELSE Append(s, Left(lots, taken, i))]]
<1>0. n \in Nat
  BY LotsAre
<1>1. \A i \in 1..n : step[i] \in [Seq(Lot) -> Seq(Lot)]
  BY LeftType
<1>2. <<>> \in Seq(Lot)
  OBVIOUS
<1>3. PICK f \in [0..n -> Seq(Lot)] :
        f[0] = <<>> /\ \A i \in 1..n : f[i] = step[i][f[i - 1]]
  <2>. HIDE DEF step, n
  <2>1. Steps(n, Seq(Lot), <<>>, step)
    BY <1>0, <1>1, <1>2 DEF Steps
  <2>2. PICK f : Follows(f, n, Seq(Lot), <<>>, step)
    BY <2>1, Recursion
  <2>. QED BY <2>2 DEF Follows
<1>4. \A i \in 1..n : f[i] = IF used(i) THEN f[i - 1]
                              ELSE Append(f[i - 1], Left(lots, taken, i))
  <2>1. \A i \in 1..n : i - 1 \in 0..n
    BY <1>0
  <2>. QED BY <1>3, <2>1
<1>5. Keeps(lots, taken, f)
  BY <1>3, <1>4 DEF Keeps
<1>. DEFINE Is(g) == g = [i \in 0..n |->
                            IF i = 0 THEN <<>>
                            ELSE IF used(i) THEN g[i - 1]
                            ELSE Append(g[i - 1], Left(lots, taken, i))]
<1>6. Is(f)
  <2>1. \A i \in 0..n : i # 0 => i \in 1..n
    BY <1>0
  <2>. QED BY <1>3, <1>4, <2>1
<1>7. PICK g : g = CHOOSE h : Is(h)
  OBVIOUS
<1>8. Is(g)
  BY <1>6, <1>7
<1>9. Without(lots, taken) = g[n]
  BY <1>7 DEF Without, Left
<1>10. n \in {i \in 0..n : g[i] = f[i]}
  <2>. DEFINE Q == {i \in 0..n : g[i] = f[i]}
  <2>1. 0 \in Q
    BY <1>0, <1>3, <1>8
  <2>2. ASSUME NEW i \in 1..n, i - 1 \in Q PROVE i \in Q
    <3>0. i \in 0..n /\ i # 0
      BY <1>0
    <3>1. g[i] = IF used(i) THEN g[i - 1]
                 ELSE Append(g[i - 1], Left(lots, taken, i))
      <4>1. \A j \in 0..n : g[j] = IF j = 0 THEN <<>>
                            ELSE IF used(j) THEN g[j - 1]
                            ELSE Append(g[j - 1], Left(lots, taken, j))
        BY <1>8
      <4>. HIDE DEF n, used
      <4>. QED BY <3>0, <4>1
    <3>. QED BY <1>4, <2>2, <3>0, <3>1
  <2>. HIDE DEF Q
  <2>3. n \in Q
    <3>1. PICK m \in Nat : m = n
      BY <1>0
    <3>2. \A i \in 1..m : i - 1 \in Q => i \in Q
      BY <2>2, <3>1
    <3>3. \A i \in 0..m : i \in Q
      BY <2>1, <3>2, Climb
    <3>. QED BY <3>1, <3>3
  <2>. QED BY <2>3 DEF Q
<1>. QED BY <1>5, <1>9, <1>10
-----------------------------------------------------------------------------
(* What the replay does keeps the types.                                   *)
Pool == [kwh : Fraction, price : Fraction, lots : Seq(Lot), cost : Fraction,
         lifo : Fraction]

\* What lot i gives is what is wanted after the lots ahead of it.
Wanted(lots, amount, ahead, i) ==
  Minus(amount, Total([j \in ahead[i] |-> lots[j].kwh], ahead[i]))

LEMMA TakenIs ==
  ASSUME NEW lots \in Seq(Lot), NEW amount \in Fraction,
         NEW ahead \in {Older(lots), Newer(lots)}
  PROVE  /\ Taken(lots, amount, ahead) \in [1..Len(lots) -> Fraction]
         /\ \A i \in 1..Len(lots) :
              /\ Wanted(lots, amount, ahead, i) \in Fraction
              /\ Taken(lots, amount, ahead)[i]
                   = Lesser(lots[i].kwh, Wanted(lots, amount, ahead, i))
              /\ AtMost(Taken(lots, amount, ahead)[i], lots[i].kwh)
<1>0. Len(lots) \in Nat /\ DOMAIN lots = 1..Len(lots)
  BY LotsAre
<1>1. ASSUME NEW i \in 1..Len(lots)
      PROVE  Wanted(lots, amount, ahead, i) \in Fraction
  <2>1. ahead[i] \subseteq 1..Len(lots) /\ IsFiniteSet(ahead[i])
    <3>1. ahead[i] = 1..(i - 1) \/ ahead[i] = (i + 1)..Len(lots)
      BY <1>0 DEF Older, Newer
    <3>2. IsFiniteSet(1..(i - 1)) /\ IsFiniteSet((i + 1)..Len(lots))
      BY <1>0, FS_Interval
    <3>. QED BY <1>0, <3>1, <3>2
  <2>. DEFINE w == [j \in ahead[i] |-> lots[j].kwh]
  <2>2. \A j \in ahead[i] : w[j] \in Fraction
    BY <2>1, LotsAre
  <2>. HIDE DEF w
  <2>3. Total(w, ahead[i]) \in Fraction
    BY <2>1, <2>2, TotalType
  <2>. QED BY <2>3, MinusIs DEF Wanted, w
<1>2. ASSUME NEW i \in 1..Len(lots)
      PROVE  /\ Lesser(lots[i].kwh, Wanted(lots, amount, ahead, i)) \in Fraction
             /\ AtMost(Lesser(lots[i].kwh, Wanted(lots, amount, ahead, i)), lots[i].kwh)
  BY <1>1, LotsAre, LesserIs
<1>3. Taken(lots, amount, ahead)
        = [i \in 1..Len(lots) |-> Lesser(lots[i].kwh, Wanted(lots, amount, ahead, i))]
  BY <1>0 DEF Taken, Wanted
<1>. QED BY <1>1, <1>2, <1>3

LEMMA WithoutType ==
  ASSUME NEW lots \in Seq(Lot), NEW taken \in [1..Len(lots) -> Fraction]
  PROVE  Without(lots, taken) \in Seq(Lot)
<1>1. PICK f : Keeps(lots, taken, f) /\ Without(lots, taken) = f[Len(lots)]
  BY WithoutIs
<1>2. Len(lots) \in 0..Len(lots)
  BY LotsAre
<1>. QED BY <1>1, <1>2 DEF Keeps

\* One lot before the others.
Padding(kwh, price) == <<[kwh |-> kwh, price |-> price]>>

LEMMA PaddingType ==
  ASSUME NEW kwh \in Fraction, NEW price \in Fraction, NEW lots \in Seq(Lot)
  PROVE  /\ Padding(kwh, price) \o lots \in Seq(Lot)
         /\ Append(lots, [kwh |-> kwh, price |-> price]) \in Seq(Lot)
<1>1. [kwh |-> kwh, price |-> price] \in Lot
  BY DEF Lot
<1>2. Padding(kwh, price) \in Seq(Lot)
  BY <1>1 DEF Padding
<1>. QED BY <1>1, <1>2, ConcatProperties, AppendProperties

LEMMA AnchoredType ==
  ASSUME NEW lots \in Seq(Lot), NEW target \in Fraction, NEW pad \in Fraction
  PROVE  Anchored(lots, target, pad) \in Seq(Lot)
<1>. DEFINE held == InLots(lots)
            taken == Taken(lots, Minus(held, target), Older(lots))
            padded == Padding(Minus(target, held), pad) \o lots
<1>1. held \in Fraction
  BY InLotsType
<1>2. Minus(held, target) \in Fraction /\ Minus(target, held) \in Fraction
  BY <1>1, MinusIs
<1>3. Without(lots, taken) \in Seq(Lot)
  <2>1. taken \in [1..Len(lots) -> Fraction]
    BY <1>2, TakenIs
  <2>. HIDE DEF taken
  <2>. QED BY <2>1, WithoutType
<1>4. padded \in Seq(Lot)
  BY <1>2, PaddingType
<1>5. \/ Anchored(lots, target, pad) = Without(lots, taken)
      \/ Anchored(lots, target, pad) = lots
      \/ Anchored(lots, target, pad) = padded
  BY DEF Anchored, Padding
<1>. QED BY <1>3, <1>4, <1>5

LEMMA ChargeIs ==
  ASSUME NEW c \in Charge
  PROVE  /\ c.kwh \in Positive /\ c.paid \in Nat /\ c # Absent
         /\ c.socs[1] \in Socs \cup {Unknown} /\ c.socs[2] \in Socs \cup {Unknown}
         /\ <<c.kwh, 1>> \in Fraction /\ <<c.kwh, 1>> # Zero
         /\ Price(c) \in Fraction /\ (Price(c) = Zero <=> c.paid = 0)
<1>1. c.kwh \in Positive /\ c.paid \in Nat /\ c.kind = "charge"
  BY ConstantsAssumption DEF Charge, Positive
<1>2. c.socs[1] \in Socs \cup {Unknown} /\ c.socs[2] \in Socs \cup {Unknown}
  <2>1. c.socs \in Readings
    BY DEF Charge
  <2>2. c.socs \in (Socs \cup {Unknown}) \X (Socs \cup {Unknown})
    BY <2>1, ConstantsAssumption
  <2>. QED BY <2>2
<1>3. <<c.kwh, 1>> = Frac(c.kwh, 1) /\ <<c.kwh, 1>> \in Fraction
  BY <1>1, WholeIs DEF Positive
<1>4. <<c.kwh, 1>> # Zero
  BY <1>1, <1>3, ZeroIs DEF Positive
<1>5. Price(c) \in Fraction /\ (Price(c) = Zero <=> c.paid = 0)
  BY <1>1, FracType, ZeroIs DEF Price
<1>6. c # Absent
  BY <1>1 DEF Absent
<1>. QED BY <1>1, <1>2, <1>3, <1>4, <1>5, <1>6

LEMMA ContentType ==
  ASSUME NEW soc \in Socs, NEW cap \in Positive
  PROVE  Content(soc, cap) \in Fraction
<1>1. soc * cap \in Nat /\ FullSoc \in Positive
  BY ConstantsAssumption DEF Socs, Positive
<1>. QED BY <1>1, FracType DEF Content

LEMMA PlusIsZero ==
  ASSUME NEW x \in Fraction, NEW y \in Fraction
  PROVE  Plus(x, y) = Zero => x = Zero /\ y = Zero
<1>1. PICK d \in Positive, m \in Nat, n \in Nat : x = Frac(m, d) /\ y = Frac(n, d)
  BY Common
<1>2. m + n \in Nat /\ m + n = 0 => m = 0 /\ n = 0
  OBVIOUS
<1>. QED BY <1>1, <1>2, PlusOver, ZeroIs

\* A mix of two prices.
Mixed(held, p, kwh, q) == Over(Plus(Times(held, p), Times(kwh, q)), Plus(held, kwh))

LEMMA MixedType ==
  ASSUME NEW held \in Fraction, NEW p \in Fraction, NEW kwh \in Fraction,
         NEW q \in Fraction, kwh # Zero
  PROVE  Mixed(held, p, kwh, q) \in Fraction
<1>1. Plus(held, kwh) \in Fraction /\ Plus(held, kwh) # Zero
  BY PlusType, PlusIsZero
<1>2. Plus(Times(held, p), Times(kwh, q)) \in Fraction
  BY TimesType, PlusType
<1>. QED BY <1>1, <1>2, OverIs DEF Mixed

\* The parts of Charged, named.
Before(pool, c, cap) ==
  IF c.socs[1] = Unknown THEN pool.kwh ELSE Content(c.socs[1], cap)
Opening(pool, c) ==
  IF c.socs[1] # Unknown /\ pool.price = Zero THEN Price(c) ELSE pool.price
Stack(pool, c, cap) ==
  IF c.socs[1] = Unknown THEN pool.lots
  ELSE Anchored(pool.lots, Content(c.socs[1], cap), Price(c))
Stacked(pool, c, cap) ==
  Append(Stack(pool, c, cap), [kwh |-> <<c.kwh, 1>>, price |-> Price(c)])
After(held, c, cap) ==
  IF c.socs[2] = Unknown THEN Lesser(held, <<cap, 1>>) ELSE Content(c.socs[2], cap)

LEMMA ChargedParts ==
  ASSUME NEW pool \in Pool, NEW c \in Charge, NEW cap \in Positive
  PROVE  /\ Before(pool, c, cap) \in Fraction
         /\ Opening(pool, c) \in Fraction
         /\ Stack(pool, c, cap) \in Seq(Lot)
         /\ Stacked(pool, c, cap) \in Seq(Lot)
         /\ \A held \in Fraction : After(held, c, cap) \in Fraction
<1>0. pool.kwh \in Fraction /\ pool.price \in Fraction /\ pool.lots \in Seq(Lot)
  BY DEF Pool
<1>00. /\ c.socs[1] \in Socs \cup {Unknown} /\ c.socs[2] \in Socs \cup {Unknown}
      /\ <<c.kwh, 1>> \in Fraction /\ Price(c) \in Fraction
  BY ChargeIs
<1>1. Before(pool, c, cap) \in Fraction
  BY <1>0, <1>00, ContentType DEF Before
<1>2. Opening(pool, c) \in Fraction
  BY <1>0, <1>00 DEF Opening
<1>3. Stack(pool, c, cap) \in Seq(Lot)
  BY <1>0, <1>00, ContentType, AnchoredType DEF Stack
<1>4. Stacked(pool, c, cap) \in Seq(Lot)
  BY <1>3, <1>00, PaddingType DEF Stacked
<1>5. ASSUME NEW held \in Fraction PROVE After(held, c, cap) \in Fraction
  <2>1. <<cap, 1>> \in Fraction
    BY WholeIs DEF Positive
  <2>. QED BY <2>1, <1>00, ContentType, LesserIs DEF After
<1>. QED BY <1>1, <1>2, <1>3, <1>4, <1>5

LEMMA ChargedIs ==
  ASSUME NEW pool \in Pool, NEW c \in Charge, NEW cap \in Positive
  PROVE  /\ Charged(pool, c, cap) \in Pool
         /\ Charged(pool, c, cap).kwh
              = After(Plus(Before(pool, c, cap), <<c.kwh, 1>>), c, cap)
         /\ Charged(pool, c, cap).price
              = Mixed(Before(pool, c, cap), Opening(pool, c), <<c.kwh, 1>>, Price(c))
         /\ Charged(pool, c, cap).lots
              = Anchored(Stacked(pool, c, cap),
                         After(InLots(Stacked(pool, c, cap)), c, cap), Price(c))
<1>. DEFINE kwh == After(Plus(Before(pool, c, cap), <<c.kwh, 1>>), c, cap)
            price == Mixed(Before(pool, c, cap), Opening(pool, c), <<c.kwh, 1>>, Price(c))
            lots == Anchored(Stacked(pool, c, cap),
                             After(InLots(Stacked(pool, c, cap)), c, cap), Price(c))
<1>1. Charged(pool, c, cap)
        = [pool EXCEPT !.kwh = kwh, !.price = price, !.lots = lots]
  BY Zenon DEF Charged, Blended, Mixed, Before, Opening, Stack, Stacked, After
<1>2. /\ Price(c) \in Fraction /\ <<c.kwh, 1>> \in Fraction /\ <<c.kwh, 1>> # Zero
  BY ChargeIs
<1>3. kwh \in Fraction
  BY <1>2, ChargedParts, PlusType
<1>4. price \in Fraction
  BY <1>2, ChargedParts, MixedType
<1>5. lots \in Seq(Lot)
  BY <1>2, ChargedParts, InLotsType, AnchoredType
<1>. HIDE DEF kwh, price, lots
<1>6. Charged(pool, c, cap) \in Pool
  BY <1>1, <1>3, <1>4, <1>5 DEF Pool
<1>7. /\ Charged(pool, c, cap).kwh = kwh /\ Charged(pool, c, cap).price = price
      /\ Charged(pool, c, cap).lots = lots
  BY <1>1 DEF Pool
<1>. QED BY <1>6, <1>7 DEF kwh, price, lots

\* The parts of Withdrawn, named.
Gives(pool, energy) == Taken(pool.lots, energy, Newer(pool.lots))
Worth(pool, energy) ==
  [i \in 1..Len(pool.lots) |-> Times(Gives(pool, energy)[i], pool.lots[i].price)]
Found(pool, energy) == Total(Gives(pool, energy), 1..Len(pool.lots))
FoundWorth(pool, energy) == Total(Worth(pool, energy), 1..Len(pool.lots))
Fallback(pool, rate) == IF pool.price = Zero THEN rate ELSE pool.price

LEMMA WithdrawnIs ==
  ASSUME NEW pool \in Pool, NEW energy \in Fraction, NEW rate \in Fraction
  PROVE  /\ Withdrawn(pool, energy, rate) \in Pool
         /\ Gives(pool, energy) \in [1..Len(pool.lots) -> Fraction]
         /\ Found(pool, energy) \in Fraction
         /\ FoundWorth(pool, energy) \in Fraction
         /\ Fallback(pool, rate) \in Fraction
         /\ Withdrawn(pool, energy, rate).price = pool.price
         /\ Withdrawn(pool, energy, rate).kwh = Minus(pool.kwh, energy)
         /\ Withdrawn(pool, energy, rate).lots
              = Without(pool.lots, Gives(pool, energy))
         /\ Withdrawn(pool, energy, rate).cost
              = Plus(Times(Lesser(energy, pool.kwh), pool.price),
                     Times(Minus(energy, pool.kwh), Fallback(pool, rate)))
         /\ Withdrawn(pool, energy, rate).lifo
              = Plus(FoundWorth(pool, energy),
                     Times(Minus(energy, Found(pool, energy)), Fallback(pool, rate)))
<1>. DEFINE n == Len(pool.lots)
            kwh == Minus(pool.kwh, energy)
            lots == Without(pool.lots, Gives(pool, energy))
            cost == Plus(Times(Lesser(energy, pool.kwh), pool.price),
                         Times(Minus(energy, pool.kwh), Fallback(pool, rate)))
            lifo == Plus(FoundWorth(pool, energy),
                         Times(Minus(energy, Found(pool, energy)), Fallback(pool, rate)))
<1>0. /\ pool.kwh \in Fraction /\ pool.price \in Fraction /\ pool.lots \in Seq(Lot)
      /\ n \in Nat /\ DOMAIN pool.lots = 1..n
  BY LotsAre DEF Pool
<1>1. Gives(pool, energy) \in [1..n -> Fraction]
  BY <1>0, TakenIs DEF Gives
<1>2. DOMAIN Gives(pool, energy) = 1..n /\ DOMAIN Worth(pool, energy) = 1..n
  BY <1>1 DEF Worth
<1>3. Withdrawn(pool, energy, rate)
        = [pool EXCEPT !.kwh = kwh, !.lots = lots, !.cost = cost, !.lifo = lifo]
  BY <1>2 DEF Withdrawn, Gives, Worth, Found, FoundWorth, Fallback
<1>4. \A i \in 1..n : Gives(pool, energy)[i] \in Fraction
                      /\ Worth(pool, energy)[i] \in Fraction
  BY <1>0, <1>1, LotsAre, TimesType DEF Worth
<1>5. Found(pool, energy) \in Fraction /\ FoundWorth(pool, energy) \in Fraction
  <2>1. IsFiniteSet(1..n)
    BY <1>0, FS_Interval
  <2>. QED BY <1>4, <2>1, TotalType DEF Found, FoundWorth
<1>6. Fallback(pool, rate) \in Fraction
  BY <1>0 DEF Fallback
<1>7. kwh \in Fraction
  BY <1>0, MinusIs
<1>8. lots \in Seq(Lot)
  BY <1>0, <1>1, WithoutType
<1>9. cost \in Fraction
  BY <1>0, <1>6, LesserIs, MinusIs, TimesType, PlusType
<1>10. lifo \in Fraction
  BY <1>5, <1>6, MinusIs, TimesType, PlusType
<1>. HIDE DEF kwh, lots, cost, lifo
<1>11. Withdrawn(pool, energy, rate) \in Pool
  BY <1>3, <1>7, <1>8, <1>9, <1>10 DEF Pool
<1>12. /\ Withdrawn(pool, energy, rate).price = pool.price
       /\ Withdrawn(pool, energy, rate).kwh = kwh
       /\ Withdrawn(pool, energy, rate).lots = lots
       /\ Withdrawn(pool, energy, rate).cost = cost
       /\ Withdrawn(pool, energy, rate).lifo = lifo
  BY <1>3 DEF Pool
<1>. QED BY <1>1, <1>5, <1>6, <1>11, <1>12 DEF kwh, lots, cost, lifo
-----------------------------------------------------------------------------
(***************************************************************************)
(* The pool at each instant, and the types of what the replay writes.      *)
(***************************************************************************)
Known == {NoFigure} \cup Fraction
Row == [kind : {"trip"}, source : Sources, used : Socs, energy : Known,
        cost : Known, lifo : Known,
        energyLocked : BOOLEAN, costLocked : BOOLEAN]
ChargeTables == [Instants -> Charge \cup {Absent}]
TripTables == [Instants -> Row \cup {Absent}]

PoolStep(p, c, r, cap, rate) ==
  LET full == IF c = Absent THEN p ELSE Charged(p, c, cap)
  IN IF HasEnergy(r) THEN Withdrawn(full, r.energy, rate) ELSE full

\* f is the pool at each instant.
Pools(ch, tr, cap, rate, f) ==
  /\ f \in [0..MaxTime -> Pool] /\ f[0] = EmptyPool
  /\ \A t \in 1..MaxTime : f[t] = PoolStep(f[t - 1], ch[t], tr[t], cap, rate)

LEMMA RowIs ==
  ASSUME NEW r \in Row \cup {Absent}
  PROVE  /\ r # Absent => r \in Row
         /\ r # Absent <=> r \in Row
         /\ HasEnergy(r) => r \in Row /\ r.energy \in Fraction
<1>1. r \in Row => r.kind = "trip"
  BY DEF Row
<1>2. r \in Row <=> r # Absent
  BY <1>1 DEF Absent
<1>3. HasEnergy(r) => r \in Row /\ r.energy \in Fraction
  BY <1>2 DEF HasEnergy, Row, Known
<1>. QED BY <1>2, <1>3

LEMMA PoolStepType ==
  ASSUME NEW p \in Pool, NEW c \in Charge \cup {Absent}, NEW r \in Row \cup {Absent},
         NEW cap \in Positive, NEW rate \in Fraction
  PROVE  PoolStep(p, c, r, cap, rate) \in Pool
<1>. DEFINE full == IF c = Absent THEN p ELSE Charged(p, c, cap)
<1>1. full \in Pool
  BY ChargedIs
<1>2. HasEnergy(r) => r.energy \in Fraction
  BY RowIs
<1>. HIDE DEF full
<1>3. HasEnergy(r) => Withdrawn(full, r.energy, rate) \in Pool
  BY <1>1, <1>2, WithdrawnIs
<1>. QED BY <1>1, <1>3 DEF PoolStep, full

LEMMA EmptyPoolType == EmptyPool \in Pool
<1>1. <<>> \in Seq(Lot)
  OBVIOUS
<1>. QED BY <1>1, ZeroIs DEF EmptyPool, Pool

LEMMA PoolAtIs ==
  ASSUME NEW ch \in ChargeTables, NEW tr \in TripTables, NEW cap \in Positive,
         NEW rate \in Fraction
  PROVE  Pools(ch, tr, cap, rate, PoolAt(ch, tr, cap, rate))
<1>. DEFINE n == MaxTime
            step == [i \in 1..n |->
                       [p \in Pool |-> PoolStep(p, ch[i], tr[i], cap, rate)]]
<1>0. n \in Nat /\ 1..n = Instants
  BY ConstantsAssumption DEF Instants
<1>1. \A i \in 1..n : ch[i] \in Charge \cup {Absent} /\ tr[i] \in Row \cup {Absent}
  BY <1>0 DEF ChargeTables, TripTables
<1>2. \A i \in 1..n : step[i] \in [Pool -> Pool]
  BY <1>1, PoolStepType
<1>3. PICK f \in [0..n -> Pool] :
        f[0] = EmptyPool /\ \A i \in 1..n : f[i] = step[i][f[i - 1]]
  <2>. HIDE DEF step, n
  <2>1. Steps(n, Pool, EmptyPool, step)
    BY <1>0, <1>2, EmptyPoolType DEF Steps
  <2>2. PICK f : Follows(f, n, Pool, EmptyPool, step)
    BY <2>1, Recursion
  <2>. QED BY <2>2 DEF Follows
<1>4. \A i \in 1..n : f[i] = PoolStep(f[i - 1], ch[i], tr[i], cap, rate)
  <2>1. \A i \in 1..n : i - 1 \in 0..n
    BY <1>0
  <2>. QED BY <1>3, <2>1
<1>. DEFINE Is(g) == g = [i \in 0..n |->
                            IF i = 0 THEN EmptyPool
                            ELSE PoolStep(g[i - 1], ch[i], tr[i], cap, rate)]
<1>5. Is(f)
  <2>1. \A i \in 0..n : i # 0 => i \in 1..n
    BY <1>0
  <2>. QED BY <1>3, <1>4, <2>1
<1>6. PICK g : g = CHOOSE h : Is(h)
  OBVIOUS
<1>7. Is(g)
  BY <1>5, <1>6
<1>8. PoolAt(ch, tr, cap, rate) = g
  BY <1>6 DEF PoolAt, PoolStep, Due
<1>9. \A i \in 0..n : g[i] = IF i = 0 THEN EmptyPool
                             ELSE PoolStep(g[i - 1], ch[i], tr[i], cap, rate)
  BY <1>7
<1>10. \A i \in 0..n : g[i] = f[i]
  <2>. DEFINE Q == {i \in 0..n : g[i] = f[i]}
  <2>1. 0 \in Q
    BY <1>0, <1>3, <1>9
  <2>2. ASSUME NEW i \in 1..n, i - 1 \in Q PROVE i \in Q
    <3>1. i \in 0..n /\ i # 0
      BY <1>0
    <3>2. g[i] = PoolStep(g[i - 1], ch[i], tr[i], cap, rate)
      BY <1>9, <3>1
    <3>. QED BY <1>4, <2>2, <3>1, <3>2
  <2>. HIDE DEF Q
  <2>3. \A i \in 0..n : i \in Q
    <3>1. PICK m \in Nat : m = n
      BY <1>0
    <3>2. \A i \in 1..m : i - 1 \in Q => i \in Q
      BY <2>2, <3>1
    <3>3. \A i \in 0..m : i \in Q
      BY <2>1, <3>2, Climb
    <3>. QED BY <3>1, <3>3
  <2>. QED BY <2>3 DEF Q
<1>11. g = f
  <2>1. g = [i \in 0..n |-> g[i]]
    BY <1>7
  <2>. HIDE DEF Is, n
  <2>. QED BY <1>10, <2>1
<1>. QED BY <1>3, <1>4, <1>8, <1>11 DEF Pools

LEMMA PoolFigures ==
  ASSUME NEW ch \in ChargeTables, NEW tr \in TripTables, NEW cap \in Positive,
         NEW rate \in Fraction, NEW t \in Instants
  PROVE  /\ PoolAt(ch, tr, cap, rate)[t] \in Pool
         /\ PoolAt(ch, tr, cap, rate)[t].cost \in Fraction
         /\ PoolAt(ch, tr, cap, rate)[t].lifo \in Fraction
<1>1. t \in 0..MaxTime
  BY ConstantsAssumption DEF Instants
<1>2. PICK f : f = PoolAt(ch, tr, cap, rate) /\ Pools(ch, tr, cap, rate, f)
  BY PoolAtIs
<1>3. f[t] \in Pool
  BY <1>1, <1>2 DEF Pools
<1>. QED BY <1>2, <1>3 DEF Pool

\* What becomes of a row in the steps of the replay.
Unpoison(r) ==
  IF Poisoned(r) THEN [r EXCEPT !.energy = NoFigure, !.source = "estimated"] ELSE r
KnownIn(tr) == {t \in Instants : HasEnergy(tr[t])}
Average(tr) ==
  Over(Total([t \in KnownIn(tr) |-> tr[t].energy], KnownIn(tr)),
       <<Cardinality(KnownIn(tr)), 1>>)
Fill(r, tr) ==
  IF KnownIn(tr) # {} /\ Fillable(r)
  THEN [r EXCEPT !.energy = Average(tr), !.source = "estimated"] ELSE r

LEMMA UnpoisonedIs ==
  ASSUME NEW tr \in TripTables
  PROVE  /\ Unpoisoned(tr) \in TripTables
         /\ \A t \in Instants : Unpoisoned(tr)[t] = Unpoison(tr[t])
<1>1. Unpoisoned(tr) = [t \in Instants |-> Unpoison(tr[t])]
  BY DEF Unpoisoned, Unpoison
<1>2. ASSUME NEW r \in Row \cup {Absent} PROVE Unpoison(r) \in Row \cup {Absent}
  <2>1. Poisoned(r) => r \in Row
    BY RowIs DEF Poisoned
  <2>. QED BY <2>1 DEF Unpoison, Row, Known, Sources
<1>. QED BY <1>1, <1>2 DEF TripTables

LEMMA AverageType ==
  ASSUME NEW tr \in TripTables, KnownIn(tr) # {}
  PROVE  Average(tr) \in Fraction
<1>. DEFINE S == KnownIn(tr)
            w == [t \in S |-> tr[t].energy]
<1>1. IsFiniteSet(Instants)
  BY ConstantsAssumption, FS_Interval DEF Instants
<1>2. IsFiniteSet(S)
  BY <1>1, FS_Subset DEF KnownIn
<1>3. \A t \in S : w[t] \in Fraction
  BY RowIs DEF KnownIn, TripTables
<1>4. Cardinality(S) \in Positive
  BY <1>2, FS_CardinalityType, FS_EmptySet DEF Positive
<1>5. Total(w, S) \in Fraction
  <2>. HIDE DEF S, w
  <2>. QED BY <1>2, <1>3, TotalType
<1>6. <<Cardinality(S), 1>> \in Fraction /\ <<Cardinality(S), 1>> # Zero
  BY <1>4, WholeIs, ZeroIs DEF Positive
<1>. HIDE DEF S, w
<1>7. Over(Total(w, S), <<Cardinality(S), 1>>) \in Fraction
  BY <1>5, <1>6, OverIs
<1>. QED BY <1>7 DEF Average, S, w

LEMMA FilledInIs ==
  ASSUME NEW tr \in TripTables
  PROVE  /\ FilledIn(tr) \in TripTables
         /\ \A t \in Instants : FilledIn(tr)[t] = Fill(tr[t], tr)
<1>1. FilledIn(tr) = [t \in Instants |-> Fill(tr[t], tr)]
  BY DEF FilledIn, Fill, Average, KnownIn
<1>2. ASSUME NEW r \in Row \cup {Absent} PROVE Fill(r, tr) \in Row \cup {Absent}
  <2>1. Fillable(r) => r \in Row
    BY RowIs DEF Fillable
  <2>2. KnownIn(tr) # {} => Average(tr) \in Known
    BY AverageType DEF Known
  <2>3. CASE KnownIn(tr) # {} /\ Fillable(r)
    BY <2>1, <2>2, <2>3 DEF Fill, Row, Sources
  <2>. QED BY <2>3 DEF Fill
<1>. QED BY <1>1, <1>2 DEF TripTables

Ready(tr) == FilledIn(Unpoisoned(tr))

LEMMA ReplayedIs ==
  ASSUME NEW ch \in ChargeTables, NEW tr \in TripTables, NEW cap \in Positive,
         NEW rate \in Positive
  PROVE  /\ Ready(tr) \in TripTables
         /\ <<rate, 1>> \in Fraction
         /\ Replayed(ch, tr, cap, rate) \in TripTables
         /\ \A t \in Instants :
              Replayed(ch, tr, cap, rate)[t]
                = IF HasEnergy(Ready(tr)[t])
                  THEN Written(Ready(tr)[t], PoolAt(ch, Ready(tr), cap, <<rate, 1>>)[t])
                  ELSE Ready(tr)[t]
<1>. DEFINE ready == Ready(tr)
            pool == PoolAt(ch, ready, cap, <<rate, 1>>)
<1>1. ready \in TripTables
  BY UnpoisonedIs, FilledInIs DEF Ready
<1>2. <<rate, 1>> \in Fraction
  BY WholeIs DEF Positive
<1>3. \A t \in Instants : pool[t].cost \in Known /\ pool[t].lifo \in Known
  <2>. HIDE DEF ready
  <2>. QED BY <1>1, <1>2, PoolFigures DEF Known
<1>4. Replayed(ch, tr, cap, rate)
        = [t \in Instants |-> IF HasEnergy(ready[t]) THEN Written(ready[t], pool[t])
                              ELSE ready[t]]
  BY DEF Replayed, Ready
<1>5. ASSUME NEW t \in Instants, HasEnergy(ready[t])
      PROVE  Written(ready[t], pool[t]) \in Row
  <2>1. PICK r \in Row : r = ready[t]
    BY <1>1, <1>5, RowIs DEF TripTables
  <2>2. PICK p : p = pool[t] /\ p.cost \in Known /\ p.lifo \in Known
    BY <1>3
  <2>3. Written(r, p) \in Row
    BY <2>2 DEF Written, Row
  <2>. QED BY <2>1, <2>2, <2>3
<1>6. \A t \in Instants : ready[t] \in Row \cup {Absent}
  BY <1>1 DEF TripTables
<1>. HIDE DEF ready, pool
<1>7. Replayed(ch, tr, cap, rate) \in TripTables
  BY <1>4, <1>5, <1>6 DEF TripTables
<1>. QED BY <1>1, <1>2, <1>4, <1>7 DEF ready, pool
-----------------------------------------------------------------------------
(* Types.                                                                  *)
Typed ==
  /\ charges \in ChargeTables /\ trips \in TripTables
  /\ hint \in Positive /\ tariff \in Positive
  /\ hint \in Capacities \cup {Declared} /\ tariff \in Tariffs \cup {HomePrice}
  /\ heals \subseteq Capacities \cup {Declared}
  /\ settled \in BOOLEAN /\ changes \in 0..MaxChanges
  /\ calibrations \in 0..MaxCalibrations

LEMMA TypedInit == Init => Typed
BY ConstantsAssumption
   DEF Init, Typed, ChargeTables, TripTables, Positive

\* A replay keeps the types, of whatever tables it reads.
LEMMA ReplaysTyped ==
  ASSUME Typed, NEW ch \in ChargeTables, NEW tr \in TripTables, Replays(ch, tr)
  PROVE  /\ charges' \in ChargeTables /\ trips' \in TripTables
         /\ hint' = hint /\ tariff' = tariff /\ settled' = TRUE
<1>1. hint \in Positive /\ tariff \in Positive
  BY DEF Typed
<1>2. Replayed(ch, tr, hint, tariff) \in TripTables
  BY <1>1, ReplayedIs
<1>. QED BY <1>2 DEF Replays

LEMMA ChangesTyped ==
  ASSUME Typed, Changes
  PROVE  /\ changes' \in 0..MaxChanges
         /\ heals' = heals /\ calibrations' = calibrations
BY ConstantsAssumption DEF Typed, Changes, calibrating

LEMMA StoredType ==
  ASSUME Typed
  PROVE  Stored \subseteq Row
<1>1. ASSUME NEW source \in Sources, NEW used \in Socs, NEW energy \in Known
      PROVE  TripRow(source, used, energy) \in Row
  BY <1>1 DEF TripRow, Row, Known
<1>2. 0 \in Socs /\ 1 \in Socs
  BY ConstantsAssumption DEF Socs
<1>3. NoFigure \in Known
  BY DEF Known
<1>4. Content(1, hint) \in Known
  BY <1>2, ContentType DEF Typed, Known
<1>5. \A e \in Kwh : <<e, 1>> \in Known
  BY ConstantsAssumption, WholeIs DEF Known
<1>6. {"soc", "power_integration", "orphan_odo_only"} \subseteq Sources
  BY DEF Sources
<1>. QED BY <1>1, <1>2, <1>3, <1>4, <1>5, <1>6 DEF Stored

LEMMA RescaledIs ==
  ASSUME NEW tr \in TripTables, NEW cap \in Positive
  PROVE  /\ Rescaled(tr, cap) \in TripTables
         /\ \A t \in Instants :
              Rescaled(tr, cap)[t]
                = IF Rescalable(tr[t])
                  THEN [tr[t] EXCEPT !.energy = Content(tr[t].used, cap)] ELSE tr[t]
<1>1. ASSUME NEW t \in Instants, Rescalable(tr[t])
      PROVE  [tr[t] EXCEPT !.energy = Content(tr[t].used, cap)] \in Row
  <2>1. PICK r \in Row : r = tr[t]
    BY <1>1, RowIs DEF TripTables, Rescalable
  <2>2. r.used \in Socs
    BY DEF Row
  <2>3. Content(r.used, cap) \in Known
    BY <2>2, ContentType DEF Known
  <2>4. [r EXCEPT !.energy = Content(r.used, cap)] \in Row
    BY <2>3 DEF Row
  <2>. QED BY <2>1, <2>4
<1>. QED BY <1>1 DEF Rescaled, TripTables

LEMMA TypedNext == Typed /\ [Next]_vars => Typed'
<1>. SUFFICES ASSUME Typed, [Next]_vars PROVE Typed'
  OBVIOUS
<1>0. /\ charges \in ChargeTables /\ trips \in TripTables
      /\ hint \in Positive /\ tariff \in Positive
  BY DEF Typed
<1>1. CASE UNCHANGED vars
  BY <1>1 DEF Typed, vars, calibrating
<1>2. ASSUME NEW t \in Instants, NEW c \in Charge, LogCharge(t, c) PROVE Typed'
  <2>1. [charges EXCEPT ![t] = c] \in ChargeTables
    BY <1>0 DEF ChargeTables
  <2>. QED BY <1>0, <1>2, <2>1, ReplaysTyped DEF LogCharge, Typed, calibrating
<1>3. ASSUME NEW t \in Instants, NEW c \in Charge, EditCharge(t, c) PROVE Typed'
  <2>1. [charges EXCEPT ![t] = c] \in ChargeTables
    BY <1>0 DEF ChargeTables
  <2>2. changes' \in 0..MaxChanges /\ heals' = heals /\ calibrations' = calibrations
    BY <1>3, ChangesTyped DEF EditCharge
  <2>. QED BY <1>0, <1>3, <2>1, <2>2, ReplaysTyped DEF EditCharge, Typed
<1>4. ASSUME DeleteLastCharge PROVE Typed'
  <2>1. PICK t \in Held(charges) :
          Changes /\ Replays([charges EXCEPT ![t] = Absent], trips)
    BY <1>4 DEF DeleteLastCharge
  <2>2. [charges EXCEPT ![t] = Absent] \in ChargeTables
    BY <1>0 DEF ChargeTables, Held
  <2>3. changes' \in 0..MaxChanges /\ heals' = heals /\ calibrations' = calibrations
    BY <2>1, ChangesTyped
  <2>. QED BY <1>0, <2>1, <2>2, <2>3, ReplaysTyped DEF Typed
<1>5. ASSUME NEW t \in Instants, NEW r \in Stored, LogTrip(t, r) PROVE Typed'
  <2>1. [trips EXCEPT ![t] = r] \in TripTables
    BY <1>0, StoredType DEF TripTables
  <2>. QED BY <1>0, <1>5, <2>1, ReplaysTyped DEF LogTrip, Typed, calibrating
<1>6. ASSUME NEW t \in Instants, NEW e \in Kwh, SetTripEnergy(t, e) PROVE Typed'
  <2>1. [trips EXCEPT ![t].energy = <<e, 1>>, ![t].energyLocked = TRUE] \in TripTables
    <3>1. trips[t] \in Row
      BY <1>0, <1>6, RowIs DEF SetTripEnergy, TripTables
    <3>2. <<e, 1>> \in Known
      BY ConstantsAssumption, WholeIs DEF Known
    <3>. QED BY <1>0, <3>1, <3>2 DEF TripTables, Row
  <2>2. changes' \in 0..MaxChanges /\ heals' = heals /\ calibrations' = calibrations
    BY <1>6, ChangesTyped DEF SetTripEnergy
  <2>. QED BY <1>0, <1>6, <2>1, <2>2, ReplaysTyped DEF SetTripEnergy, Typed
<1>7. ASSUME NEW t \in Instants, NEW paid \in Paid, SetTripCost(t, paid) PROVE Typed'
  <2>1. [trips EXCEPT ![t].cost = <<paid, 1>>, ![t].costLocked = TRUE] \in TripTables
    <3>1. trips[t] \in Row
      BY <1>0, <1>7, RowIs DEF SetTripCost, TripTables
    <3>2. <<paid, 1>> \in Known
      BY ConstantsAssumption, WholeIs DEF Known
    <3>. QED BY <1>0, <3>1, <3>2 DEF TripTables, Row
  <2>2. changes' \in 0..MaxChanges /\ heals' = heals /\ calibrations' = calibrations
    BY <1>7, ChangesTyped DEF SetTripCost
  <2>. QED BY <1>0, <1>7, <2>1, <2>2, ReplaysTyped DEF SetTripCost, Typed
<1>8. ASSUME NEW t \in Instants, DeleteTrip(t) PROVE Typed'
  <2>1. [trips EXCEPT ![t] = Absent] \in TripTables
    BY <1>0 DEF TripTables
  <2>2. changes' \in 0..MaxChanges /\ heals' = heals /\ calibrations' = calibrations
    BY <1>8, ChangesTyped DEF DeleteTrip
  <2>. QED BY <1>0, <1>8, <2>1, <2>2 DEF DeleteTrip, Typed
<1>9. ASSUME NEW cap \in Capacities \cup {Declared}, Calibrate(cap) \/ HealEnergies(cap)
      PROVE Typed'
  <2>1. cap \in Positive
    BY ConstantsAssumption DEF Positive
  <2>2. CASE Calibrate(cap)
    <3>1. calibrations' \in 0..MaxCalibrations
      BY <2>2, ConstantsAssumption DEF Calibrate, Typed
    <3>2. /\ hint' = cap /\ heals' = heals \cup {cap} /\ settled' = FALSE
          /\ UNCHANGED <<charges, trips, tariff, changes>>
      BY <2>2 DEF Calibrate
    <3>. QED BY <2>1, <3>1, <3>2 DEF Typed
  <2>3. CASE HealEnergies(cap)
    <3>1. PICK tr \in TripTables : tr = Rescaled(trips, cap)
      BY <1>0, <2>1, RescaledIs
    <3>2. CASE Replays(charges, tr)
      BY <1>0, <2>3, <3>1, <3>2, ReplaysTyped DEF HealEnergies, Typed
    <3>3. CASE UNCHANGED <<charges, trips, hint, tariff, settled>>
      BY <2>3, <3>3 DEF HealEnergies, Typed
    <3>. QED BY <2>3, <3>1, <3>2, <3>3 DEF HealEnergies
  <2>. QED BY <1>9, <2>2, <2>3
<1>10. ASSUME NEW rate \in Tariffs \cup {HomePrice}, MoveTariff(rate) PROVE Typed'
  <2>1. changes' \in 0..MaxChanges /\ heals' = heals /\ calibrations' = calibrations
    BY <1>10, ChangesTyped DEF MoveTariff
  <2>2. rate \in Positive
    BY ConstantsAssumption DEF Positive
  <2>. QED BY <1>10, <2>1, <2>2 DEF MoveTariff, Typed
<1>11. ASSUME StartupHeal PROVE Typed'
  BY <1>0, <1>11, ReplaysTyped DEF StartupHeal, Typed, calibrating
<1>. QED
  BY <1>1, <1>2, <1>3, <1>4, <1>5, <1>6, <1>7, <1>8, <1>9, <1>10, <1>11 DEF Next

LEMMA TypedOK == Typed => TypeOK
<1>1. Known \subseteq Figure
  BY FractionIs DEF Known, Figure
<1>2. Row \subseteq Trip
  BY <1>1 DEF Row, Trip
<1>. QED BY <1>2 DEF Typed, TypeOK, ChargeTables, TripTables

(***************************************************************************)
(* The rows, the capacity and the tariff keep their types, and every       *)
(* figure a replay writes is a fraction with a denominator: no average     *)
(* over no trip, no blend over an empty pool and no price of a charge      *)
(* without kWh is ever divided out.                                        *)
(***************************************************************************)
THEOREM Types == Spec => []TypeOK
<1>1. Spec => []Typed
  BY TypedInit, TypedNext, PTL DEF Spec
<1>. QED BY <1>1, TypedOK, PTL
-----------------------------------------------------------------------------
(***************************************************************************)
(* A replay of what was just replayed.  What the first one left is clean:  *)
(* no row is left to reset and none to fill, since a row that was filled   *)
(* has a figure and nothing is left to fill it from where none is known.   *)
(* The pools of the two are the same, since a pool only reads energies.    *)
(***************************************************************************)
Clean(tr) ==
  \A t \in Instants :
    ~Poisoned(tr[t]) /\ (KnownIn(tr) = {} \/ ~Fillable(tr[t]))

SameEnergy(r, q) ==
  /\ HasEnergy(r) <=> HasEnergy(q)
  /\ HasEnergy(r) => r.energy = q.energy

LEMMA UnpoisonKeeps ==
  ASSUME NEW r \in Row \cup {Absent}
  PROVE  /\ ~Poisoned(Unpoison(r))
         /\ r = Absent <=> Unpoison(r) = Absent
         /\ r # Absent =>
              /\ Unpoison(r).costLocked = r.costLocked /\ Unpoison(r).cost = r.cost
              /\ Unpoison(r).energyLocked = r.energyLocked
              /\ r.energyLocked => Unpoison(r).energy = r.energy
<1>1. CASE ~Poisoned(r)
  BY <1>1 DEF Unpoison
<1>2. CASE Poisoned(r)
  <2>1. r \in Row /\ r # Absent /\ ~r.energyLocked
    BY <1>2, RowIs DEF Poisoned, HasEnergy
  <2>2. PICK q : q = [r EXCEPT !.energy = NoFigure, !.source = "estimated"]
    OBVIOUS
  <2>3. /\ q.energy = NoFigure /\ q.costLocked = r.costLocked /\ q.cost = r.cost
        /\ q.energyLocked = r.energyLocked /\ q.kind = "trip"
    BY <2>1, <2>2 DEF Row
  <2>4. Unpoison(r) = q /\ q # Absent
    BY <1>2, <2>2, <2>3 DEF Unpoison, Absent
  <2>. QED BY <2>1, <2>3, <2>4 DEF Poisoned, HasEnergy
<1>. QED BY <1>1, <1>2

LEMMA FillKeeps ==
  ASSUME NEW tr \in TripTables, NEW r \in Row \cup {Absent}
  PROVE  /\ ~Poisoned(r) => ~Poisoned(Fill(r, tr))
         /\ KnownIn(tr) # {} => ~Fillable(Fill(r, tr))
         /\ KnownIn(tr) = {} => Fill(r, tr) = r
         /\ HasEnergy(r) => Fill(r, tr) = r
         /\ r = Absent <=> Fill(r, tr) = Absent
         /\ r # Absent =>
              /\ Fill(r, tr).costLocked = r.costLocked /\ Fill(r, tr).cost = r.cost
              /\ Fill(r, tr).energyLocked = r.energyLocked
              /\ r.energyLocked => Fill(r, tr).energy = r.energy
<1>1. CASE ~(KnownIn(tr) # {} /\ Fillable(r))
  BY <1>1 DEF Fill
<1>2. CASE KnownIn(tr) # {} /\ Fillable(r)
  <2>1. r \in Row /\ r # Absent /\ ~r.energyLocked /\ ~HasEnergy(r)
    BY <1>2, RowIs DEF Fillable, HasEnergy
  <2>2. PICK q : q = [r EXCEPT !.energy = Average(tr), !.source = "estimated"]
    OBVIOUS
  <2>3. /\ q.energy = Average(tr) /\ q.source = "estimated"
        /\ q.costLocked = r.costLocked /\ q.cost = r.cost
        /\ q.energyLocked = r.energyLocked /\ q.kind = "trip"
    BY <2>1, <2>2 DEF Row
  <2>4. Fill(r, tr) = q /\ q # Absent
    BY <1>2, <2>2, <2>3 DEF Fill, Absent
  <2>5. q.energy # NoFigure
    BY <1>2, <2>3, AverageType, FractionIs
  <2>6. ~Poisoned(q) /\ ~Fillable(q)
    BY <2>3, <2>5 DEF Poisoned, Fillable
  <2>. QED BY <1>2, <2>1, <2>3, <2>4, <2>6
<1>. QED BY <1>1, <1>2

LEMMA WrittenKeeps ==
  ASSUME NEW r \in Row, NEW p
  PROVE  /\ Written(r, p) # Absent /\ SameEnergy(Written(r, p), r)
         /\ Poisoned(Written(r, p)) <=> Poisoned(r)
         /\ Fillable(Written(r, p)) <=> Fillable(r)
         /\ Written(Written(r, p), p) = Written(r, p)
         /\ Written(r, p).energy = r.energy
         /\ r.costLocked => Written(r, p).cost = r.cost
         /\ ~r.costLocked => Written(r, p).cost = p.cost
         /\ Written(r, p).lifo = p.lifo
         /\ Written(r, p).costLocked = r.costLocked
<1>1. PICK q : q = Written(r, p)
  OBVIOUS
<1>2. q = [r EXCEPT !.cost = IF r.costLocked THEN r.cost ELSE p.cost, !.lifo = p.lifo]
  BY <1>1 DEF Written
<1>3. /\ q.kind = "trip" /\ q.source = r.source /\ q.energy = r.energy
      /\ q.energyLocked = r.energyLocked /\ q.costLocked = r.costLocked
      /\ q.cost = (IF r.costLocked THEN r.cost ELSE p.cost) /\ q.lifo = p.lifo
  BY <1>2 DEF Row
<1>4. r # Absent /\ q # Absent
  BY <1>3 DEF Absent, Row
<1>5. Written(q, p) = q
  BY <1>2, <1>3 DEF Written, Row
<1>. QED
  BY <1>1, <1>3, <1>4, <1>5 DEF SameEnergy, HasEnergy, Poisoned, Fillable

LEMMA ReadyClean ==
  ASSUME NEW tr \in TripTables
  PROVE  Clean(Ready(tr))
<1>. DEFINE un == Unpoisoned(tr)
<1>1. un \in TripTables /\ \A t \in Instants : ~Poisoned(un[t])
  BY UnpoisonedIs, UnpoisonKeeps DEF TripTables
<1>2. \A t \in Instants : Ready(tr)[t] = Fill(un[t], un) /\ un[t] \in Row \cup {Absent}
  BY <1>1, FilledInIs DEF Ready, TripTables
<1>. HIDE DEF un
<1>3. \A t \in Instants : ~Poisoned(Ready(tr)[t])
  BY <1>1, <1>2, FillKeeps
<1>4. CASE KnownIn(un) # {}
  <2>1. \A t \in Instants : ~Fillable(Ready(tr)[t])
    BY <1>1, <1>2, <1>4, FillKeeps
  <2>. QED BY <1>3, <2>1 DEF Clean
<1>5. CASE KnownIn(un) = {}
  <2>1. \A t \in Instants : Ready(tr)[t] = un[t]
    BY <1>1, <1>2, <1>5, FillKeeps
  <2>2. KnownIn(Ready(tr)) = {}
    BY <1>5, <2>1 DEF KnownIn
  <2>. QED BY <1>3, <2>2 DEF Clean
<1>. QED BY <1>4, <1>5

LEMMA CleanReady ==
  ASSUME NEW tr \in TripTables, Clean(tr)
  PROVE  Ready(tr) = tr
<1>1. \A t \in Instants : Unpoisoned(tr)[t] = tr[t]
  BY UnpoisonedIs DEF Clean, Unpoison
<1>2. Unpoisoned(tr) = tr
  <2>1. Unpoisoned(tr) \in TripTables
    BY UnpoisonedIs
  <2>. QED BY <1>1, <2>1 DEF TripTables
<1>3. \A t \in Instants : FilledIn(tr)[t] = tr[t]
  BY FilledInIs DEF Clean, Fill
<1>4. FilledIn(tr) = tr
  <2>1. FilledIn(tr) \in TripTables
    BY FilledInIs
  <2>. QED BY <1>3, <2>1 DEF TripTables
<1>. QED BY <1>2, <1>4 DEF Ready

\* The pool at n reads no row after n, and of a trip only its energy.
LEMMA PoolSame ==
  ASSUME NEW ch \in ChargeTables, NEW hc \in ChargeTables,
         NEW tr \in TripTables, NEW rt \in TripTables, NEW cap \in Positive,
         NEW rate \in Fraction, NEW n \in 0..MaxTime,
         \A s \in 1..n : ch[s] = hc[s] /\ SameEnergy(tr[s], rt[s])
  PROVE  PoolAt(ch, tr, cap, rate)[n] = PoolAt(hc, rt, cap, rate)[n]
<1>1. PICK f : f = PoolAt(ch, tr, cap, rate) /\ Pools(ch, tr, cap, rate, f)
  BY PoolAtIs
<1>2. PICK g : g = PoolAt(hc, rt, cap, rate) /\ Pools(hc, rt, cap, rate, g)
  BY PoolAtIs
<1>3. n \in Nat /\ MaxTime \in Nat /\ n <= MaxTime
  BY ConstantsAssumption
<1>. DEFINE Q == {s \in 0..n : f[s] = g[s]}
<1>4. 0 \in Q
  BY <1>1, <1>2, <1>3 DEF Pools
<1>5. ASSUME NEW s \in 1..n, s - 1 \in Q PROVE s \in Q
  <2>1. s \in 1..MaxTime
    BY <1>3
  <2>2. f[s] = PoolStep(f[s - 1], ch[s], tr[s], cap, rate)
    BY <1>1, <2>1 DEF Pools
  <2>3. g[s] = PoolStep(g[s - 1], hc[s], rt[s], cap, rate)
    BY <1>2, <2>1 DEF Pools
  <2>4. f[s - 1] = g[s - 1]
    BY <1>5
  <2>5. ch[s] = hc[s] /\ SameEnergy(tr[s], rt[s])
    OBVIOUS
  <2>6. PoolStep(f[s - 1], ch[s], tr[s], cap, rate)
          = PoolStep(f[s - 1], ch[s], rt[s], cap, rate)
    BY <2>5 DEF PoolStep, SameEnergy
  <2>. QED BY <1>3, <2>2, <2>3, <2>4, <2>5, <2>6
<1>6. n \in Q
  <2>. HIDE DEF Q
  <2>1. \A s \in 0..n : s \in Q
    BY <1>3, <1>4, <1>5, Climb
  <2>. QED BY <1>3, <2>1
<1>. QED BY <1>1, <1>2, <1>6

LEMMA ReplayedKeeps ==
  ASSUME NEW ch \in ChargeTables, NEW tr \in TripTables, NEW cap \in Positive,
         NEW rate \in Positive, NEW t \in Instants
  PROVE  /\ SameEnergy(Replayed(ch, tr, cap, rate)[t], Ready(tr)[t])
         /\ tr[t] = Absent <=> Replayed(ch, tr, cap, rate)[t] = Absent
         /\ tr[t] # Absent =>
              /\ tr[t].energyLocked =>
                   Replayed(ch, tr, cap, rate)[t].energy = tr[t].energy
              /\ tr[t].costLocked =>
                   Replayed(ch, tr, cap, rate)[t].cost = tr[t].cost
<1>. DEFINE un == Unpoisoned(tr)
            p == PoolAt(ch, Ready(tr), cap, <<rate, 1>>)[t]
<1>1. un \in TripTables /\ un[t] = Unpoison(tr[t])
  BY UnpoisonedIs
<1>2. /\ Ready(tr)[t] = Fill(un[t], un) /\ Ready(tr)[t] \in Row \cup {Absent}
      /\ un[t] \in Row \cup {Absent} /\ tr[t] \in Row \cup {Absent}
  BY <1>1, FilledInIs DEF Ready, TripTables
<1>3. PICK r \in Row \cup {Absent} : r = Ready(tr)[t]
  BY <1>2
<1>4. /\ tr[t] = Absent <=> r = Absent
      /\ tr[t] # Absent =>
           /\ r.costLocked = tr[t].costLocked /\ r.cost = tr[t].cost
           /\ tr[t].energyLocked => r.energy = tr[t].energy
  <2>1. /\ tr[t] = Absent <=> un[t] = Absent
        /\ tr[t] # Absent =>
             /\ un[t].costLocked = tr[t].costLocked /\ un[t].cost = tr[t].cost
             /\ un[t].energyLocked = tr[t].energyLocked
             /\ tr[t].energyLocked => un[t].energy = tr[t].energy
    BY <1>1, <1>2, UnpoisonKeeps
  <2>2. /\ un[t] = Absent <=> r = Absent
        /\ un[t] # Absent =>
             /\ r.costLocked = un[t].costLocked /\ r.cost = un[t].cost
             /\ un[t].energyLocked => r.energy = un[t].energy
    <3>. HIDE DEF un
    <3>. QED BY <1>1, <1>2, <1>3, FillKeeps
  <2>. QED BY <2>1, <2>2
<1>5. Replayed(ch, tr, cap, rate)[t] = IF HasEnergy(r) THEN Written(r, p) ELSE r
  BY <1>3, ReplayedIs
<1>. HIDE DEF un, p
<1>6. CASE HasEnergy(r)
  <2>1. r \in Row
    BY <1>6, RowIs
  <2>2. /\ Written(r, p) # Absent /\ SameEnergy(Written(r, p), r)
        /\ Written(r, p).energy = r.energy
        /\ r.costLocked => Written(r, p).cost = r.cost
    BY <2>1, WrittenKeeps
  <2>3. r # Absent
    BY <1>6 DEF HasEnergy
  <2>. QED BY <1>3, <1>4, <1>5, <1>6, <2>2, <2>3
<1>7. CASE ~HasEnergy(r)
  <2>1. SameEnergy(r, r)
    BY DEF SameEnergy
  <2>. QED BY <1>3, <1>4, <1>5, <1>7, <2>1
<1>. QED BY <1>6, <1>7

LEMMA ReplayedClean ==
  ASSUME NEW ch \in ChargeTables, NEW tr \in TripTables, NEW cap \in Positive,
         NEW rate \in Positive
  PROVE  Clean(Replayed(ch, tr, cap, rate))
<1>1. PICK once : once = Replayed(ch, tr, cap, rate)
  OBVIOUS
<1>2. Clean(Ready(tr)) /\ Ready(tr) \in TripTables
  BY ReadyClean, ReplayedIs
<1>3. ASSUME NEW t \in Instants
      PROVE  /\ Poisoned(once[t]) <=> Poisoned(Ready(tr)[t])
             /\ Fillable(once[t]) <=> Fillable(Ready(tr)[t])
             /\ HasEnergy(once[t]) <=> HasEnergy(Ready(tr)[t])
  <2>0. PICK r \in Row \cup {Absent} : r = Ready(tr)[t]
    BY <1>2 DEF TripTables
  <2>1. PICK p : once[t] = IF HasEnergy(r) THEN Written(r, p) ELSE r
    <3>1. PICK q : q = PoolAt(ch, Ready(tr), cap, <<rate, 1>>)[t]
      OBVIOUS
    <3>2. once[t] = IF HasEnergy(r) THEN Written(r, q) ELSE r
      BY <1>1, <2>0, <3>1, ReplayedIs
    <3>. QED BY <3>2
  <2>2. CASE HasEnergy(r)
    <3>1. r \in Row
      BY <2>2, RowIs
    <3>. QED BY <2>0, <2>1, <2>2, <3>1, WrittenKeeps DEF SameEnergy
  <2>. QED BY <2>0, <2>1, <2>2
<1>4. KnownIn(once) = KnownIn(Ready(tr))
  BY <1>3 DEF KnownIn
<1>5. Clean(once)
  BY <1>2, <1>3, <1>4 DEF Clean
<1>. QED BY <1>1, <1>5

LEMMA ReplayedTwice ==
  ASSUME NEW ch \in ChargeTables, NEW tr \in TripTables, NEW cap \in Positive,
         NEW rate \in Positive
  PROVE  Replayed(ch, Replayed(ch, tr, cap, rate), cap, rate)
           = Replayed(ch, tr, cap, rate)
<1>1. PICK once : once = Replayed(ch, tr, cap, rate)
  OBVIOUS
<1>2. PICK twice : twice = Replayed(ch, once, cap, rate)
  OBVIOUS
<1>3. PICK rt : rt = Ready(tr)
  OBVIOUS
<1>4. rt \in TripTables /\ once \in TripTables /\ <<rate, 1>> \in Fraction
  BY <1>1, <1>3, ReplayedIs
<1>5. Ready(once) = once
  BY <1>1, <1>4, ReplayedClean, CleanReady
<1>6. twice \in TripTables
  BY <1>2, <1>4, ReplayedIs
<1>7. ASSUME NEW t \in Instants PROVE twice[t] = once[t]
  <2>1. t \in 0..MaxTime /\ 1..t \subseteq Instants
    BY ConstantsAssumption DEF Instants
  <2>2. \A s \in 1..t : SameEnergy(once[s], rt[s])
    BY <1>1, <1>3, <2>1, ReplayedKeeps
  <2>3. PICK p : /\ p = PoolAt(ch, once, cap, <<rate, 1>>)[t]
                 /\ p = PoolAt(ch, rt, cap, <<rate, 1>>)[t]
    BY <1>4, <2>1, <2>2, PoolSame
  <2>4. once[t] = IF HasEnergy(rt[t]) THEN Written(rt[t], p) ELSE rt[t]
    BY <1>1, <1>3, <2>3, ReplayedIs
  <2>5. twice[t] = IF HasEnergy(once[t]) THEN Written(once[t], p) ELSE once[t]
    BY <1>2, <1>4, <1>5, <2>3, ReplayedIs
  <2>6. HasEnergy(once[t]) <=> HasEnergy(rt[t])
    BY <2>1, <2>2 DEF SameEnergy, Instants
  <2>7. rt[t] \in Row \cup {Absent}
    BY <1>4 DEF TripTables
  <2>8. CASE HasEnergy(rt[t])
    <3>1. rt[t] \in Row
      BY <2>7, <2>8, RowIs
    <3>. QED BY <2>4, <2>5, <2>6, <2>8, <3>1, WrittenKeeps
  <2>. QED BY <2>4, <2>5, <2>6, <2>8
<1>8. twice = once
  BY <1>4, <1>6, <1>7 DEF TripTables
<1>. QED BY <1>1, <1>2, <1>8

(***************************************************************************)
(* Replaying what was just replayed changes nothing, in any state: the     *)
(* startup heal may run over any table and after any other replay.         *)
(***************************************************************************)
THEOREM Idempotent == Spec => []ReplayIdempotent
<1>1. Typed => ReplayIdempotent
  BY ReplayedTwice DEF Typed, ReplayIdempotent
<1>2. Spec => []Typed
  BY TypedInit, TypedNext, PTL DEF Spec
<1>. QED BY <1>1, <1>2, PTL
-----------------------------------------------------------------------------
(***************************************************************************)
(* What is settled is a fixed point of the replay: while nothing but       *)
(* charges has changed, the stored trips are what a replay would write.    *)
(* That is the inductive invariant the last theorems rest on.              *)
(***************************************************************************)
FixedPoint == settled => Replayed(charges, trips, hint, tariff) = trips

LEMMA FixedPointInit == Init => FixedPoint
<1>. SUFFICES ASSUME Init PROVE Replayed(charges, trips, hint, tariff) = trips
  BY DEF FixedPoint
<1>1. Typed
  BY TypedInit
<1>2. \A t \in Instants : trips[t] = Absent /\ ~HasEnergy(trips[t])
  BY DEF Init, HasEnergy
<1>3. Clean(trips)
  BY <1>2 DEF Clean, KnownIn, Poisoned
<1>4. Ready(trips) = trips
  BY <1>1, <1>3, CleanReady DEF Typed
<1>5. PICK once : once = Replayed(charges, trips, hint, tariff)
  OBVIOUS
<1>6. once \in TripTables /\ \A t \in Instants : once[t] = trips[t]
  <2>1. PICK rt : rt = Ready(trips)
    OBVIOUS
  <2>2. /\ once \in TripTables
        /\ \A t \in Instants :
             once[t] = IF HasEnergy(rt[t])
                       THEN Written(rt[t], PoolAt(charges, rt, hint, <<tariff, 1>>)[t])
                       ELSE rt[t]
    BY <1>1, <1>5, <2>1, ReplayedIs DEF Typed
  <2>. QED BY <1>2, <1>4, <2>1, <2>2
<1>. QED BY <1>1, <1>5, <1>6 DEF Typed, TripTables

LEMMA ReplaysFixes ==
  ASSUME Typed, NEW ch \in ChargeTables, NEW tr \in TripTables, Replays(ch, tr)
  PROVE  FixedPoint'
<1>1. Replayed(ch, Replayed(ch, tr, hint, tariff), hint, tariff)
        = Replayed(ch, tr, hint, tariff)
  BY ReplayedTwice DEF Typed
<1>. QED BY <1>1 DEF Replays, FixedPoint

\* A step of the next-state relation replays, unsettles or keeps what the replay
\* reads.
LEMMA StepKinds ==
  ASSUME Typed, [Next]_vars
  PROVE  \/ \E ch \in ChargeTables, tr \in TripTables : Replays(ch, tr)
         \/ settled' = FALSE
         \/ UNCHANGED <<charges, trips, hint, tariff, settled>>
<1>0. /\ charges \in ChargeTables /\ trips \in TripTables
  BY DEF Typed
<1>1. ASSUME NEW t \in Instants, NEW c \in Charge, LogCharge(t, c) \/ EditCharge(t, c)
      PROVE  \E ch \in ChargeTables, tr \in TripTables : Replays(ch, tr)
  <2>1. [charges EXCEPT ![t] = c] \in ChargeTables
    BY <1>0 DEF ChargeTables
  <2>2. Replays([charges EXCEPT ![t] = c], trips)
    BY <1>1 DEF LogCharge, EditCharge
  <2>. QED BY <1>0, <2>1, <2>2
<1>2. ASSUME DeleteLastCharge
      PROVE  \E ch \in ChargeTables, tr \in TripTables : Replays(ch, tr)
  <2>1. PICK t \in Held(charges) : Replays([charges EXCEPT ![t] = Absent], trips)
    BY <1>2 DEF DeleteLastCharge
  <2>2. [charges EXCEPT ![t] = Absent] \in ChargeTables
    BY <1>0 DEF ChargeTables
  <2>. QED BY <1>0, <2>1, <2>2
<1>3. ASSUME NEW t \in Instants, NEW r \in Stored, LogTrip(t, r)
      PROVE  \/ \E ch \in ChargeTables, tr \in TripTables : Replays(ch, tr)
             \/ settled' = FALSE
  <2>1. [trips EXCEPT ![t] = r] \in TripTables
    BY <1>0, StoredType DEF TripTables
  <2>2. Replays(charges, [trips EXCEPT ![t] = r]) \/ settled' = FALSE
    BY <1>3 DEF LogTrip
  <2>. QED BY <1>0, <2>1, <2>2
<1>4. ASSUME NEW t \in Instants, NEW e \in Kwh, SetTripEnergy(t, e)
      PROVE  \E ch \in ChargeTables, tr \in TripTables : Replays(ch, tr)
  <2>. DEFINE tr == [trips EXCEPT ![t].energy = <<e, 1>>, ![t].energyLocked = TRUE]
  <2>1. tr \in TripTables
    <3>1. trips[t] \in Row
      BY <1>0, <1>4, RowIs DEF SetTripEnergy, TripTables
    <3>2. <<e, 1>> \in Known
      BY ConstantsAssumption, WholeIs DEF Known
    <3>. QED BY <1>0, <3>1, <3>2 DEF TripTables, Row
  <2>2. Replays(charges, tr)
    BY <1>4 DEF SetTripEnergy
  <2>. HIDE DEF tr
  <2>. QED BY <1>0, <2>1, <2>2
<1>5. ASSUME NEW t \in Instants, NEW paid \in Paid, SetTripCost(t, paid)
      PROVE  \E ch \in ChargeTables, tr \in TripTables : Replays(ch, tr)
  <2>. DEFINE tr == [trips EXCEPT ![t].cost = <<paid, 1>>, ![t].costLocked = TRUE]
  <2>1. tr \in TripTables
    <3>1. trips[t] \in Row
      BY <1>0, <1>5, RowIs DEF SetTripCost, TripTables
    <3>2. <<paid, 1>> \in Known
      BY ConstantsAssumption, WholeIs DEF Known
    <3>. QED BY <1>0, <3>1, <3>2 DEF TripTables, Row
  <2>2. Replays(charges, tr)
    BY <1>5 DEF SetTripCost
  <2>. HIDE DEF tr
  <2>. QED BY <1>0, <2>1, <2>2
<1>6. ASSUME NEW t \in Instants, DeleteTrip(t) PROVE settled' = FALSE
  BY <1>6 DEF DeleteTrip
<1>7. ASSUME NEW cap \in Capacities \cup {Declared}, Calibrate(cap) \/ HealEnergies(cap)
      PROVE  \/ \E ch \in ChargeTables, tr \in TripTables : Replays(ch, tr)
             \/ settled' = FALSE
             \/ UNCHANGED <<charges, trips, hint, tariff, settled>>
  <2>1. cap \in Positive
    BY ConstantsAssumption DEF Positive
  <2>2. PICK tr \in TripTables : tr = Rescaled(trips, cap)
    BY <1>0, <2>1, RescaledIs
  <2>. QED BY <1>0, <1>7, <2>2 DEF Calibrate, HealEnergies
<1>8. ASSUME NEW rate \in Tariffs \cup {HomePrice}, MoveTariff(rate)
      PROVE  settled' = FALSE
  BY <1>8 DEF MoveTariff
<1>9. ASSUME StartupHeal
      PROVE  \E ch \in ChargeTables, tr \in TripTables : Replays(ch, tr)
  BY <1>0, <1>9 DEF StartupHeal
<1>. QED
  BY <1>1, <1>2, <1>3, <1>4, <1>5, <1>6, <1>7, <1>8, <1>9 DEF Next, vars

LEMMA FixedPointNext == Typed /\ FixedPoint /\ [Next]_vars => FixedPoint'
<1>. SUFFICES ASSUME Typed, FixedPoint, [Next]_vars PROVE FixedPoint'
  OBVIOUS
<1>1. ASSUME NEW ch \in ChargeTables, NEW tr \in TripTables, Replays(ch, tr)
      PROVE  FixedPoint'
  BY <1>1, ReplaysFixes
<1>2. CASE settled' = FALSE
  BY <1>2 DEF FixedPoint
<1>3. CASE UNCHANGED <<charges, trips, hint, tariff, settled>>
  BY <1>3 DEF FixedPoint
<1>. QED BY <1>1, <1>2, <1>3, StepKinds

PastStep ==
  \A s \in Instants :
    (settled /\ charges'[s] # charges[s]) =>
      \A t \in 1..(s - 1) : trips'[t] = trips[t]

\* A replay with another charge at s does not reach the trips before s.
LEMMA ReplayFromThere ==
  ASSUME Typed, FixedPoint, settled, NEW s \in Instants, NEW hc \in ChargeTables,
         \A t \in Instants \ {s} : hc[t] = charges[t],
         Replays(hc, trips), NEW t \in 1..(s - 1)
  PROVE  trips'[t] = trips[t]
<1>0. /\ charges \in ChargeTables /\ trips \in TripTables /\ hint \in Positive
      /\ tariff \in Positive /\ <<tariff, 1>> \in Fraction
      /\ trips' = Replayed(hc, trips, hint, tariff)
      /\ trips = Replayed(charges, trips, hint, tariff)
  BY ReplayedIs DEF Typed, FixedPoint, Replays
<1>1. Clean(trips)
  BY <1>0, ReplayedClean
<1>2. Ready(trips) = trips
  BY <1>0, <1>1, CleanReady
<1>3. /\ t \in Instants /\ t \in 0..MaxTime
      /\ \A i \in 1..t : i \in Instants /\ i # s
  BY ConstantsAssumption DEF Instants
<1>4. \A i \in 1..t : charges[i] = hc[i] /\ SameEnergy(trips[i], trips[i])
  BY <1>3 DEF SameEnergy
<1>5. PICK p : /\ p = PoolAt(charges, trips, hint, <<tariff, 1>>)[t]
               /\ p = PoolAt(hc, trips, hint, <<tariff, 1>>)[t]
  BY <1>0, <1>3, <1>4, PoolSame
<1>6. Replayed(charges, trips, hint, tariff)[t]
        = IF HasEnergy(trips[t]) THEN Written(trips[t], p) ELSE trips[t]
  BY <1>0, <1>2, <1>3, <1>5, ReplayedIs
<1>7. Replayed(hc, trips, hint, tariff)[t]
        = IF HasEnergy(trips[t]) THEN Written(trips[t], p) ELSE trips[t]
  BY <1>0, <1>2, <1>3, <1>5, ReplayedIs
<1>. QED BY <1>0, <1>6, <1>7

LEMMA PastStepNext == Typed /\ FixedPoint /\ [Next]_vars => PastStep
<1>. SUFFICES ASSUME Typed, FixedPoint, [Next]_vars, settled,
                     NEW s \in Instants, charges'[s] # charges[s],
                     NEW t \in 1..(s - 1)
              PROVE  trips'[t] = trips[t]
  BY DEF PastStep
<1>0. charges \in ChargeTables
  BY DEF Typed
<1>1. ASSUME NEW i \in Instants, NEW c \in Charge \cup {Absent},
             Replays([charges EXCEPT ![i] = c], trips)
      PROVE  trips'[t] = trips[t]
  <2>1. PICK hc : hc = [charges EXCEPT ![i] = c]
    OBVIOUS
  <2>2. /\ hc \in ChargeTables /\ charges' = hc
        /\ \A j \in Instants \ {i} : hc[j] = charges[j]
    BY <1>0, <1>1, <2>1 DEF ChargeTables, Replays
  <2>3. i = s
    BY <2>2
  <2>. QED BY <1>1, <2>1, <2>2, <2>3, ReplayFromThere
<1>2. \/ \E i \in Instants, c \in Charge \cup {Absent} :
            Replays([charges EXCEPT ![i] = c], trips)
      \/ charges' = charges
  <2>1. ASSUME NEW i \in Instants, NEW c \in Charge, LogCharge(i, c) \/ EditCharge(i, c)
        PROVE  \E j \in Instants, d \in Charge \cup {Absent} :
                 Replays([charges EXCEPT ![j] = d], trips)
    BY <2>1 DEF LogCharge, EditCharge
  <2>2. ASSUME DeleteLastCharge
        PROVE  \E j \in Instants, d \in Charge \cup {Absent} :
                 Replays([charges EXCEPT ![j] = d], trips)
    BY <2>2 DEF DeleteLastCharge, Held
  <2>3. ASSUME NEW i \in Instants, NEW r \in Stored, LogTrip(i, r)
        PROVE  charges' = charges
    BY <2>3 DEF LogTrip, Replays
  <2>4. ASSUME NEW i \in Instants, NEW e \in Kwh, SetTripEnergy(i, e)
        PROVE  charges' = charges
    BY <2>4 DEF SetTripEnergy, Replays
  <2>5. ASSUME NEW i \in Instants, NEW paid \in Paid, SetTripCost(i, paid)
        PROVE  charges' = charges
    BY <2>5 DEF SetTripCost, Replays
  <2>6. ASSUME NEW i \in Instants, DeleteTrip(i) PROVE charges' = charges
    BY <2>6 DEF DeleteTrip
  <2>7. ASSUME NEW cap \in Capacities \cup {Declared}, Calibrate(cap) \/ HealEnergies(cap)
        PROVE  charges' = charges
    BY <2>7 DEF Calibrate, HealEnergies, Replays
  <2>8. ASSUME NEW rate \in Tariffs \cup {HomePrice}, MoveTariff(rate)
        PROVE  charges' = charges
    BY <2>8 DEF MoveTariff
  <2>9. ASSUME StartupHeal PROVE charges' = charges
    BY <2>9 DEF StartupHeal, Replays
  <2>10. ASSUME UNCHANGED vars PROVE charges' = charges
    BY <2>10 DEF vars
  <2>. QED
    BY <2>1, <2>2, <2>3, <2>4, <2>5, <2>6, <2>7, <2>8, <2>9, <2>10 DEF Next
<1>. QED BY <1>1, <1>2

(***************************************************************************)
(* A charge logged, edited or deleted leaves every earlier trip as it was, *)
(* for any table, capacity and tariff: the pool at a trip reads no later   *)
(* row, and the stored trips are a fixed point of the replay.              *)
(***************************************************************************)
THEOREM PastPriced == Spec => PricedByPast
<1>1. Spec => [](Typed /\ FixedPoint)
  BY TypedInit, TypedNext, FixedPointInit, FixedPointNext, PTL DEF Spec
<1>2. Typed /\ FixedPoint /\ [Next]_vars => [PastStep]_vars
  BY PastStepNext
<1>. QED BY <1>1, <1>2, PTL DEF Spec, PricedByPast, PastStep
-----------------------------------------------------------------------------
(* Hand corrections.                                                       *)
Kept(t) ==
  /\ trips[t].energyLocked =>
       \/ trips'[t].energy = trips[t].energy
       \/ \E e \in Kwh : SetTripEnergy(t, e)
  /\ trips[t].costLocked =>
       \/ trips'[t].cost = trips[t].cost
       \/ \E paid \in Paid : SetTripCost(t, paid)

HandStep ==
  \A t \in Instants : (trips[t] # Absent /\ trips'[t] # Absent) => Kept(t)

\* r is q with at most what is not locked changed.
LocksHeld(q, r) ==
  /\ q.energyLocked => r.energyLocked /\ r.energy = q.energy
  /\ q.costLocked => r.costLocked /\ r.cost = q.cost

LEMMA ReplaysKeep ==
  ASSUME Typed, NEW ch \in ChargeTables, NEW tr \in TripTables,
         NEW cap \in Positive, trips' = Replayed(ch, tr, cap, tariff),
         NEW t \in Instants, tr[t] # Absent, LocksHeld(trips[t], tr[t])
  PROVE  Kept(t)
<1>1. tariff \in Positive
  BY DEF Typed
<1>2. /\ tr[t].energyLocked => trips'[t].energy = tr[t].energy
      /\ tr[t].costLocked => trips'[t].cost = tr[t].cost
  BY <1>1, ReplayedKeeps
<1>. QED BY <1>2 DEF Kept, LocksHeld

LEMMA HandStepNext == Typed /\ [Next]_vars => HandStep
<1>. SUFFICES ASSUME Typed, [Next]_vars, NEW t \in Instants,
                     trips[t] # Absent, trips'[t] # Absent
              PROVE  Kept(t)
  BY DEF HandStep
<1>0. /\ charges \in ChargeTables /\ trips \in TripTables
      /\ hint \in Positive /\ tariff \in Positive /\ trips[t] \in Row
  BY RowIs DEF Typed, TripTables
<1>1. LocksHeld(trips[t], trips[t])
  BY DEF LocksHeld
<1>2. ASSUME trips' = trips PROVE Kept(t)
  BY <1>2 DEF Kept
<1>3. ASSUME NEW ch \in ChargeTables, Replays(ch, trips) PROVE Kept(t)
  BY <1>0, <1>1, <1>3, ReplaysKeep DEF Replays
<1>4. ASSUME NEW i \in Instants, NEW c \in Charge, LogCharge(i, c) \/ EditCharge(i, c)
      PROVE  Kept(t)
  <2>1. [charges EXCEPT ![i] = c] \in ChargeTables
    BY <1>0 DEF ChargeTables
  <2>. QED BY <1>3, <1>4, <2>1 DEF LogCharge, EditCharge
<1>5. ASSUME DeleteLastCharge PROVE Kept(t)
  <2>1. \A i \in Held(charges) : [charges EXCEPT ![i] = Absent] \in ChargeTables
    BY <1>0 DEF ChargeTables, Held
  <2>. QED BY <1>3, <1>5, <2>1 DEF DeleteLastCharge
<1>6. ASSUME NEW i \in Instants, NEW r \in Stored, LogTrip(i, r) PROVE Kept(t)
  <2>1. PICK tr : tr = [trips EXCEPT ![i] = r]
    OBVIOUS
  <2>2. i # t /\ tr \in TripTables /\ tr[t] = trips[t]
    BY <1>0, <1>6, <2>1, StoredType DEF LogTrip, TripTables
  <2>3. CASE Replays(charges, tr)
    BY <1>0, <1>1, <2>2, <2>3, ReplaysKeep DEF Replays
  <2>4. CASE trips' = tr
    BY <2>2, <2>4 DEF Kept
  <2>. QED BY <1>6, <2>1, <2>3, <2>4 DEF LogTrip
<1>7. ASSUME NEW i \in Instants, NEW e \in Kwh, SetTripEnergy(i, e) PROVE Kept(t)
  <2>1. PICK tr : tr = [trips EXCEPT ![i].energy = <<e, 1>>, ![i].energyLocked = TRUE]
    OBVIOUS
  <2>2. trips[i] \in Row
    BY <1>0, <1>7, RowIs DEF SetTripEnergy, TripTables
  <2>3. <<e, 1>> \in Known
    BY ConstantsAssumption, WholeIs DEF Known
  <2>4. tr \in TripTables /\ tr[t] # Absent
    <3>1. tr \in TripTables
      BY <1>0, <2>1, <2>2, <2>3 DEF TripTables, Row
    <3>2. i = t => tr[t] \in Row
      BY <1>0, <2>1, <2>2, <2>3 DEF TripTables, Row
    <3>3. i # t => tr[t] = trips[t]
      BY <1>0, <2>1 DEF TripTables
    <3>. QED BY <3>1, <3>2, <3>3, RowIs
  <2>5. trips' = Replayed(charges, tr, hint, tariff)
    BY <1>7, <2>1 DEF SetTripEnergy, Replays
  <2>6. CASE i # t
    <3>1. tr[t] = trips[t]
      BY <1>0, <2>1, <2>6 DEF TripTables
    <3>. QED BY <1>0, <1>1, <2>4, <2>5, <3>1, ReplaysKeep
  <2>7. CASE i = t
    <3>1. tr[t].cost = trips[t].cost /\ tr[t].costLocked = trips[t].costLocked
      BY <1>0, <2>1, <2>2, <2>7 DEF TripTables, Row
    <3>2. tr[t].costLocked => trips'[t].cost = tr[t].cost
      BY <1>0, <2>4, <2>5, ReplayedKeeps
    <3>3. \E k \in Kwh : SetTripEnergy(t, k)
      BY <1>7, <2>7
    <3>. QED BY <3>1, <3>2, <3>3 DEF Kept
  <2>. QED BY <2>6, <2>7
<1>8. ASSUME NEW i \in Instants, NEW paid \in Paid, SetTripCost(i, paid) PROVE Kept(t)
  <2>1. PICK tr : tr = [trips EXCEPT ![i].cost = <<paid, 1>>, ![i].costLocked = TRUE]
    OBVIOUS
  <2>2. trips[i] \in Row
    BY <1>0, <1>8, RowIs DEF SetTripCost, TripTables
  <2>3. <<paid, 1>> \in Known
    BY ConstantsAssumption, WholeIs DEF Known
  <2>4. tr \in TripTables /\ tr[t] # Absent
    <3>1. tr \in TripTables
      BY <1>0, <2>1, <2>2, <2>3 DEF TripTables, Row
    <3>2. i = t => tr[t] \in Row
      BY <1>0, <2>1, <2>2, <2>3 DEF TripTables, Row
    <3>3. i # t => tr[t] = trips[t]
      BY <1>0, <2>1 DEF TripTables
    <3>. QED BY <3>1, <3>2, <3>3, RowIs
  <2>5. trips' = Replayed(charges, tr, hint, tariff)
    BY <1>8, <2>1 DEF SetTripCost, Replays
  <2>6. CASE i # t
    <3>1. tr[t] = trips[t]
      BY <1>0, <2>1, <2>6 DEF TripTables
    <3>. QED BY <1>0, <1>1, <2>4, <2>5, <3>1, ReplaysKeep
  <2>7. CASE i = t
    <3>1. tr[t].energy = trips[t].energy /\ tr[t].energyLocked = trips[t].energyLocked
      BY <1>0, <2>1, <2>2, <2>7 DEF TripTables, Row
    <3>2. tr[t].energyLocked => trips'[t].energy = tr[t].energy
      BY <1>0, <2>4, <2>5, ReplayedKeeps
    <3>3. \E k \in Paid : SetTripCost(t, k)
      BY <1>8, <2>7
    <3>. QED BY <3>1, <3>2, <3>3 DEF Kept
  <2>. QED BY <2>6, <2>7
<1>9. ASSUME NEW i \in Instants, DeleteTrip(i) PROVE Kept(t)
  <2>1. i # t /\ trips'[t] = trips[t]
    BY <1>0, <1>9 DEF DeleteTrip, TripTables
  <2>. QED BY <2>1 DEF Kept
<1>10. ASSUME NEW cap \in Capacities \cup {Declared}, Calibrate(cap) \/ HealEnergies(cap)
       PROVE Kept(t)
  <2>1. cap \in Positive
    BY ConstantsAssumption DEF Positive
  <2>2. PICK tr \in TripTables : tr = Rescaled(trips, cap)
    BY <1>0, <2>1, RescaledIs
  <2>3. tr[t] # Absent /\ LocksHeld(trips[t], tr[t])
    <3>1. CASE ~Rescalable(trips[t])
      <4>1. tr[t] = trips[t]
        BY <1>0, <2>1, <2>2, <3>1, RescaledIs
      <4>. QED BY <1>1, <4>1
    <3>2. CASE Rescalable(trips[t])
      <4>1. PICK k : k = Content(trips[t].used, cap)
        OBVIOUS
      <4>2. tr[t] = [trips[t] EXCEPT !.energy = k] /\ ~trips[t].energyLocked
        BY <1>0, <2>1, <2>2, <3>2, <4>1, RescaledIs DEF Rescalable
      <4>3. /\ tr[t].costLocked = trips[t].costLocked /\ tr[t].cost = trips[t].cost
            /\ tr[t].kind = "trip"
        BY <1>0, <4>2 DEF Row
      <4>. QED BY <4>2, <4>3 DEF LocksHeld, Absent
    <3>. QED BY <3>1, <3>2
  <2>4. Replays(charges, tr) \/ trips' = trips
    BY <1>10, <2>2 DEF Calibrate, HealEnergies
  <2>5. CASE Replays(charges, tr)
    BY <1>0, <2>3, <2>5, ReplaysKeep DEF Replays
  <2>. QED BY <1>2, <2>4, <2>5
<1>11. ASSUME NEW rate \in Tariffs \cup {HomePrice}, MoveTariff(rate) PROVE Kept(t)
  BY <1>2, <1>11 DEF MoveTariff
<1>12. ASSUME StartupHeal PROVE Kept(t)
  BY <1>0, <1>3, <1>12 DEF StartupHeal
<1>13. ASSUME UNCHANGED vars PROVE Kept(t)
  BY <1>2, <1>13 DEF vars
<1>. QED
  BY <1>4, <1>5, <1>6, <1>7, <1>8, <1>9, <1>10, <1>11, <1>12, <1>13 DEF Next

(***************************************************************************)
(* An energy or a cost the user corrected is what the trip keeps: neither  *)
(* the poison reset, the fill, the rescaling of the calibration nor any    *)
(* replay writes over it, in any order.                                    *)
(***************************************************************************)
THEOREM HandKept == Spec => HandFiguresKept
<1>1. Spec => []Typed
  BY TypedInit, TypedNext, PTL DEF Spec
<1>2. Typed /\ [Next]_vars => [HandStep]_vars
  BY HandStepNext
<1>. QED BY <1>1, <1>2, PTL DEF Spec, HandFiguresKept, HandStep, Kept
-----------------------------------------------------------------------------
(***************************************************************************)
(* What the lots hold together, through each thing that is done to them.   *)
(***************************************************************************)
LEMMA PlusSwaps ==
  ASSUME NEW w \in Fraction, NEW x \in Fraction, NEW y \in Fraction,
         NEW z \in Fraction
  PROVE  Plus(Plus(w, x), Plus(y, z)) = Plus(Plus(w, y), Plus(x, z))
<1>1. Plus(y, z) \in Fraction /\ Plus(x, z) \in Fraction
  BY PlusType
<1>2. Plus(Plus(w, x), Plus(y, z)) = Plus(w, Plus(x, Plus(y, z)))
  BY <1>1, PlusAssociates
<1>3. Plus(Plus(w, y), Plus(x, z)) = Plus(w, Plus(y, Plus(x, z)))
  BY <1>1, PlusAssociates
<1>4. Plus(x, Plus(y, z)) = Plus(y, Plus(x, z))
  BY PlusAssociates
<1>. QED BY <1>2, <1>3, <1>4

LEMMA PlusCancels ==
  ASSUME NEW x \in Fraction, NEW y \in Fraction, NEW z \in Fraction,
         Plus(x, z) = Plus(y, z)
  PROVE  x = y
<1>1. PICK d \in Positive, l \in Nat, m \in Nat, n \in Nat :
        x = Frac(l, d) /\ y = Frac(m, d) /\ z = Frac(n, d)
  BY CommonThree
<1>2. Frac(l + n, d) = Frac(m + n, d) /\ l + n \in Nat /\ m + n \in Nat
  BY <1>1, PlusOver
<1>3. (l + n) * d = (m + n) * d
  BY <1>2, FracSame
<1>4. l + n = m + n
  BY <1>2, <1>3, Cancel
<1>. QED BY <1>1, <1>4

\* What the lots up to one give, and what that one adds.
LEMMA LesserStep ==
  ASSUME NEW a \in Fraction, NEW u \in Fraction, NEW k \in Fraction
  PROVE  Plus(Lesser(a, u), Lesser(k, Minus(a, u))) = Lesser(a, Plus(u, k))
<1>1. PICK d \in Positive, l \in Nat, m \in Nat, n \in Nat :
        a = Frac(l, d) /\ u = Frac(m, d) /\ k = Frac(n, d)
  BY CommonThree
<1>2. Plus(u, k) = Frac(m + n, d) /\ m + n \in Nat
  BY <1>1, PlusOver
<1>3. Lesser(a, Plus(u, k)) = Frac(IF l <= m + n THEN l ELSE m + n, d)
  BY <1>1, <1>2, LesserOver
<1>4. Lesser(a, u) = Frac(IF l <= m THEN l ELSE m, d)
  BY <1>1, LesserOver
<1>5. CASE l <= m
  <2>1. Minus(a, u) = Frac(0, d)
    BY <1>1, <1>5, MinusOver
  <2>2. Lesser(k, Minus(a, u)) = Frac(IF n <= 0 THEN n ELSE 0, d)
    BY <1>1, <2>1, LesserOver
  <2>3. (IF n <= 0 THEN n ELSE 0) = 0 /\ l <= m + n /\ l + 0 = l
    BY <1>5
  <2>4. Plus(Frac(l, d), Frac(0, d)) = Frac(l, d)
    BY <2>3, PlusOver
  <2>. QED BY <1>3, <1>4, <1>5, <2>2, <2>3, <2>4
<1>6. CASE m < l
  <2>1. Minus(a, u) = Frac(l - m, d) /\ l - m \in Nat /\ ~(l <= m)
    BY <1>1, <1>6, MinusOver
  <2>2. Lesser(k, Minus(a, u)) = Frac(IF n <= l - m THEN n ELSE l - m, d)
    BY <1>1, <2>1, LesserOver
  <2>3. CASE n <= l - m
    <3>1. (IF l <= m + n THEN l ELSE m + n) = m + n
      BY <2>3
    <3>2. Plus(Frac(m, d), Frac(n, d)) = Frac(m + n, d)
      BY PlusOver
    <3>. QED BY <1>3, <1>4, <2>1, <2>2, <2>3, <3>1, <3>2
  <2>4. CASE ~(n <= l - m)
    <3>1. (IF l <= m + n THEN l ELSE m + n) = l /\ m + (l - m) = l
      BY <2>4
    <3>2. Plus(Frac(m, d), Frac(l - m, d)) = Frac(l, d)
      BY <2>1, <3>1, PlusOver
    <3>. QED BY <1>3, <1>4, <2>1, <2>2, <2>4, <3>1, <3>2
  <2>. QED BY <2>3, <2>4
<1>. QED BY <1>5, <1>6

LEMMA AppendSum ==
  ASSUME NEW lots \in Seq(Lot), NEW lot \in Lot
  PROVE  InLots(Append(lots, lot)) = Plus(InLots(lots), lot.kwh)
<1>. DEFINE n == Len(lots)
<1>1. PICK more \in Seq(Lot) : more = Append(lots, lot)
  BY AppendProperties
<1>2. /\ n \in Nat /\ Len(more) = n + 1 /\ more[n + 1] = lot
      /\ \A i \in 1..n : more[i] = lots[i]
  BY <1>1, LotsAre, AppendProperties
<1>3. Upto(more, n + 1) = Plus(Upto(more, n), more[n + 1].kwh)
  <2>1. n + 1 \in 0..Len(more) /\ n + 1 > 0 /\ (n + 1) - 1 = n
    BY <1>2
  <2>. QED BY <2>1, UptoIs
<1>4. Upto(more, n + 1) = InLots(more)
  <2>1. n + 1 \in 0..Len(more)
    BY <1>2
  <2>. QED BY <1>2, <2>1, UptoIs
<1>5. Upto(lots, n) = InLots(lots)
  <2>1. n \in 0..Len(lots)
    BY <1>2
  <2>. QED BY <2>1, UptoIs
<1>6. Upto(more, n) = Upto(lots, n)
  <2>1. IsFiniteSet(1..n)
    BY <1>2, FS_Interval
  <2>. DEFINE v == [j \in DOMAIN more |-> more[j].kwh]
              w == [j \in DOMAIN lots |-> lots[j].kwh]
  <2>2. DOMAIN more = 1..(n + 1) /\ DOMAIN lots = 1..n
    BY <1>2, LotsAre
  <2>3. \A j \in 1..n : v[j] = w[j]
    BY <1>2, <2>2
  <2>. HIDE DEF v, w
  <2>4. Total(v, 1..n) = Total(w, 1..n)
    BY <2>1, <2>3, TotalSame
  <2>. QED BY <2>4 DEF Upto, v, w
<1>. QED BY <1>1, <1>2, <1>3, <1>4, <1>5, <1>6

LEMMA PaddingSum ==
  ASSUME NEW kwh \in Fraction, NEW price \in Fraction, NEW lots \in Seq(Lot)
  PROVE  InLots(Padding(kwh, price) \o lots) = Plus(kwh, InLots(lots))
<1>. DEFINE n == Len(lots)
<1>1. PICK more \in Seq(Lot) : more = Padding(kwh, price) \o lots
  BY PaddingType
<1>2. [kwh |-> kwh, price |-> price] \in Lot
  BY DEF Lot
<1>3. /\ n \in Nat /\ Len(more) = n + 1 /\ more[1].kwh = kwh
      /\ \A i \in 1..n : more[i + 1] = lots[i]
  <2>1. PICK one \in Seq(Lot) : /\ one = Padding(kwh, price)
                                /\ Len(one) = 1 /\ one[1].kwh = kwh
    <3>1. PICK lot \in Lot : lot = [kwh |-> kwh, price |-> price]
      BY <1>2
    <3>2. <<lot>> \in Seq(Lot) /\ Len(<<lot>>) = 1 /\ <<lot>>[1] = lot
      OBVIOUS
    <3>3. Padding(kwh, price) = <<lot>> /\ lot.kwh = kwh
      BY <3>1 DEF Padding
    <3>. QED BY <3>2, <3>3
  <2>2. more = one \o lots
    BY <1>1, <2>1
  <2>3. n \in Nat
    BY LotsAre
  <2>4. /\ Len(more) = Len(one) + n
        /\ \A i \in 1..(Len(one) + n) :
             more[i] = IF i <= Len(one) THEN one[i] ELSE lots[i - Len(one)]
    BY <2>2, ConcatProperties
  <2>. QED BY <2>1, <2>3, <2>4
<1>. DEFINE Q == {i \in 0..n : Upto(more, i + 1) = Plus(kwh, Upto(lots, i))}
<1>4. 0 \in Q
  <2>1. 1 \in 0..Len(more) /\ 1 > 0 /\ 0 \in 0..Len(more) /\ 0 \in 0..Len(lots)
    BY <1>3
  <2>2. Upto(more, 1) = Plus(Upto(more, 0), more[1].kwh)
    <3>1. 1 - 1 = 0
      OBVIOUS
    <3>. QED BY <2>1, <3>1, UptoIs
  <2>3. Upto(more, 0) = Zero /\ Upto(lots, 0) = Zero
    BY <2>1, UptoIs
  <2>4. Plus(Zero, kwh) = kwh /\ Plus(kwh, Zero) = kwh
    BY PlusZero
  <2>. QED BY <1>3, <2>2, <2>3, <2>4
<1>5. ASSUME NEW i \in 1..n, i - 1 \in Q PROVE i \in Q
  <2>1. /\ i + 1 \in 0..Len(more) /\ i + 1 > 0 /\ (i + 1) - 1 = i
        /\ i \in 0..Len(lots) /\ i > 0 /\ i - 1 \in 0..Len(lots) /\ (i - 1) + 1 = i
    BY <1>3
  <2>2. Upto(more, i + 1) = Plus(Upto(more, i), more[i + 1].kwh)
    BY <2>1, UptoIs
  <2>3. Upto(lots, i) = Plus(Upto(lots, i - 1), lots[i].kwh)
    BY <2>1, UptoIs
  <2>4. Upto(more, i) = Plus(kwh, Upto(lots, i - 1))
    BY <1>5, <2>1
  <2>5. Upto(lots, i - 1) \in Fraction /\ lots[i].kwh \in Fraction
    BY <2>1, UptoIs, LotsAre
  <2>6. Plus(Plus(kwh, Upto(lots, i - 1)), lots[i].kwh)
          = Plus(kwh, Plus(Upto(lots, i - 1), lots[i].kwh))
    BY <2>5, PlusAssociates
  <2>. QED BY <1>3, <2>1, <2>2, <2>3, <2>4, <2>6
<1>6. n \in Q
  <2>. HIDE DEF Q
  <2>1. PICK m \in Nat : m = n
    BY <1>3
  <2>2. \A i \in 0..m : i \in Q
    BY <1>4, <1>5, <2>1, Climb
  <2>. QED BY <2>1, <2>2
<1>7. Upto(more, n + 1) = InLots(more) /\ Upto(lots, n) = InLots(lots)
  <2>1. n + 1 \in 0..Len(more) /\ n \in 0..Len(lots)
    BY <1>3
  <2>. QED BY <1>3, <2>1, UptoIs
<1>. QED BY <1>1, <1>6, <1>7

LEMMA WithoutSum ==
  ASSUME NEW lots \in Seq(Lot), NEW taken \in [1..Len(lots) -> Fraction],
         \A i \in 1..Len(lots) : AtMost(taken[i], lots[i].kwh)
  PROVE  /\ Total(taken, 1..Len(lots)) \in Fraction
         /\ Plus(InLots(Without(lots, taken)), Total(taken, 1..Len(lots)))
              = InLots(lots)
<1>. DEFINE n == Len(lots)
<1>0. n \in Nat
  BY LotsAre
<1>1. PICK f : Keeps(lots, taken, f) /\ Without(lots, taken) = f[n]
  BY WithoutIs
<1>. DEFINE Q == {i \in 0..n :
                    Plus(InLots(f[i]), Total(taken, 1..i)) = Upto(lots, i)}
<1>2. 0 \in Q
  <2>1. f[0] = <<>> /\ <<>> \in Seq(Lot) /\ Len(<<>>) = 0
    BY <1>1 DEF Keeps
  <2>2. InLots(<<>>) = Zero
    <3>1. 0 \in 0..Len(<<>>)
      OBVIOUS
    <3>. QED BY <2>1, <3>1, UptoIs
  <2>3. Total(taken, 1..0) = Zero /\ Upto(lots, 0) = Zero
    BY <1>0, TotalUpTo, UptoIs
  <2>. QED BY <1>0, <2>1, <2>2, <2>3, PlusZero, ZeroIs
<1>3. ASSUME NEW i \in 1..n, i - 1 \in Q PROVE i \in Q
  <2>1. /\ i \in 0..n /\ i > 0 /\ i \in Nat /\ i - 1 \in 0..n
        /\ \A j \in 1..i : taken[j] \in Fraction
        /\ \A j \in 1..(i - 1) : taken[j] \in Fraction
    BY <1>0
  <2>2. PICK k \in Fraction, t \in Fraction, p \in Fraction, l \in Fraction :
          /\ k = lots[i].kwh /\ t = taken[i] /\ l = Minus(k, t)
          /\ p = Total(taken, 1..(i - 1))
    <3>1. lots[i].kwh \in Fraction /\ taken[i] \in Fraction
      BY LotsAre
    <3>2. Total(taken, 1..(i - 1)) \in Fraction
      BY <1>0, <2>1, TotalUpTo
    <3>3. Minus(lots[i].kwh, taken[i]) \in Fraction
      BY <3>1, MinusIs
    <3>. QED BY <3>1, <3>2, <3>3
  <2>3. PICK a \in Fraction : a = InLots(f[i - 1])
    BY <1>1, <2>1, InLotsType DEF Keeps
  <2>4. InLots(f[i]) = Plus(a, l)
    <3>1. f[i - 1] \in Seq(Lot)
      BY <1>1, <2>1 DEF Keeps
    <3>2. CASE l = Zero
      <4>1. f[i] = f[i - 1]
        BY <1>1, <2>2, <3>2 DEF Keeps
      <4>. QED BY <2>3, <3>2, <4>1, PlusZero
    <3>3. CASE l # Zero
      <4>1. f[i] = Append(f[i - 1], Left(lots, taken, i))
        BY <1>1, <2>2, <3>3 DEF Keeps
      <4>2. Left(lots, taken, i) \in Lot /\ Left(lots, taken, i).kwh = l
        BY <2>2, LeftType
      <4>. QED BY <2>3, <3>1, <4>1, <4>2, AppendSum
    <3>. QED BY <3>2, <3>3
  <2>5. Plus(t, l) = k
    BY <2>2, MinusIs
  <2>6. Plus(l, t) = k
    BY <2>5, PlusCommutes
  <2>7. Total(taken, 1..i) = Plus(p, t)
    BY <2>1, <2>2, TotalUpTo
  <2>8. Plus(a, p) = Upto(lots, i - 1)
    BY <1>3, <2>2, <2>3
  <2>9. Upto(lots, i) = Plus(Plus(a, p), k)
    BY <2>1, <2>2, <2>8, UptoIs
  <2>10. Plus(Plus(a, l), Plus(p, t)) = Plus(Plus(a, p), Plus(l, t))
    BY PlusSwaps
  <2>. QED BY <2>1, <2>4, <2>6, <2>7, <2>9, <2>10
<1>4. n \in Q
  <2>. HIDE DEF Q
  <2>1. PICK m \in Nat : m = n
    BY <1>0
  <2>2. \A i \in 0..m : i \in Q
    BY <1>2, <1>3, <2>1, Climb
  <2>. QED BY <2>1, <2>2
<1>5. Upto(lots, n) = InLots(lots) /\ n \in 0..n
  BY <1>0, UptoIs
<1>6. Total(taken, 1..n) \in Fraction
  BY <1>0, TotalUpTo
<1>. QED BY <1>1, <1>4, <1>5, <1>6

\* The energy of the lots before lot i, and of those after it.
LEMMA OlderIs ==
  ASSUME NEW lots \in Seq(Lot), NEW amount \in Fraction, NEW i \in 1..Len(lots)
  PROVE  Wanted(lots, amount, Older(lots), i) = Minus(amount, Upto(lots, i - 1))
<1>. DEFINE v == [j \in 1..(i - 1) |-> lots[j].kwh]
            w == [j \in DOMAIN lots |-> lots[j].kwh]
<1>1. Len(lots) \in Nat /\ DOMAIN lots = 1..Len(lots)
  BY LotsAre
<1>2. Older(lots)[i] = 1..(i - 1)
  BY <1>1 DEF Older
<1>3. IsFiniteSet(1..(i - 1))
  BY <1>1, FS_Interval
<1>4. \A j \in 1..(i - 1) : v[j] = w[j]
  BY <1>1
<1>5. Total(v, 1..(i - 1)) = Total(w, 1..(i - 1))
  <2>. HIDE DEF v, w
  <2>. QED BY <1>3, <1>4, TotalSame
<1>. QED BY <1>2, <1>5 DEF Wanted, Upto

LEMMA TakenOlder ==
  ASSUME NEW lots \in Seq(Lot), NEW amount \in Fraction
  PROVE  Total(Taken(lots, amount, Older(lots)), 1..Len(lots))
           = Lesser(amount, InLots(lots))
<1>. DEFINE n == Len(lots)
<1>0. n \in Nat
  BY LotsAre
<1>1. PICK taken : taken = Taken(lots, amount, Older(lots))
  OBVIOUS
<1>2. /\ taken \in [1..n -> Fraction]
      /\ \A i \in 1..n :
           taken[i] = Lesser(lots[i].kwh, Minus(amount, Upto(lots, i - 1)))
  BY <1>1, TakenIs, OlderIs
<1>. DEFINE Q == {i \in 0..n : Total(taken, 1..i) = Lesser(amount, Upto(lots, i))}
<1>3. 0 \in Q
  <2>1. Total(taken, 1..0) = Zero /\ Upto(lots, 0) = Zero
    BY <1>0, <1>2, TotalUpTo, UptoIs
  <2>2. Lesser(amount, Zero) = Zero
    BY AtMostOrders, ZeroIs DEF Lesser
  <2>. QED BY <1>0, <2>1, <2>2
<1>4. ASSUME NEW i \in 1..n, i - 1 \in Q PROVE i \in Q
  <2>1. /\ i \in 0..n /\ i > 0 /\ i \in Nat /\ i - 1 \in 0..n
        /\ \A j \in 1..i : taken[j] \in Fraction
    BY <1>0, <1>2
  <2>2. PICK u \in Fraction, k \in Fraction :
          u = Upto(lots, i - 1) /\ k = lots[i].kwh
    BY <2>1, UptoIs, LotsAre
  <2>3. Total(taken, 1..i) = Plus(Total(taken, 1..(i - 1)), taken[i])
    BY <2>1, TotalUpTo
  <2>4. Upto(lots, i) = Plus(u, k)
    BY <2>1, <2>2, UptoIs
  <2>5. taken[i] = Lesser(k, Minus(amount, u))
    BY <1>2, <2>2
  <2>6. Total(taken, 1..(i - 1)) = Lesser(amount, u)
    BY <1>4, <2>2
  <2>. QED BY <2>1, <2>3, <2>4, <2>5, <2>6, LesserStep
<1>5. n \in Q
  <2>. HIDE DEF Q
  <2>1. PICK m \in Nat : m = n
    BY <1>0
  <2>2. \A i \in 0..m : i \in Q
    BY <1>3, <1>4, <2>1, Climb
  <2>. QED BY <2>1, <2>2
<1>6. Upto(lots, n) = InLots(lots)
  BY <1>0, UptoIs
<1>. QED BY <1>1, <1>5, <1>6

\* What the last lots hold together.
From(lots, i) == Total([j \in DOMAIN lots |-> lots[j].kwh], i..Len(lots))

\* The total over i..n, taken from its start.
LEMMA TotalFrom ==
  ASSUME NEW w, NEW n \in Nat, NEW i \in 1..(n + 1), \A j \in i..n : w[j] \in Fraction
  PROVE  /\ Total(w, i..n) \in Fraction
         /\ i = n + 1 => Total(w, i..n) = Zero
         /\ i <= n => Total(w, i..n) = Plus(Total(w, (i + 1)..n), w[i])
<1>1. IsFiniteSet(i..n) /\ IsFiniteSet((i + 1)..n)
  BY FS_Interval
<1>2. Total(w, i..n) \in Fraction
  BY <1>1, TotalType
<1>3. i = n + 1 => Total(w, i..n) = Zero
  <2>1. i = n + 1 => i..n = {}
    OBVIOUS
  <2>. QED BY <2>1, TotalEmpty
<1>4. ASSUME i <= n
      PROVE  Total(w, i..n) = Plus(Total(w, (i + 1)..n), w[i])
  <2>1. i \in i..n /\ (i..n) \ {i} = (i + 1)..n
    BY <1>4
  <2>2. Total(w, i..n) = Plus(w[i], Total(w, (i + 1)..n))
    BY <1>1, <2>1, TotalTakes
  <2>3. \A j \in (i + 1)..n : w[j] \in Fraction
    OBVIOUS
  <2>4. Total(w, (i + 1)..n) \in Fraction
    BY <1>1, <2>3, TotalType
  <2>. QED BY <2>1, <2>2, <2>4, PlusCommutes
<1>. QED BY <1>2, <1>3, <1>4

LEMMA FromIs ==
  ASSUME NEW lots \in Seq(Lot), NEW i \in 1..(Len(lots) + 1)
  PROVE  /\ From(lots, i) \in Fraction
         /\ i = Len(lots) + 1 => From(lots, i) = Zero
         /\ i <= Len(lots) => From(lots, i) = Plus(From(lots, i + 1), lots[i].kwh)
         /\ From(lots, 1) = InLots(lots)
<1>. DEFINE w == [j \in DOMAIN lots |-> lots[j].kwh]
            n == Len(lots)
<1>0. n \in Nat /\ DOMAIN lots = 1..n
  BY LotsAre
<1>1. \A j \in i..n : w[j] = lots[j].kwh /\ w[j] \in Fraction
  BY <1>0, LotsAre
<1>2. i <= n => w[i] = lots[i].kwh
  BY <1>0, <1>1
<1>3. From(lots, 1) = InLots(lots)
  BY <1>0 DEF From, InLots
<1>4. From(lots, i) = Total(w, i..n) /\ From(lots, i + 1) = Total(w, (i + 1)..n)
  BY DEF From
<1>. HIDE DEF w
<1>5. /\ Total(w, i..n) \in Fraction
      /\ i = n + 1 => Total(w, i..n) = Zero
      /\ i <= n => Total(w, i..n) = Plus(Total(w, (i + 1)..n), w[i])
  <2>1. PICK m \in Nat : m = n
    BY <1>0
  <2>. QED BY <1>1, <2>1, TotalFrom
<1>. QED BY <1>2, <1>3, <1>4, <1>5

LEMMA NewerIs ==
  ASSUME NEW lots \in Seq(Lot), NEW amount \in Fraction, NEW i \in 1..Len(lots)
  PROVE  Wanted(lots, amount, Newer(lots), i) = Minus(amount, From(lots, i + 1))
<1>. DEFINE v == [j \in (i + 1)..Len(lots) |-> lots[j].kwh]
            w == [j \in DOMAIN lots |-> lots[j].kwh]
<1>1. Len(lots) \in Nat /\ DOMAIN lots = 1..Len(lots)
  BY LotsAre
<1>2. Newer(lots)[i] = (i + 1)..Len(lots)
  BY <1>1 DEF Newer
<1>3. IsFiniteSet((i + 1)..Len(lots))
  BY <1>1, FS_Interval
<1>4. \A j \in (i + 1)..Len(lots) : v[j] = w[j]
  BY <1>1
<1>5. Total(v, (i + 1)..Len(lots)) = Total(w, (i + 1)..Len(lots))
  <2>. HIDE DEF v, w
  <2>. QED BY <1>3, <1>4, TotalSame
<1>. QED BY <1>2, <1>5 DEF Wanted, From

LEMMA TakenNewer ==
  ASSUME NEW lots \in Seq(Lot), NEW amount \in Fraction
  PROVE  Total(Taken(lots, amount, Newer(lots)), 1..Len(lots))
           = Lesser(amount, InLots(lots))
<1>. DEFINE n == Len(lots)
<1>0. n \in Nat
  BY LotsAre
<1>1. PICK taken : taken = Taken(lots, amount, Newer(lots))
  OBVIOUS
<1>2. /\ taken \in [1..n -> Fraction]
      /\ \A i \in 1..n :
           taken[i] = Lesser(lots[i].kwh, Minus(amount, From(lots, i + 1)))
  BY <1>1, TakenIs, NewerIs
<1>. DEFINE Q == {k \in 0..n : Total(taken, (n + 1 - k)..n)
                                 = Lesser(amount, From(lots, n + 1 - k))}
<1>3. 0 \in Q
  <2>1. n + 1 - 0 = n + 1 /\ n + 1 \in 1..(n + 1) /\ \A j \in (n + 1)..n : FALSE
    BY <1>0
  <2>2. Total(taken, (n + 1)..n) = Zero /\ From(lots, n + 1) = Zero
    BY <1>0, <2>1, TotalFrom, FromIs
  <2>3. Lesser(amount, Zero) = Zero
    BY AtMostOrders, ZeroIs DEF Lesser
  <2>. QED BY <1>0, <2>1, <2>2, <2>3
<1>4. ASSUME NEW k \in 1..n, k - 1 \in Q PROVE k \in Q
  <2>1. PICK i \in 1..n : i = n + 1 - k /\ i + 1 = n + 1 - (k - 1)
    BY <1>0
  <2>2. /\ k \in 0..n /\ i \in 1..(n + 1) /\ i + 1 \in 1..(n + 1) /\ i <= n
        /\ \A j \in i..n : taken[j] \in Fraction
    <3>1. /\ k \in 0..n /\ i \in 1..(n + 1) /\ i + 1 \in 1..(n + 1) /\ i <= n
          /\ i..n \subseteq 1..n
      BY <1>0
    <3>. QED BY <1>2, <3>1
  <2>3. PICK u \in Fraction, g \in Fraction :
          u = From(lots, i + 1) /\ g = lots[i].kwh
    BY <2>2, FromIs, LotsAre
  <2>4. Total(taken, i..n) = Plus(Total(taken, (i + 1)..n), taken[i])
    BY <1>0, <2>2, TotalFrom
  <2>5. From(lots, i) = Plus(u, g)
    BY <2>2, <2>3, FromIs
  <2>6. taken[i] = Lesser(g, Minus(amount, u))
    BY <1>2, <2>3
  <2>7. Total(taken, (i + 1)..n) = Lesser(amount, u)
    BY <1>4, <2>1, <2>3
  <2>8. Total(taken, i..n) = Lesser(amount, From(lots, i))
    BY <2>4, <2>5, <2>6, <2>7, LesserStep
  <2>. QED BY <2>1, <2>2, <2>8
<1>5. n \in Q
  <2>. HIDE DEF Q
  <2>1. PICK m \in Nat : m = n
    BY <1>0
  <2>2. \A i \in 0..m : i \in Q
    BY <1>3, <1>4, <2>1, Climb
  <2>. QED BY <2>1, <2>2
<1>6. n + 1 - n = 1 /\ From(lots, 1) = InLots(lots)
  BY <1>0, FromIs
<1>. QED BY <1>1, <1>5, <1>6

\* What is left in the lots once a trip has taken its energy.
LEMMA DrawnSum ==
  ASSUME NEW lots \in Seq(Lot), NEW amount \in Fraction,
         NEW ahead \in {Older(lots), Newer(lots)}
  PROVE  InLots(Without(lots, Taken(lots, amount, ahead)))
           = Minus(InLots(lots), amount)
<1>1. PICK taken : taken = Taken(lots, amount, ahead)
  OBVIOUS
<1>2. /\ taken \in [1..Len(lots) -> Fraction]
      /\ \A i \in 1..Len(lots) : AtMost(taken[i], lots[i].kwh)
  BY <1>1, TakenIs
<1>3. Total(taken, 1..Len(lots)) = Lesser(amount, InLots(lots))
  BY <1>1, TakenOlder, TakenNewer
<1>4. PICK held \in Fraction, rest \in Fraction :
        held = InLots(lots) /\ rest = InLots(Without(lots, taken))
  BY <1>2, InLotsType, WithoutType
<1>5. Plus(rest, Lesser(amount, held)) = held
  BY <1>2, <1>3, <1>4, WithoutSum
<1>6. Plus(Minus(held, amount), Lesser(amount, held)) = held
  <2>1. Plus(Lesser(held, amount), Minus(held, amount)) = held
    BY MinusIs
  <2>2. Lesser(held, amount) = Lesser(amount, held) /\ Lesser(held, amount) \in Fraction
    BY LesserIs
  <2>3. Minus(held, amount) \in Fraction
    BY MinusIs
  <2>. QED BY <2>1, <2>2, <2>3, PlusCommutes
<1>7. rest = Minus(held, amount)
  BY <1>5, <1>6, LesserIs, MinusIs, PlusCancels
<1>. QED BY <1>1, <1>4, <1>7

\* _anchor_lots leaves the lots at the target, or below it for want of a price.
LEMMA AnchoredSum ==
  ASSUME NEW lots \in Seq(Lot), NEW target \in Fraction, NEW pad \in Fraction
  PROVE  /\ AtMost(InLots(Anchored(lots, target, pad)), target)
         /\ pad # Zero => InLots(Anchored(lots, target, pad)) = target
<1>1. PICK held \in Fraction : held = InLots(lots)
  BY InLotsType
<1>2. AtMost(target, target)
  BY AtMostOrders
<1>3. CASE AtMost(target, held)
  <2>1. Anchored(lots, target, pad)
          = Without(lots, Taken(lots, Minus(held, target), Older(lots)))
    BY <1>1, <1>3 DEF Anchored
  <2>2. InLots(Anchored(lots, target, pad)) = Minus(held, Minus(held, target))
    BY <1>1, <2>1, MinusIs, DrawnSum
  <2>3. Minus(held, Minus(held, target)) = target
    BY <1>3, MinusIs
  <2>. QED BY <1>2, <2>2, <2>3
<1>4. CASE ~AtMost(target, held) /\ pad = Zero
  <2>1. Anchored(lots, target, pad) = lots
    BY <1>1, <1>4 DEF Anchored
  <2>2. AtMost(held, target)
    BY <1>4, AtMostOrders
  <2>. QED BY <1>1, <1>4, <2>1, <2>2
<1>5. CASE ~AtMost(target, held) /\ pad # Zero
  <2>1. Anchored(lots, target, pad) = Padding(Minus(target, held), pad) \o lots
    BY <1>1, <1>5 DEF Anchored, Padding
  <2>2. Minus(target, held) \in Fraction
    BY MinusIs
  <2>3. InLots(Anchored(lots, target, pad)) = Plus(Minus(target, held), held)
    BY <1>1, <2>1, <2>2, PaddingSum
  <2>4. Plus(held, Minus(target, held)) = target
    BY <1>5, AtMostOrders, MinusIs
  <2>5. Plus(Minus(target, held), held) = target
    BY <2>2, <2>4, PlusCommutes
  <2>. QED BY <1>2, <2>3, <2>5
<1>. QED BY <1>3, <1>4, <1>5
-----------------------------------------------------------------------------
(* The lots and the pool, charge by charge and trip by trip.               *)
Follow(pool) == AtMost(InLots(pool.lots), pool.kwh)
Agree(pool) == InLots(pool.lots) = pool.kwh

LEMMA AfterOrders ==
  ASSUME NEW x \in Fraction, NEW y \in Fraction, AtMost(x, y),
         NEW c \in Charge, NEW cap \in Positive
  PROVE  AtMost(After(x, c, cap), After(y, c, cap))
<1>1. <<cap, 1>> \in Fraction
  BY WholeIs DEF Positive
<1>2. c.socs[2] # Unknown => Content(c.socs[2], cap) \in Fraction
  <2>1. c.socs[2] \in Socs \cup {Unknown}
    BY ChargeIs
  <2>. QED BY <2>1, ContentType
<1>. QED BY <1>1, <1>2, LesserKeepsOrder, AtMostOrders DEF After

LEMMA ChargedFollows ==
  ASSUME NEW pool \in Pool, NEW c \in Charge, NEW cap \in Positive
  PROVE  /\ Follow(pool) => Follow(Charged(pool, c, cap))
         /\ Agree(pool) /\ c.paid > 0 => Agree(Charged(pool, c, cap))
<1>0. /\ pool.kwh \in Fraction /\ pool.lots \in Seq(Lot)
      /\ <<c.kwh, 1>> \in Fraction /\ Price(c) \in Fraction
      /\ c.paid > 0 => Price(c) # Zero
      /\ c.socs[1] \in Socs \cup {Unknown}
  BY ChargeIs DEF Pool
<1>1. PICK b \in Fraction, s \in Fraction, k \in Fraction :
        /\ b = Before(pool, c, cap) /\ s = InLots(Stack(pool, c, cap))
        /\ k = <<c.kwh, 1>>
  BY <1>0, ChargedParts, InLotsType
<1>2. /\ Follow(pool) => AtMost(s, b)
      /\ Agree(pool) /\ c.paid > 0 => s = b
  <2>1. CASE c.socs[1] = Unknown
    BY <1>1, <2>1 DEF Before, Stack, Follow, Agree
  <2>2. CASE c.socs[1] # Unknown
    <3>1. Content(c.socs[1], cap) \in Fraction
      BY <1>0, <2>2, ContentType
    <3>. QED BY <1>0, <1>1, <2>2, <3>1, AnchoredSum DEF Before, Stack
  <2>. QED BY <2>1, <2>2
<1>3. InLots(Stacked(pool, c, cap)) = Plus(s, k)
  <2>1. PICK lot \in Lot : lot = [kwh |-> <<c.kwh, 1>>, price |-> Price(c)]
    BY <1>0 DEF Lot
  <2>2. lot.kwh = k
    BY <1>1, <2>1
  <2>3. InLots(Append(Stack(pool, c, cap), lot)) = Plus(s, lot.kwh)
    BY <1>1, ChargedParts, AppendSum
  <2>. QED BY <2>1, <2>2, <2>3 DEF Stacked
<1>4. PICK h \in Fraction, g \in Fraction :
        h = Plus(s, k) /\ g = Plus(b, k)
  BY PlusType
<1>5. /\ Follow(pool) => AtMost(h, g)
      /\ Agree(pool) /\ c.paid > 0 => h = g
  BY <1>2, <1>4, PlusKeepsOrder
<1>6. PICK x \in Fraction, y \in Fraction :
        x = After(h, c, cap) /\ y = After(g, c, cap)
  BY ChargedParts
<1>7. /\ Follow(pool) => AtMost(x, y)
      /\ Agree(pool) /\ c.paid > 0 => x = y
  BY <1>5, <1>6, AfterOrders
<1>8. Charged(pool, c, cap).kwh = y
  BY <1>1, <1>4, <1>6, ChargedIs
<1>9. Charged(pool, c, cap).lots = Anchored(Stacked(pool, c, cap), x, Price(c))
  BY <1>3, <1>4, <1>6, ChargedIs
<1>10. PICK z \in Fraction : z = InLots(Charged(pool, c, cap).lots)
  BY <1>0, <1>9, ChargedParts, AnchoredType, InLotsType
<1>11. AtMost(z, x) /\ (c.paid > 0 => z = x)
  BY <1>0, <1>9, <1>10, ChargedParts, AnchoredSum
<1>. QED BY <1>7, <1>8, <1>10, <1>11, AtMostTransitive DEF Follow, Agree

LEMMA WithdrawnFollows ==
  ASSUME NEW pool \in Pool, NEW energy \in Fraction, NEW rate \in Fraction
  PROVE  /\ Follow(pool) => Follow(Withdrawn(pool, energy, rate))
         /\ Agree(pool) => Agree(Withdrawn(pool, energy, rate))
<1>1. pool.kwh \in Fraction /\ pool.lots \in Seq(Lot)
  BY DEF Pool
<1>2. PICK held \in Fraction : held = InLots(pool.lots)
  BY <1>1, InLotsType
<1>3. Withdrawn(pool, energy, rate).kwh = Minus(pool.kwh, energy)
  BY WithdrawnIs
<1>4. InLots(Withdrawn(pool, energy, rate).lots) = Minus(held, energy)
  <2>1. Withdrawn(pool, energy, rate).lots = Without(pool.lots, Gives(pool, energy))
    BY WithdrawnIs
  <2>2. InLots(Without(pool.lots, Taken(pool.lots, energy, Newer(pool.lots))))
          = Minus(InLots(pool.lots), energy)
    BY <1>1, DrawnSum
  <2>. QED BY <1>2, <2>1, <2>2 DEF Gives
<1>. QED BY <1>1, <1>2, <1>3, <1>4, MinusKeepsOrder DEF Follow, Agree

LEMMA LotsFollow ==
  ASSUME NEW ch \in ChargeTables, NEW tr \in TripTables, NEW cap \in Positive,
         NEW rate \in Fraction, NEW n \in 0..MaxTime
  PROVE  /\ Follow(PoolAt(ch, tr, cap, rate)[n])
         /\ (\A t \in Instants : ch[t] # Absent => ch[t].paid > 0)
              => Agree(PoolAt(ch, tr, cap, rate)[n])
<1>. DEFINE AllPaid == \A t \in Instants : ch[t] # Absent => ch[t].paid > 0
<1>1. PICK f : f = PoolAt(ch, tr, cap, rate) /\ Pools(ch, tr, cap, rate, f)
  BY PoolAtIs
<1>2. n \in Nat /\ MaxTime \in Nat /\ n <= MaxTime
  BY ConstantsAssumption
<1>. DEFINE Q == {t \in 0..n : Follow(f[t]) /\ (AllPaid => Agree(f[t]))}
<1>3. 0 \in Q
  <2>1. f[0] = EmptyPool
    BY <1>1 DEF Pools
  <2>2. f[0].lots = <<>> /\ f[0].kwh = Zero
    BY <2>1 DEF EmptyPool
  <2>3. InLots(<<>>) = Zero
    <3>1. <<>> \in Seq(Lot) /\ Len(<<>>) = 0 /\ 0 \in 0..Len(<<>>)
      OBVIOUS
    <3>. QED BY <3>1, UptoIs
  <2>. QED BY <1>2, <2>2, <2>3, AtMostOrders, ZeroIs DEF Follow, Agree
<1>4. ASSUME NEW t \in 1..n, t - 1 \in Q PROVE t \in Q
  <2>1. t \in 1..MaxTime /\ t \in Instants /\ t - 1 \in 0..MaxTime
    BY <1>2 DEF Instants
  <2>2. PICK p \in Pool : p = f[t - 1]
    BY <1>1, <2>1 DEF Pools
  <2>3. Follow(p) /\ (AllPaid => Agree(p))
    BY <1>4, <2>2
  <2>4. ch[t] \in Charge \cup {Absent} /\ tr[t] \in Row \cup {Absent}
    BY <2>1 DEF ChargeTables, TripTables
  <2>5. PICK full \in Pool : full = IF ch[t] = Absent THEN p ELSE Charged(p, ch[t], cap)
    BY <2>4, ChargedIs
  <2>6. Follow(full) /\ (AllPaid => Agree(full))
    <3>1. AllPaid => (ch[t] # Absent => ch[t].paid > 0)
      BY <2>1
    <3>. HIDE DEF AllPaid
    <3>. QED BY <2>3, <2>4, <2>5, <3>1, ChargedFollows
  <2>7. f[t] = IF HasEnergy(tr[t]) THEN Withdrawn(full, tr[t].energy, rate) ELSE full
    BY <1>1, <2>1, <2>2, <2>5 DEF Pools, PoolStep
  <2>8. HasEnergy(tr[t]) => tr[t].energy \in Fraction
    BY <2>4, RowIs
  <2>9. Follow(f[t]) /\ (AllPaid => Agree(f[t]))
    <3>. HIDE DEF AllPaid
    <3>. QED BY <2>6, <2>7, <2>8, WithdrawnFollows
  <2>. QED BY <1>2, <2>9
<1>5. n \in Q
  <2>. HIDE DEF Q
  <2>1. \A t \in 0..n : t \in Q
    BY <1>2, <1>3, <1>4, Climb
  <2>. QED BY <1>2, <2>1
<1>. QED BY <1>1, <1>5

(***************************************************************************)
(* After any charges and trips the lots hold no more than the pool does,   *)
(* and as much where every charge had a price: the two accounts the replay *)
(* keeps cannot drift apart, whatever socs the charges report.             *)
(***************************************************************************)
THEOREM LotsKeepUp == Spec => []LotsFollowPool
<1>1. ASSUME Typed PROVE LotsFollowPool
  <2>1. /\ charges \in ChargeTables /\ trips \in TripTables /\ hint \in Positive
        /\ <<tariff, 1>> \in Fraction /\ MaxTime \in 0..MaxTime
    BY <1>1, ConstantsAssumption, WholeIs DEF Typed, Positive
  <2>2. PICK pool : pool = PoolAt(charges, trips, hint, <<tariff, 1>>)[MaxTime]
    OBVIOUS
  <2>3. /\ Follow(pool)
        /\ (\A t \in Instants : charges[t] # Absent => charges[t].paid > 0)
             => Agree(pool)
    BY <2>1, <2>2, LotsFollow
  <2>. QED BY <2>2, <2>3 DEF LotsFollowPool, Follow, Agree, Held
<1>2. Spec => []Typed
  BY TypedInit, TypedNext, PTL DEF Spec
<1>. QED BY <1>1, <1>2, PTL
-----------------------------------------------------------------------------
(***************************************************************************)
(* Prices.  Between two bounds on what was paid stay the price of the pool *)
(* and that of every lot: a blend lies between what it blends, an anchor   *)
(* only adds lots at the price of its charge, and while there was no       *)
(* charge the pool holds nothing.                                          *)
(***************************************************************************)
Within(p, lo, hi) == AtMost(lo, p) /\ AtMost(p, hi)
Priced(lots, lo, hi) == \A i \in 1..Len(lots) : Within(lots[i].price, lo, hi)

LEMMA TimesWithin ==
  ASSUME NEW p \in Fraction, NEW lo \in Fraction, NEW hi \in Fraction,
         Within(p, lo, hi), NEW a \in Fraction
  PROVE  Within(Times(a, p), Times(lo, a), Times(hi, a))
BY TimesKeepsOrder, TimesType DEF Within

LEMMA SplitWithin ==
  ASSUME NEW lo \in Fraction, NEW hi \in Fraction, NEW a \in Fraction,
         NEW b \in Fraction, NEW x \in Fraction, NEW y \in Fraction,
         Within(x, Times(lo, a), Times(hi, a)), Within(y, Times(lo, b), Times(hi, b))
  PROVE  Within(Plus(x, y), Times(lo, Plus(a, b)), Times(hi, Plus(a, b)))
<1>1. /\ Times(lo, Plus(a, b)) = Plus(Times(lo, a), Times(lo, b))
      /\ Times(hi, Plus(a, b)) = Plus(Times(hi, a), Times(hi, b))
  BY TimesDistributes
<1>2. /\ Times(lo, a) \in Fraction /\ Times(lo, b) \in Fraction
      /\ Times(hi, a) \in Fraction /\ Times(hi, b) \in Fraction
  BY TimesType
<1>3. AtMost(Plus(Times(lo, a), Times(lo, b)), Plus(x, y))
  BY <1>2, PlusKeepsBoth DEF Within
<1>4. AtMost(Plus(x, y), Plus(Times(hi, a), Times(hi, b)))
  BY <1>2, PlusKeepsBoth DEF Within
<1>. QED BY <1>1, <1>3, <1>4 DEF Within

LEMMA MixedWithin ==
  ASSUME NEW lo \in Fraction, NEW hi \in Fraction, NEW held \in Fraction,
         NEW kwh \in Fraction, NEW p \in Fraction, NEW q \in Fraction, kwh # Zero,
         Within(p, lo, hi), Within(q, lo, hi)
  PROVE  Within(Mixed(held, p, kwh, q), lo, hi)
<1>1. PICK x \in Fraction, y \in Fraction, e \in Fraction :
        x = Times(held, p) /\ y = Times(kwh, q) /\ e = Plus(held, kwh)
  BY TimesType, PlusType
<1>2. e # Zero
  BY <1>1, PlusIsZero
<1>3. /\ Within(x, Times(lo, held), Times(hi, held))
      /\ Within(y, Times(lo, kwh), Times(hi, kwh))
  BY <1>1, TimesWithin
<1>4. Within(Plus(x, y), Times(lo, e), Times(hi, e))
  BY <1>1, <1>3, SplitWithin
<1>5. PICK s \in Fraction : s = Plus(x, y)
  BY PlusType
<1>6. AtMost(lo, Over(s, e)) /\ AtMost(Over(s, e), hi)
  BY <1>2, <1>4, <1>5, OverOrders DEF Within
<1>. QED BY <1>1, <1>5, <1>6 DEF Mixed, Within

LEMMA AppendPriced ==
  ASSUME NEW lots \in Seq(Lot), NEW lot \in Lot, NEW lo, NEW hi,
         Priced(lots, lo, hi), Within(lot.price, lo, hi)
  PROVE  Priced(Append(lots, lot), lo, hi)
<1>1. PICK more \in Seq(Lot) : more = Append(lots, lot)
  BY AppendProperties
<1>2. /\ Len(lots) \in Nat /\ Len(more) = Len(lots) + 1
      /\ more[Len(lots) + 1] = lot /\ \A i \in 1..Len(lots) : more[i] = lots[i]
  BY <1>1, LotsAre, AppendProperties
<1>3. \A i \in 1..Len(more) : i \in 1..Len(lots) \/ i = Len(lots) + 1
  BY <1>2
<1>. QED BY <1>1, <1>2, <1>3 DEF Priced

LEMMA PaddingPriced ==
  ASSUME NEW lots \in Seq(Lot), NEW kwh \in Fraction, NEW price \in Fraction,
         NEW lo, NEW hi, Priced(lots, lo, hi), Within(price, lo, hi)
  PROVE  Priced(Padding(kwh, price) \o lots, lo, hi)
<1>1. PICK lot \in Lot : lot = [kwh |-> kwh, price |-> price] /\ lot.price = price
  <2>1. [kwh |-> kwh, price |-> price] \in Lot
    BY DEF Lot
  <2>2. [kwh |-> kwh, price |-> price].price = price
    OBVIOUS
  <2>. QED BY <2>1, <2>2
<1>2. <<lot>> \in Seq(Lot) /\ Len(<<lot>>) = 1 /\ <<lot>>[1] = lot
  OBVIOUS
<1>3. PICK one \in Seq(Lot) : /\ one = Padding(kwh, price)
                              /\ Len(one) = 1 /\ one[1] = lot
  BY <1>1, <1>2 DEF Padding
<1>4. PICK more \in Seq(Lot) : more = one \o lots
  BY ConcatProperties
<1>5. /\ Len(lots) \in Nat /\ Len(more) = 1 + Len(lots)
      /\ \A i \in 1..(1 + Len(lots)) :
           more[i] = IF i <= 1 THEN one[i] ELSE lots[i - 1]
  <2>1. Len(lots) \in Nat
    BY LotsAre
  <2>2. /\ Len(more) = Len(one) + Len(lots)
        /\ \A i \in 1..(Len(one) + Len(lots)) :
             more[i] = IF i <= Len(one) THEN one[i] ELSE lots[i - Len(one)]
    BY <1>4, ConcatProperties
  <2>. QED BY <1>3, <2>1, <2>2
<1>6. ASSUME NEW i \in 1..Len(more) PROVE Within(more[i].price, lo, hi)
  <2>1. CASE i = 1
    BY <1>1, <1>3, <1>5, <2>1
  <2>2. CASE i # 1
    <3>1. i - 1 \in 1..Len(lots) /\ more[i] = lots[i - 1]
      BY <1>5, <2>2
    <3>. QED BY <3>1 DEF Priced
  <2>. QED BY <2>1, <2>2
<1>. QED BY <1>3, <1>4, <1>6 DEF Priced

LEMMA WithoutPriced ==
  ASSUME NEW lots \in Seq(Lot), NEW taken \in [1..Len(lots) -> Fraction],
         NEW lo, NEW hi, Priced(lots, lo, hi)
  PROVE  /\ Priced(Without(lots, taken), lo, hi)
         /\ lots = <<>> => Without(lots, taken) = <<>>
<1>. DEFINE n == Len(lots)
<1>0. n \in Nat
  BY LotsAre
<1>1. PICK f : Keeps(lots, taken, f) /\ Without(lots, taken) = f[n]
  BY WithoutIs
<1>. DEFINE Q == {i \in 0..n : Priced(f[i], lo, hi)}
<1>2. 0 \in Q
  <2>1. f[0] = <<>> /\ Len(<<>>) = 0
    BY <1>1 DEF Keeps
  <2>. QED BY <1>0, <2>1 DEF Priced
<1>3. ASSUME NEW i \in 1..n, i - 1 \in Q PROVE i \in Q
  <2>1. f[i - 1] \in Seq(Lot) /\ Priced(f[i - 1], lo, hi) /\ i \in 0..n
    BY <1>0, <1>1, <1>3 DEF Keeps
  <2>2. Left(lots, taken, i) \in Lot /\ Within(Left(lots, taken, i).price, lo, hi)
    BY LeftType DEF Priced
  <2>3. f[i] = f[i - 1] \/ f[i] = Append(f[i - 1], Left(lots, taken, i))
    BY <1>1 DEF Keeps
  <2>. QED BY <2>1, <2>2, <2>3, AppendPriced
<1>4. n \in Q
  <2>. HIDE DEF Q
  <2>1. PICK m \in Nat : m = n
    BY <1>0
  <2>2. \A i \in 0..m : i \in Q
    BY <1>2, <1>3, <2>1, Climb
  <2>. QED BY <2>1, <2>2
<1>5. lots = <<>> => f[n] = <<>>
  <2>1. Len(<<>>) = 0
    OBVIOUS
  <2>. QED BY <1>1, <2>1 DEF Keeps
<1>. QED BY <1>1, <1>4, <1>5

LEMMA AnchoredPriced ==
  ASSUME NEW lots \in Seq(Lot), NEW target \in Fraction, NEW pad \in Fraction,
         NEW lo, NEW hi, Priced(lots, lo, hi), Within(pad, lo, hi)
  PROVE  Priced(Anchored(lots, target, pad), lo, hi)
<1>1. PICK held \in Fraction : held = InLots(lots)
  BY InLotsType
<1>2. Minus(held, target) \in Fraction /\ Minus(target, held) \in Fraction
  BY MinusIs
<1>3. PICK taken : taken = Taken(lots, Minus(held, target), Older(lots))
  OBVIOUS
<1>4. taken \in [1..Len(lots) -> Fraction]
  BY <1>2, <1>3, TakenIs
<1>5. \/ Anchored(lots, target, pad) = Without(lots, taken)
      \/ Anchored(lots, target, pad) = lots
      \/ Anchored(lots, target, pad) = Padding(Minus(target, held), pad) \o lots
  BY <1>1, <1>3 DEF Anchored, Padding
<1>. QED BY <1>2, <1>4, <1>5, WithoutPriced, PaddingPriced

\* The pool between two bounds, or before any charge.
Bounded(pool, lo, hi, none) ==
  /\ Priced(pool.lots, lo, hi)
  /\ none => pool.price = Zero /\ pool.kwh = Zero /\ pool.lots = <<>>
  /\ ~none => Within(pool.price, lo, hi)

LEMMA ChargedBounded ==
  ASSUME NEW pool \in Pool, NEW c \in Charge, NEW cap \in Positive,
         NEW lo \in Fraction, NEW hi \in Fraction, NEW none \in BOOLEAN,
         Bounded(pool, lo, hi, none), Within(Price(c), lo, hi)
  PROVE  Bounded(Charged(pool, c, cap), lo, hi, FALSE)
<1>0. /\ pool.kwh \in Fraction /\ pool.price \in Fraction /\ pool.lots \in Seq(Lot)
      /\ <<c.kwh, 1>> \in Fraction /\ <<c.kwh, 1>> # Zero /\ Price(c) \in Fraction
      /\ c.socs[1] \in Socs \cup {Unknown}
  BY ChargeIs DEF Pool
<1>1. PICK b \in Fraction, o \in Fraction, k \in Fraction, q \in Fraction :
        /\ b = Before(pool, c, cap) /\ o = Opening(pool, c)
        /\ k = <<c.kwh, 1>> /\ q = Price(c)
  BY <1>0, ChargedParts
<1>2. Within(Mixed(b, o, k, q), lo, hi)
  <2>1. CASE none /\ c.socs[1] = Unknown
    <3>1. b = Zero /\ o = Zero
      BY <1>1, <2>1 DEF Bounded, Before, Opening
    <3>2. Times(b, o) = Zero
      BY <3>1, TimesType
    <3>3. Times(b, q) = Zero
      <4>1. Times(q, b) = Zero /\ Times(q, b) = Times(b, q)
        BY <3>1, TimesType
      <4>. QED BY <4>1
    <3>4. Mixed(b, o, k, q) = Mixed(b, q, k, q)
      BY <3>2, <3>3 DEF Mixed
    <3>. QED BY <1>0, <1>1, <3>4, MixedWithin
  <2>2. CASE ~(none /\ c.socs[1] = Unknown)
    <3>1. Within(o, lo, hi)
      BY <1>1, <2>2 DEF Bounded, Opening
    <3>. QED BY <1>0, <1>1, <3>1, MixedWithin
  <2>. QED BY <2>1, <2>2
<1>3. Priced(Stack(pool, c, cap), lo, hi)
  <2>1. CASE c.socs[1] = Unknown
    BY <2>1 DEF Stack, Bounded
  <2>2. CASE c.socs[1] # Unknown
    <3>1. Content(c.socs[1], cap) \in Fraction
      BY <1>0, <2>2, ContentType
    <3>. QED BY <1>0, <2>2, <3>1, AnchoredPriced DEF Stack, Bounded
  <2>. QED BY <2>1, <2>2
<1>4. Priced(Stacked(pool, c, cap), lo, hi)
  <2>1. PICK lot \in Lot : /\ lot = [kwh |-> <<c.kwh, 1>>, price |-> Price(c)]
                           /\ lot.price = Price(c)
    <3>1. [kwh |-> <<c.kwh, 1>>, price |-> Price(c)] \in Lot
      BY <1>0 DEF Lot
    <3>2. [kwh |-> <<c.kwh, 1>>, price |-> Price(c)].price = Price(c)
      OBVIOUS
    <3>. QED BY <3>1, <3>2
  <2>2. Priced(Append(Stack(pool, c, cap), lot), lo, hi)
    BY <1>3, <2>1, ChargedParts, AppendPriced
  <2>. QED BY <2>1, <2>2 DEF Stacked
<1>5. Priced(Charged(pool, c, cap).lots, lo, hi)
  <2>1. PICK h \in Fraction : h = After(InLots(Stacked(pool, c, cap)), c, cap)
    BY ChargedParts, InLotsType
  <2>2. Charged(pool, c, cap).lots = Anchored(Stacked(pool, c, cap), h, q)
    BY <1>1, <2>1, ChargedIs
  <2>. QED BY <1>1, <1>4, <2>2, ChargedParts, AnchoredPriced
<1>6. Charged(pool, c, cap).price = Mixed(b, o, k, q)
  BY <1>1, ChargedIs
<1>. QED BY <1>2, <1>5, <1>6 DEF Bounded

LEMMA WithdrawnBounded ==
  ASSUME NEW pool \in Pool, NEW energy \in Fraction, NEW rate \in Fraction,
         NEW lo, NEW hi, NEW none \in BOOLEAN, Bounded(pool, lo, hi, none)
  PROVE  Bounded(Withdrawn(pool, energy, rate), lo, hi, none)
<1>1. /\ pool.lots \in Seq(Lot) /\ pool.kwh \in Fraction
      /\ Gives(pool, energy) \in [1..Len(pool.lots) -> Fraction]
  BY WithdrawnIs DEF Pool
<1>2. /\ Withdrawn(pool, energy, rate).price = pool.price
      /\ Withdrawn(pool, energy, rate).kwh = Minus(pool.kwh, energy)
      /\ Withdrawn(pool, energy, rate).lots = Without(pool.lots, Gives(pool, energy))
  BY WithdrawnIs
<1>3. /\ Priced(Without(pool.lots, Gives(pool, energy)), lo, hi)
      /\ pool.lots = <<>> => Without(pool.lots, Gives(pool, energy)) = <<>>
  BY <1>1, WithoutPriced DEF Bounded
<1>4. Minus(Zero, energy) = Zero
  BY AtMostOrders DEF Minus
<1>. QED BY <1>2, <1>3, <1>4 DEF Bounded

\* What lots between two bounds are worth.
LEMMA WorthWithin ==
  ASSUME NEW pool \in Pool, NEW energy \in Fraction, NEW lo \in Fraction,
         NEW hi \in Fraction, Priced(pool.lots, lo, hi)
  PROVE  Within(FoundWorth(pool, energy), Times(lo, Found(pool, energy)),
                Times(hi, Found(pool, energy)))
<1>. DEFINE n == Len(pool.lots)
<1>1. PICK lots \in Seq(Lot) : lots = pool.lots
  BY DEF Pool
<1>2. PICK taken \in [1..n -> Fraction] : taken = Gives(pool, energy)
  BY WithdrawnIs, ZeroIs
<1>3. PICK worth : worth = Worth(pool, energy)
  OBVIOUS
<1>4. /\ n \in Nat
      /\ \A i \in 1..n :
           /\ taken[i] \in Fraction /\ lots[i].price \in Fraction
           /\ worth[i] = Times(taken[i], lots[i].price) /\ worth[i] \in Fraction
           /\ Within(lots[i].price, lo, hi)
  BY <1>1, <1>2, <1>3, LotsAre, TimesType DEF Worth, Priced
<1>. DEFINE Q == {i \in 0..n : Within(Total(worth, 1..i), Times(lo, Total(taken, 1..i)),
                                      Times(hi, Total(taken, 1..i)))}
<1>5. 0 \in Q
  <2>1. Total(worth, 1..0) = Zero /\ Total(taken, 1..0) = Zero
    <3>1. 1..0 = {}
      OBVIOUS
    <3>. QED BY <3>1, TotalEmpty
  <2>2. Times(lo, Zero) = Zero /\ Times(hi, Zero) = Zero /\ AtMost(Zero, Zero)
    BY TimesType, ZeroIs, AtMostOrders
  <2>. QED BY <1>4, <2>1, <2>2 DEF Within
<1>6. ASSUME NEW i \in 1..n, i - 1 \in Q PROVE i \in Q
  <2>1. /\ i \in 0..n /\ i \in Nat /\ i > 0 /\ i - 1 \in Nat
        /\ \A j \in 1..i : taken[j] \in Fraction /\ worth[j] \in Fraction
        /\ \A j \in 1..(i - 1) : taken[j] \in Fraction /\ worth[j] \in Fraction
    BY <1>4
  <2>2. PICK a \in Fraction, x \in Fraction, b \in Fraction, y \in Fraction :
          /\ a = Total(taken, 1..(i - 1)) /\ x = Total(worth, 1..(i - 1))
          /\ b = taken[i] /\ y = worth[i]
    BY <2>1, TotalUpTo
  <2>3. Total(taken, 1..i) = Plus(a, b) /\ Total(worth, 1..i) = Plus(x, y)
    BY <2>1, <2>2, TotalUpTo
  <2>4. Within(x, Times(lo, a), Times(hi, a))
    BY <1>6, <2>2
  <2>5. Within(y, Times(lo, b), Times(hi, b))
    BY <1>4, <2>2, TimesWithin
  <2>. QED BY <2>1, <2>3, <2>4, <2>5, SplitWithin
<1>7. n \in Q
  <2>. HIDE DEF Q
  <2>1. PICK m \in Nat : m = n
    BY <1>4
  <2>2. \A i \in 0..m : i \in Q
    BY <1>5, <1>6, <2>1, Climb
  <2>. QED BY <2>1, <2>2
<1>. QED BY <1>2, <1>3, <1>7 DEF Found, FoundWorth

\* A figure between two prices.
LEMMA WithdrawnWithin ==
  ASSUME NEW pool \in Pool, NEW energy \in Fraction, NEW rate \in Fraction,
         NEW lo \in Fraction, NEW hi \in Fraction, Priced(pool.lots, lo, hi),
         Within(pool.price, lo, hi), Within(Fallback(pool, rate), lo, hi)
  PROVE  /\ Within(Withdrawn(pool, energy, rate).cost, Times(lo, energy), Times(hi, energy))
         /\ Within(Withdrawn(pool, energy, rate).lifo, Times(lo, energy), Times(hi, energy))
<1>0. pool.kwh \in Fraction /\ pool.price \in Fraction /\ pool.lots \in Seq(Lot)
  BY DEF Pool
<1>1. PICK g \in Fraction : g = Fallback(pool, rate)
  BY WithdrawnIs
<1>2. Within(Withdrawn(pool, energy, rate).cost, Times(lo, energy), Times(hi, energy))
  <2>1. PICK a \in Fraction, b \in Fraction :
          a = Lesser(energy, pool.kwh) /\ b = Minus(energy, pool.kwh)
    BY <1>0, LesserIs, MinusIs
  <2>2. Plus(a, b) = energy
    BY <1>0, <2>1, MinusIs
  <2>3. PICK x \in Fraction, y \in Fraction :
          x = Times(a, pool.price) /\ y = Times(b, g)
    BY <1>0, TimesType
  <2>4. /\ Within(x, Times(lo, a), Times(hi, a))
        /\ Within(y, Times(lo, b), Times(hi, b))
    BY <1>0, <1>1, <2>3, TimesWithin
  <2>5. Within(Plus(x, y), Times(lo, energy), Times(hi, energy))
    BY <2>2, <2>4, SplitWithin
  <2>6. Withdrawn(pool, energy, rate).cost = Plus(x, y)
    <3>1. Withdrawn(pool, energy, rate).cost
            = Plus(Times(Lesser(energy, pool.kwh), pool.price),
                   Times(Minus(energy, pool.kwh), Fallback(pool, rate)))
      BY WithdrawnIs
    <3>. QED BY <1>1, <2>1, <2>3, <3>1
  <2>. QED BY <2>5, <2>6
<1>3. Within(Withdrawn(pool, energy, rate).lifo, Times(lo, energy), Times(hi, energy))
  <2>1. PICK a \in Fraction, x \in Fraction :
          a = Found(pool, energy) /\ x = FoundWorth(pool, energy)
    BY WithdrawnIs
  <2>2. PICK b \in Fraction : b = Minus(energy, a)
    BY MinusIs
  <2>3. PICK held \in Fraction : held = InLots(pool.lots)
    BY <1>0, InLotsType
  <2>4. a = Lesser(energy, held)
    BY <1>0, <2>1, <2>3, TakenNewer DEF Found, Gives
  <2>5. Plus(a, b) = energy
    BY <2>2, <2>4, LesserIs, MinusIs
  <2>6. PICK y \in Fraction : y = Times(b, g)
    BY TimesType
  <2>7. Within(x, Times(lo, a), Times(hi, a))
    BY <2>1, WorthWithin
  <2>8. Within(y, Times(lo, b), Times(hi, b))
    BY <1>1, <2>6, TimesWithin
  <2>9. Within(Plus(x, y), Times(lo, energy), Times(hi, energy))
    BY <2>5, <2>7, <2>8, SplitWithin
  <2>10. Withdrawn(pool, energy, rate).lifo = Plus(x, y)
    BY <1>1, <2>1, <2>2, <2>6, WithdrawnIs
  <2>. QED BY <2>9, <2>10
<1>. QED BY <1>2, <1>3

\* Before any charge a trip costs the tariff.
LEMMA WithdrawnUncharged ==
  ASSUME NEW pool \in Pool, NEW energy \in Fraction, NEW rate \in Fraction,
         pool.price = Zero, pool.kwh = Zero, pool.lots = <<>>
  PROVE  /\ Withdrawn(pool, energy, rate).cost = Times(rate, energy)
         /\ Withdrawn(pool, energy, rate).lifo = Times(rate, energy)
<1>1. Fallback(pool, rate) = rate
  BY DEF Fallback
<1>2. Len(pool.lots) = 0 /\ 1..0 = {}
  OBVIOUS
<1>3. Found(pool, energy) = Zero /\ FoundWorth(pool, energy) = Zero
  BY <1>2, TotalEmpty DEF Found, FoundWorth
<1>4. Minus(energy, Zero) = energy /\ Lesser(energy, Zero) = Zero
  <2>1. PICK n \in Nat, d \in Positive : energy = Frac(n, d)
    BY DEF Fraction
  <2>2. Zero = Frac(0, d) /\ n - 0 = n
    BY ZeroIs
  <2>3. Minus(energy, Zero) = energy
    BY <2>1, <2>2, MinusOver
  <2>. QED BY <2>3, AtMostOrders, ZeroIs DEF Lesser
<1>5. Times(Zero, Zero) = Zero /\ Times(energy, rate) = Times(rate, energy)
      /\ Times(energy, rate) \in Fraction
  BY TimesType, ZeroIs
<1>6. Plus(Zero, Times(energy, rate)) = Times(energy, rate)
  BY <1>5, PlusZero
<1>7. Withdrawn(pool, energy, rate).cost
        = Plus(Times(Lesser(energy, Zero), Zero), Times(Minus(energy, Zero), rate))
  <2>1. Withdrawn(pool, energy, rate).cost
          = Plus(Times(Lesser(energy, pool.kwh), pool.price),
                 Times(Minus(energy, pool.kwh), Fallback(pool, rate)))
    BY WithdrawnIs
  <2>. QED BY <1>1, <2>1
<1>8. Withdrawn(pool, energy, rate).lifo
        = Plus(Zero, Times(Minus(energy, Zero), rate))
  BY <1>1, <1>3, WithdrawnIs
<1>. QED BY <1>4, <1>5, <1>6, <1>7, <1>8

NoneBy(ch, n) == \A s \in 1..n : ch[s] = Absent

\* The pool a trip at n draws from.
LEMMA PoolBounded ==
  ASSUME NEW ch \in ChargeTables, NEW tr \in TripTables, NEW cap \in Positive,
         NEW rate \in Fraction, NEW n \in Instants, NEW lo \in Fraction,
         NEW hi \in Fraction,
         \A s \in 1..n : ch[s] # Absent => Within(Price(ch[s]), lo, hi)
  PROVE  \E full \in Pool :
           /\ Bounded(full, lo, hi, NoneBy(ch, n))
           /\ PoolAt(ch, tr, cap, rate)[n]
                = IF HasEnergy(tr[n]) THEN Withdrawn(full, tr[n].energy, rate) ELSE full
<1>1. PICK f : f = PoolAt(ch, tr, cap, rate) /\ Pools(ch, tr, cap, rate, f)
  BY PoolAtIs
<1>2. n \in Nat /\ MaxTime \in Nat /\ n >= 1 /\ n <= MaxTime
  BY ConstantsAssumption DEF Instants
<1>. DEFINE Full(t) == IF ch[t] = Absent THEN f[t - 1] ELSE Charged(f[t - 1], ch[t], cap)
<1>3. ASSUME NEW t \in 1..n, Bounded(f[t - 1], lo, hi, NoneBy(ch, t - 1))
      PROVE  /\ Full(t) \in Pool /\ Bounded(Full(t), lo, hi, NoneBy(ch, t))
             /\ tr[t] \in Row \cup {Absent}
             /\ f[t] = IF HasEnergy(tr[t]) THEN Withdrawn(Full(t), tr[t].energy, rate)
                       ELSE Full(t)
  <2>1. t \in 1..MaxTime /\ t \in Instants /\ t - 1 \in 0..MaxTime
    BY <1>2 DEF Instants
  <2>2. PICK p \in Pool : p = f[t - 1]
    BY <1>1, <2>1 DEF Pools
  <2>3. ch[t] \in Charge \cup {Absent} /\ tr[t] \in Row \cup {Absent}
    BY <2>1 DEF ChargeTables, TripTables
  <2>4. f[t] = IF HasEnergy(tr[t]) THEN Withdrawn(Full(t), tr[t].energy, rate)
               ELSE Full(t)
    BY <1>1, <2>1 DEF Pools, PoolStep
  <2>5. 1..t = (1..(t - 1)) \cup {t}
    BY <1>2
  <2>6. CASE ch[t] = Absent
    <3>1. NoneBy(ch, t) <=> NoneBy(ch, t - 1)
      BY <2>5, <2>6 DEF NoneBy
    <3>2. Full(t) = p
      BY <2>2, <2>6
    <3>. QED BY <1>3, <2>2, <2>3, <2>4, <3>1, <3>2 DEF Bounded
  <2>7. CASE ch[t] # Absent
    <3>1. ~NoneBy(ch, t)
      BY <1>2, <2>7 DEF NoneBy
    <3>2. PICK c \in Charge : c = ch[t] /\ Within(Price(c), lo, hi)
      BY <2>3, <2>7
    <3>3. PICK none \in BOOLEAN : none = NoneBy(ch, t - 1)
      BY DEF NoneBy
    <3>4. Bounded(p, lo, hi, none)
      BY <1>3, <2>2, <3>3
    <3>5. Bounded(Charged(p, c, cap), lo, hi, FALSE) /\ Charged(p, c, cap) \in Pool
      BY <3>2, <3>4, ChargedBounded, ChargedIs
    <3>6. Full(t) = Charged(p, c, cap)
      BY <2>2, <2>7, <3>2
    <3>. QED BY <2>3, <2>4, <3>1, <3>5, <3>6 DEF Bounded
  <2>. QED BY <2>6, <2>7
<1>. DEFINE Q == {t \in 0..n : Bounded(f[t], lo, hi, NoneBy(ch, t))}
<1>4. 0 \in Q
  <2>1. f[0] = EmptyPool /\ NoneBy(ch, 0)
    BY <1>1 DEF Pools, NoneBy
  <2>2. Len(<<>>) = 0
    OBVIOUS
  <2>. QED BY <1>2, <2>1, <2>2 DEF Bounded, Priced, EmptyPool
<1>5. ASSUME NEW t \in 1..n, t - 1 \in Q PROVE t \in Q
  <2>1. Bounded(f[t - 1], lo, hi, NoneBy(ch, t - 1))
    BY <1>5
  <2>2. PICK full \in Pool, none \in BOOLEAN :
          /\ full = Full(t) /\ none = NoneBy(ch, t) /\ Bounded(full, lo, hi, none)
          /\ tr[t] \in Row \cup {Absent}
          /\ f[t] = IF HasEnergy(tr[t]) THEN Withdrawn(full, tr[t].energy, rate) ELSE full
    <3>. HIDE DEF Full
    <3>1. NoneBy(ch, t) \in BOOLEAN
      BY DEF NoneBy
    <3>. QED BY <1>3, <2>1, <3>1
  <2>3. HasEnergy(tr[t]) => tr[t].energy \in Fraction
    BY <2>2, RowIs
  <2>4. Bounded(f[t], lo, hi, none)
    BY <2>2, <2>3, WithdrawnBounded
  <2>. QED BY <1>2, <2>2, <2>4
<1>6. n - 1 \in Q
  <2>. HIDE DEF Q
  <2>1. \A t \in 0..n : t \in Q
    BY <1>2, <1>4, <1>5, Climb
  <2>. QED BY <1>2, <2>1
<1>7. Bounded(f[n - 1], lo, hi, NoneBy(ch, n - 1)) /\ n \in 1..n
  BY <1>2, <1>6
<1>8. PICK full \in Pool :
        /\ Bounded(full, lo, hi, NoneBy(ch, n))
        /\ f[n] = IF HasEnergy(tr[n]) THEN Withdrawn(full, tr[n].energy, rate) ELSE full
  <2>. HIDE DEF Full
  <2>. QED BY <1>3, <1>7
<1>. QED BY <1>1, <1>8

\* The cheapest and the dearest charge there was by n.
LEMMA Extremes ==
  ASSUME NEW ch \in ChargeTables, NEW n \in Instants, ~NoneBy(ch, n)
  PROVE  \E a, b \in 1..n :
           /\ ch[a] # Absent /\ ch[b] # Absent
           /\ \A s \in 1..n :
                ch[s] # Absent => Within(Price(ch[s]), Price(ch[a]), Price(ch[b]))
<1>. DEFINE Has(t) == \E a, b \in 1..t :
                        /\ ch[a] # Absent /\ ch[b] # Absent
                        /\ \A s \in 1..t : ch[s] # Absent =>
                             Within(Price(ch[s]), Price(ch[a]), Price(ch[b]))
            Q == {t \in 0..n : NoneBy(ch, t) \/ Has(t)}
<1>1. n \in Nat /\ \A t \in 1..n : t \in Instants
  BY ConstantsAssumption DEF Instants
<1>2. \A t \in 1..n : ch[t] # Absent => Price(ch[t]) \in Fraction
  BY <1>1, ChargeIs DEF ChargeTables
<1>3. 0 \in Q
  BY <1>1 DEF NoneBy
<1>4. ASSUME NEW t \in 1..n, t - 1 \in Q PROVE t \in Q
  <2>0. t \in 0..n /\ 1..t = (1..(t - 1)) \cup {t} /\ 1..t \subseteq 1..n /\ t \in 1..t
    BY <1>1
  <2>1. CASE ch[t] = Absent
    BY <1>4, <2>0, <2>1 DEF NoneBy
  <2>2. CASE ch[t] # Absent /\ NoneBy(ch, t - 1)
    <3>1. \A s \in 1..t : ch[s] # Absent => s = t
      BY <2>0, <2>2 DEF NoneBy
    <3>2. Within(Price(ch[t]), Price(ch[t]), Price(ch[t]))
      BY <1>2, <2>2, AtMostOrders DEF Within
    <3>3. Has(t)
      BY <2>0, <2>2, <3>1, <3>2
    <3>. QED BY <2>0, <3>3
  <2>3. CASE ch[t] # Absent /\ Has(t - 1)
    <3>1. PICK a \in 1..(t - 1), b \in 1..(t - 1) :
            /\ ch[a] # Absent /\ ch[b] # Absent
            /\ \A s \in 1..(t - 1) :
                 ch[s] # Absent => Within(Price(ch[s]), Price(ch[a]), Price(ch[b]))
      BY <2>3
    <3>2. a \in 1..t /\ b \in 1..t /\ a \in 1..n /\ b \in 1..n
      BY <2>0
    <3>3. PICK x \in Fraction, y \in Fraction, z \in Fraction :
            x = Price(ch[a]) /\ y = Price(ch[b]) /\ z = Price(ch[t])
      BY <1>2, <2>3, <3>1, <3>2
    <3>4. PICK c \in 1..t : /\ ch[c] # Absent /\ Price(ch[c]) = Lesser(x, z)
      BY <2>0, <2>3, <3>1, <3>2, <3>3 DEF Lesser
    <3>5. PICK d \in 1..t : /\ ch[d] # Absent /\ AtMost(y, Price(ch[d]))
                            /\ AtMost(z, Price(ch[d]))
      BY <2>0, <2>3, <3>1, <3>2, <3>3, AtMostOrders
    <3>6. PICK u \in Fraction, v \in Fraction : u = Price(ch[c]) /\ v = Price(ch[d])
      BY <1>2, <2>0, <3>4, <3>5
    <3>7. AtMost(u, x) /\ AtMost(u, z) /\ AtMost(y, v) /\ AtMost(z, v)
      BY <3>4, <3>5, <3>6, LesserIs
    <3>8. ASSUME NEW s \in 1..t, ch[s] # Absent
          PROVE  Within(Price(ch[s]), u, v)
      <4>1. PICK w \in Fraction : w = Price(ch[s])
        BY <1>2, <2>0, <3>8
      <4>2. CASE s = t
        BY <3>3, <3>7, <4>2 DEF Within
      <4>3. CASE s # t
        <5>1. AtMost(x, w) /\ AtMost(w, y)
          BY <2>0, <3>1, <3>3, <3>8, <4>1, <4>3 DEF Within
        <5>. QED BY <3>7, <4>1, <5>1, AtMostTransitive DEF Within
      <4>. QED BY <4>2, <4>3
    <3>9. Has(t)
      BY <3>4, <3>5, <3>6, <3>8
    <3>. QED BY <2>0, <3>9
  <2>. QED BY <1>4, <2>1, <2>2, <2>3
<1>5. n \in Q
  <2>. HIDE DEF Q
  <2>1. \A t \in 0..n : t \in Q
    BY <1>1, <1>3, <1>4, Climb
  <2>. QED BY <1>1, <2>1
<1>. QED BY <1>5

LEMMA SettledPriced ==
  ASSUME Typed, FixedPoint, settled, NEW t \in Held(trips), HasEnergy(trips[t])
  PROVE  /\ WithinPrices(trips[t].lifo, trips[t].energy, PricesBefore(t))
         /\ ~trips[t].costLocked =>
              WithinPrices(trips[t].cost, trips[t].energy, PricesBefore(t))
<1>0. /\ charges \in ChargeTables /\ trips \in TripTables /\ hint \in Positive
      /\ tariff \in Positive /\ t \in Instants
      /\ trips = Replayed(charges, trips, hint, tariff)
  BY DEF Typed, FixedPoint, Held
<1>1. Ready(trips) = trips
  BY <1>0, ReplayedClean, CleanReady
<1>2. PICK rate \in Fraction, e \in Fraction, r \in Row :
        rate = <<tariff, 1>> /\ e = trips[t].energy /\ r = trips[t]
  <2>1. <<tariff, 1>> \in Fraction
    BY <1>0, ReplayedIs
  <2>2. trips[t] \in Row /\ trips[t].energy \in Fraction
    BY <1>0, RowIs DEF TripTables
  <2>. QED BY <2>1, <2>2
<1>3. PICK p : p = PoolAt(charges, trips, hint, rate)[t]
  OBVIOUS
<1>4. r = Written(r, p)
  <2>1. Replayed(charges, trips, hint, tariff)[t]
          = IF HasEnergy(trips[t])
            THEN Written(trips[t], PoolAt(charges, trips, hint, <<tariff, 1>>)[t])
            ELSE trips[t]
    BY <1>0, <1>1, ReplayedIs
  <2>. QED BY <1>0, <1>2, <1>3, <2>1
<1>5. r.lifo = p.lifo /\ (~r.costLocked => r.cost = p.cost)
  BY <1>4, WrittenKeeps
<1>. DEFINE paid == {Price(charges[s]) : s \in Held(charges) \cap 1..t}
<1>6. PricesBefore(t) = IF paid = {} \/ Zero \in paid THEN paid \cup {rate} ELSE paid
  BY <1>2 DEF PricesBefore
<1>7. ASSUME NEW lo \in PricesBefore(t), NEW hi \in PricesBefore(t),
             Within(p.cost, Times(lo, e), Times(hi, e)),
             Within(p.lifo, Times(lo, e), Times(hi, e))
      PROVE  /\ WithinPrices(r.lifo, e, PricesBefore(t))
             /\ ~r.costLocked => WithinPrices(r.cost, e, PricesBefore(t))
  BY <1>5, <1>7 DEF WithinPrices, Within
<1>8. \A s \in 1..t : s \in Instants
  BY <1>0, ConstantsAssumption DEF Instants
<1>9. CASE NoneBy(charges, t)
  <2>1. paid = {}
    BY <1>9 DEF NoneBy, Held
  <2>2. rate \in PricesBefore(t)
    BY <1>6, <2>1
  <2>3. PICK full \in Pool :
          /\ Bounded(full, Zero, Zero, NoneBy(charges, t))
          /\ p = IF HasEnergy(trips[t]) THEN Withdrawn(full, trips[t].energy, rate) ELSE full
    <3>1. \A s \in 1..t : charges[s] # Absent => Within(Price(charges[s]), Zero, Zero)
      BY <1>9 DEF NoneBy
    <3>2. PICK z \in Fraction : z = Zero
      BY ZeroIs
    <3>3. \A s \in 1..t : charges[s] # Absent => Within(Price(charges[s]), z, z)
      BY <3>1, <3>2
    <3>4. PICK full \in Pool :
            /\ Bounded(full, z, z, NoneBy(charges, t))
            /\ p = IF HasEnergy(trips[t]) THEN Withdrawn(full, trips[t].energy, rate) ELSE full
      BY <1>0, <1>3, <3>3, PoolBounded
    <3>. QED BY <1>3, <3>2, <3>4
  <2>4. full.price = Zero /\ full.kwh = Zero /\ full.lots = <<>>
    BY <1>9, <2>3 DEF Bounded
  <2>5. p.cost = Times(rate, e) /\ p.lifo = Times(rate, e)
    BY <1>2, <2>3, <2>4, WithdrawnUncharged
  <2>6. AtMost(Times(rate, e), Times(rate, e))
    BY TimesType, AtMostOrders
  <2>. QED BY <1>2, <1>7, <2>2, <2>5, <2>6 DEF Within
<1>10. CASE ~NoneBy(charges, t)
  <2>1. PICK a \in 1..t, b \in 1..t :
          /\ charges[a] # Absent /\ charges[b] # Absent
          /\ \A s \in 1..t : charges[s] # Absent =>
               Within(Price(charges[s]), Price(charges[a]), Price(charges[b]))
    BY <1>0, <1>10, Extremes
  <2>2. PICK lo \in Fraction, hi \in Fraction :
          lo = Price(charges[a]) /\ hi = Price(charges[b])
    BY <1>0, <1>8, <2>1, ChargeIs DEF ChargeTables
  <2>3. lo \in paid /\ hi \in paid
    BY <1>8, <2>1, <2>2 DEF Held
  <2>4. PICK full \in Pool :
          /\ Bounded(full, lo, hi, NoneBy(charges, t))
          /\ p = IF HasEnergy(trips[t]) THEN Withdrawn(full, trips[t].energy, rate) ELSE full
    BY <1>0, <1>3, <2>1, <2>2, PoolBounded
  <2>5. p = Withdrawn(full, e, rate)
    BY <1>2, <2>4
  <2>6. Priced(full.lots, lo, hi) /\ Within(full.price, lo, hi) /\ full.price \in Fraction
    BY <1>10, <2>4 DEF Bounded, Pool
  <2>7. CASE full.price # Zero
    <3>1. Within(Fallback(full, rate), lo, hi)
      BY <2>6, <2>7 DEF Fallback
    <3>2. /\ Within(p.cost, Times(lo, e), Times(hi, e))
          /\ Within(p.lifo, Times(lo, e), Times(hi, e))
      BY <2>5, <2>6, <3>1, WithdrawnWithin
    <3>3. lo \in PricesBefore(t) /\ hi \in PricesBefore(t)
      BY <1>6, <2>3
    <3>. QED BY <1>2, <1>7, <3>2, <3>3
  <2>8. CASE full.price = Zero
    <3>1. lo = Zero
      BY <2>6, <2>8, AtMostOrders DEF Within
    <3>2. PricesBefore(t) = paid \cup {rate}
      BY <1>6, <2>3, <3>1
    <3>3. PICK top \in {hi, rate} : AtMost(hi, top) /\ AtMost(rate, top)
      BY AtMostOrders
    <3>4. top \in Fraction
      OBVIOUS
    <3>5. \A x \in Fraction : Within(x, lo, hi) => Within(x, lo, top)
      BY <3>3, <3>4, AtMostTransitive DEF Within
    <3>6. /\ Within(full.price, lo, top) /\ Within(rate, lo, top)
          /\ Fallback(full, rate) = rate
      BY <2>6, <2>8, <3>1, <3>3, <3>5, AtMostOrders DEF Within, Fallback
    <3>7. Priced(full.lots, lo, top)
      BY <2>6, <3>5, LotsAre DEF Priced, Pool
    <3>8. /\ Within(p.cost, Times(lo, e), Times(top, e))
          /\ Within(p.lifo, Times(lo, e), Times(top, e))
      BY <2>5, <3>4, <3>6, <3>7, WithdrawnWithin
    <3>9. lo \in PricesBefore(t) /\ top \in PricesBefore(t)
      BY <2>3, <3>2
    <3>. QED BY <1>2, <1>7, <3>8, <3>9
  <2>. QED BY <2>7, <2>8
<1>. QED BY <1>9, <1>10

(***************************************************************************)
(* Whatever is charged, driven, corrected and re-anchored, a priced trip   *)
(* costs between the cheapest and the dearest kWh that was charged before  *)
(* it, by the blend and by the lots; the tariff prices it only where       *)
(* nothing was charged, or where what was charged was free.                *)
(***************************************************************************)
THEOREM PricedWithin == Spec => []PricedWithinCharges
<1>1. Spec => [](Typed /\ FixedPoint)
  BY TypedInit, TypedNext, FixedPointInit, FixedPointNext, PTL DEF Spec
<1>2. Typed /\ FixedPoint => PricedWithinCharges
  BY SettledPriced DEF PricedWithinCharges
<1>. QED BY <1>1, <1>2, PTL
=============================================================================
