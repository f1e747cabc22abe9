------------------------------ MODULE FiniteSums ------------------------------
(***************************************************************************)
(* Least elements, and the sum of a function over a finite set, which the  *)
(* models take from the community modules: it is there, it is a number,    *)
(* and any element may be taken out of it.                                 *)
(*                                                                         *)
(* Each fact about sums holds for all subsets of a finite set because      *)
(* there is no least subset for which it does not.                         *)
(***************************************************************************)
EXTENDS Integers, FiniteSets, Functions, NaturalsInduction, FiniteSetTheorems,
        TLAPS

LEMMA LeastNat ==
  ASSUME NEW T, T \subseteq Nat, T # {}
  PROVE  \E x \in T : \A y \in T : x <= y
<1>. DEFINE Less == OpToRel(<, Nat)
<1>1. \A x, y \in Nat : x < y => <<x, y>> \in Less
  BY DEF OpToRel
<1>2. IsWellFoundedOn(Less, Nat)
  BY NatLessThanWellFounded
<1>. HIDE DEF Less
<1>3. PICK x \in T : \A y \in T : ~(<<y, x>> \in Less)
  BY <1>2, WFMin
<1>4. \A y \in T : ~(y < x)
  BY <1>1, <1>3
<1>. QED BY <1>4

\* Of the subsets of a finite set with some property, one holds no other.
LEMMA LeastSet ==
  ASSUME NEW S, IsFiniteSet(S), NEW Bad, Bad \subseteq SUBSET S, Bad # {}
  PROVE  \E T \in Bad : \A U \in SUBSET T : U = T \/ U \notin Bad
<1>. DEFINE Sizes == {Cardinality(T) : T \in Bad}
<1>1. \A T \in Bad : IsFiniteSet(T) /\ Cardinality(T) \in Nat
  BY FS_Subset, FS_CardinalityType
<1>2. PICK n \in Sizes : \A m \in Sizes : n <= m
  <2>1. Sizes \subseteq Nat /\ Sizes # {}
    BY <1>1
  <2>. HIDE DEF Sizes
  <2>. QED BY <2>1, LeastNat
<1>3. PICK T \in Bad : n = Cardinality(T)
  BY <1>2
<1>4. ASSUME NEW U \in SUBSET T, U # T, U \in Bad
      PROVE  FALSE
  <2>1. Cardinality(U) <= Cardinality(T) /\ Cardinality(T) # Cardinality(U)
    BY <1>1, <1>4, FS_Subset
  <2>2. Cardinality(T) <= Cardinality(U)
    BY <1>2, <1>3, <1>4
  <2>. QED BY <1>1, <1>4, <2>1, <2>2
<1>. QED BY <1>4
-----------------------------------------------------------------------------
(* The sums of w over the subsets of S, as the library defines them.       *)
Partial(w, S, g) ==
  g = [s \in SUBSET S |->
         IF s = {} THEN 0
         ELSE w[CHOOSE x \in s : TRUE] + g[s \ {CHOOSE x \in s : TRUE}]]

LEMMA SumPartial ==
  ASSUME NEW w, NEW S
  PROVE  SumFunctionOnSet(w, S) = (CHOOSE g : Partial(w, S, g))[S]
BY DEF SumFunctionOnSet, FoldFunctionOnSet, MapThenFoldSet, Partial

\* The first sums, over the subsets with at most n elements.
Level(w, S, n, g) ==
  LET small == {s \in SUBSET S : Cardinality(s) <= n}
  IN g = [s \in small |->
            IF s = {} THEN 0
            ELSE w[CHOOSE x \in s : TRUE] + g[s \ {CHOOSE x \in s : TRUE}]]

LEMMA LevelExists ==
  ASSUME NEW w, NEW S, IsFiniteSet(S), NEW n \in Nat
  PROVE  \E g : Level(w, S, n, g)
<1>. DEFINE Bad == {m \in Nat : ~ \E g : Level(w, S, m, g)}
<1>. SUFFICES ASSUME Bad # {} PROVE FALSE
  OBVIOUS
<1>1. PICK m \in Bad : \A k \in Bad : m <= k
  BY LeastNat
<1>2. \A s \in SUBSET S : IsFiniteSet(s) /\ Cardinality(s) \in Nat
  BY FS_Subset, FS_CardinalityType
<1>3. \A s \in SUBSET S : s # {} =>
        /\ (CHOOSE x \in s : TRUE) \in s
        /\ s \ {CHOOSE x \in s : TRUE} \in SUBSET S
        /\ Cardinality(s \ {CHOOSE x \in s : TRUE}) = Cardinality(s) - 1
  BY <1>2, FS_RemoveElement
<1>4. CASE m = 0
  <2>. DEFINE g == [s \in {s \in SUBSET S : Cardinality(s) <= 0} |-> 0]
  <2>1. \A s \in SUBSET S : Cardinality(s) <= 0 => s = {}
    BY <1>2, FS_EmptySet
  <2>2. Level(w, S, 0, g)
    BY <2>1 DEF Level
  <2>. HIDE DEF g
  <2>. QED BY <1>4, <2>2
<1>5. CASE m # 0
  <2>0. m - 1 \in Nat /\ m - 1 < m
    BY <1>5
  <2>1. PICK f : Level(w, S, m - 1, f)
    BY <1>1, <2>0
  <2>. DEFINE small == {s \in SUBSET S : Cardinality(s) <= m}
              smaller == {s \in SUBSET S : Cardinality(s) <= m - 1}
              rest(s) == s \ {CHOOSE x \in s : TRUE}
              g == [s \in small |->
                      IF s = {} THEN 0 ELSE w[CHOOSE x \in s : TRUE] + f[rest(s)]]
  <2>2. \A s \in small : s # {} => rest(s) \in smaller
    BY <1>2, <1>3
  <2>3. smaller \subseteq small
    BY <1>2, <2>0
  <2>4. f = [s \in smaller |->
               IF s = {} THEN 0 ELSE w[CHOOSE x \in s : TRUE] + f[rest(s)]]
    BY <2>1 DEF Level
  <2>. HIDE DEF small, smaller, rest
  <2>5. \A s \in smaller :
          f[s] = IF s = {} THEN 0 ELSE w[CHOOSE x \in s : TRUE] + f[rest(s)]
    BY <2>4
  <2>6. \A s \in smaller : g[s] = f[s]
    BY <2>3, <2>5
  <2>7. g = [s \in small |->
               IF s = {} THEN 0 ELSE w[CHOOSE x \in s : TRUE] + g[rest(s)]]
    BY <2>2, <2>6
  <2>. HIDE DEF g
  <2>8. Level(w, S, m, g)
    BY <2>7 DEF Level, small, rest
  <2>. QED BY <2>8
<1>. QED BY <1>4, <1>5

LEMMA PartialExists ==
  ASSUME NEW w, NEW S, IsFiniteSet(S)
  PROVE  \E g : Partial(w, S, g)
<1>1. Cardinality(S) \in Nat /\ \A s \in SUBSET S : Cardinality(s) <= Cardinality(S)
  BY FS_Subset, FS_CardinalityType
<1>2. PICK g : Level(w, S, Cardinality(S), g)
  BY <1>1, LevelExists
<1>3. {s \in SUBSET S : Cardinality(s) <= Cardinality(S)} = SUBSET S
  BY <1>1
<1>4. Partial(w, S, g)
  BY <1>2, <1>3 DEF Partial, Level
<1>. QED BY <1>4

\* What the sum over a subset is does not depend on the set around it.
LEMMA PartialUnique ==
  ASSUME NEW w, NEW S, IsFiniteSet(S), NEW T \in SUBSET S,
         NEW g, Partial(w, S, g), NEW h, Partial(w, T, h)
  PROVE  \A s \in SUBSET T : g[s] = h[s]
<1>. DEFINE Bad == {s \in SUBSET T : g[s] # h[s]}
<1>. SUFFICES ASSUME Bad # {} PROVE FALSE
  OBVIOUS
<1>1. IsFiniteSet(T)
  BY FS_Subset
<1>2. PICK s \in Bad : \A u \in SUBSET s : u = s \/ u \notin Bad
  <2>1. Bad \subseteq SUBSET T
    OBVIOUS
  <2>. HIDE DEF Bad
  <2>. QED BY <1>1, <2>1, LeastSet
<1>. DEFINE x == CHOOSE x \in s : TRUE
<1>3. /\ g[s] = IF s = {} THEN 0 ELSE w[x] + g[s \ {x}]
      /\ h[s] = IF s = {} THEN 0 ELSE w[x] + h[s \ {x}]
  BY DEF Partial
<1>4. s # {} => x \in s
  OBVIOUS
<1>. HIDE DEF x
<1>5. s # {} => g[s \ {x}] = h[s \ {x}]
  BY <1>2, <1>4
<1>. QED BY <1>3, <1>5

LEMMA SumEmpty ==
  ASSUME NEW w
  PROVE  SumFunctionOnSet(w, {}) = 0
<1>1. PICK g : Partial(w, {}, g)
  BY PartialExists, FS_EmptySet
<1>2. Partial(w, {}, CHOOSE f : Partial(w, {}, f))
  BY <1>1
<1>3. \A f : Partial(w, {}, f) => f[{}] = 0
  BY DEF Partial
<1>. QED BY <1>2, <1>3, SumPartial

\* The sum takes the elements in an order of its own.
LEMMA SumStep ==
  ASSUME NEW w, NEW S, IsFiniteSet(S), S # {}
  PROVE  SumFunctionOnSet(w, S)
           = w[CHOOSE x \in S : TRUE] + SumFunctionOnSet(w, S \ {CHOOSE x \in S : TRUE})
<1>1. PICK x : x = CHOOSE y \in S : TRUE
  OBVIOUS
<1>2. x \in S
  BY <1>1
<1>. DEFINE T == S \ {x}
<1>3. IsFiniteSet(T) /\ T \in SUBSET S
  BY FS_Subset
<1>4. PICK g : g = CHOOSE f : Partial(w, S, f)
  OBVIOUS
<1>5. PICK h : h = CHOOSE f : Partial(w, T, f)
  OBVIOUS
<1>6. Partial(w, S, g)
  BY <1>4, PartialExists
<1>7. Partial(w, T, h)
  <2>. HIDE DEF T
  <2>. QED BY <1>3, <1>5, PartialExists
<1>8. SumFunctionOnSet(w, S) = g[S] /\ SumFunctionOnSet(w, T) = h[T]
  BY <1>4, <1>5, SumPartial
<1>9. g[S] = w[x] + g[T]
  BY <1>1, <1>6 DEF Partial
<1>10. g[T] = h[T]
  <2>. HIDE DEF T
  <2>. QED BY <1>3, <1>6, <1>7, PartialUnique
<1>. QED BY <1>1, <1>8, <1>9, <1>10

\* Integers have an integer sum.
LEMMA SumInt ==
  ASSUME NEW w, NEW S, IsFiniteSet(S), \A x \in S : w[x] \in Int
  PROVE  SumFunctionOnSet(w, S) \in Int
<1>. DEFINE Bad == {T \in SUBSET S : SumFunctionOnSet(w, T) \notin Int}
<1>. SUFFICES ASSUME Bad # {} PROVE FALSE
  OBVIOUS
<1>1. PICK T \in Bad : \A U \in SUBSET T : U = T \/ U \notin Bad
  <2>1. Bad \subseteq SUBSET S
    OBVIOUS
  <2>. HIDE DEF Bad
  <2>. QED BY <2>1, LeastSet
<1>2. IsFiniteSet(T) /\ T # {}
  <2>1. T \in SUBSET S
    OBVIOUS
  <2>2. IsFiniteSet(T)
    BY <2>1, FS_Subset
  <2>3. T # {}
    BY SumEmpty
  <2>. QED BY <2>2, <2>3
<1>3. PICK x \in T : SumFunctionOnSet(w, T) = w[x] + SumFunctionOnSet(w, T \ {x})
  BY <1>2, SumStep
<1>4. SumFunctionOnSet(w, T \ {x}) \in Int
  BY <1>1
<1>. QED BY <1>3, <1>4

\* Any element may be taken out first.
LEMMA SumTakes ==
  ASSUME NEW w, NEW S, IsFiniteSet(S), \A x \in S : w[x] \in Int, NEW a \in S
  PROVE  SumFunctionOnSet(w, S) = w[a] + SumFunctionOnSet(w, S \ {a})
<1>. DEFINE Bad == {T \in SUBSET S : \E x \in T :
                      SumFunctionOnSet(w, T) # w[x] + SumFunctionOnSet(w, T \ {x})}
<1>. SUFFICES ASSUME Bad # {} PROVE FALSE
  OBVIOUS
<1>1. PICK T \in Bad : \A U \in SUBSET T : U = T \/ U \notin Bad
  <2>1. Bad \subseteq SUBSET S
    OBVIOUS
  <2>. HIDE DEF Bad
  <2>. QED BY <2>1, LeastSet
<1>2. PICK x \in T : SumFunctionOnSet(w, T) # w[x] + SumFunctionOnSet(w, T \ {x})
  OBVIOUS
<1>3. IsFiniteSet(T)
  BY FS_Subset
<1>4. PICK y \in T : SumFunctionOnSet(w, T) = w[y] + SumFunctionOnSet(w, T \ {y})
  BY <1>3, SumStep
<1>5. x # y
  BY <1>2, <1>4
<1>6. SumFunctionOnSet(w, T \ {y}) = w[x] + SumFunctionOnSet(w, (T \ {y}) \ {x})
  BY <1>1, <1>5
<1>7. SumFunctionOnSet(w, T \ {x}) = w[y] + SumFunctionOnSet(w, (T \ {x}) \ {y})
  BY <1>1, <1>5
<1>8. (T \ {y}) \ {x} = (T \ {x}) \ {y}
  OBVIOUS
<1>9. SumFunctionOnSet(w, (T \ {x}) \ {y}) \in Int
  <2>1. IsFiniteSet((T \ {x}) \ {y})
    BY <1>3, FS_RemoveElement
  <2>. QED BY <2>1, SumInt
<1>10. w[x] \in Int /\ w[y] \in Int
  OBVIOUS
<1>11. PICK p, q, r \in Int :
         p = w[x] /\ q = w[y] /\ r = SumFunctionOnSet(w, (T \ {x}) \ {y})
  BY <1>9, <1>10
<1>12. SumFunctionOnSet(w, T) = q + (p + r)
  BY <1>4, <1>6, <1>8, <1>11
<1>13. SumFunctionOnSet(w, T) # p + (q + r)
  BY <1>2, <1>7, <1>11
<1>14. q + (p + r) = p + (q + r)
  OBVIOUS
<1>. QED BY <1>12, <1>13, <1>14, Zenon

\* Two functions with the same values on the set have the same sum.
LEMMA SumSame ==
  ASSUME NEW v, NEW w, NEW S, IsFiniteSet(S), \A x \in S : v[x] = w[x]
  PROVE  SumFunctionOnSet(v, S) = SumFunctionOnSet(w, S)
<1>. DEFINE Bad == {T \in SUBSET S : SumFunctionOnSet(v, T) # SumFunctionOnSet(w, T)}
<1>. SUFFICES ASSUME Bad # {} PROVE FALSE
  OBVIOUS
<1>1. PICK T \in Bad : \A U \in SUBSET T : U = T \/ U \notin Bad
  <2>1. Bad \subseteq SUBSET S
    OBVIOUS
  <2>. HIDE DEF Bad
  <2>. QED BY <2>1, LeastSet
<1>2. IsFiniteSet(T) /\ T # {}
  <2>1. T \in SUBSET S
    OBVIOUS
  <2>2. IsFiniteSet(T)
    BY <2>1, FS_Subset
  <2>3. T # {}
    BY SumEmpty
  <2>. QED BY <2>2, <2>3
<1>3. PICK x : x = CHOOSE y \in T : TRUE
  OBVIOUS
<1>4. /\ x \in T
      /\ SumFunctionOnSet(v, T) = v[x] + SumFunctionOnSet(v, T \ {x})
      /\ SumFunctionOnSet(w, T) = w[x] + SumFunctionOnSet(w, T \ {x})
  BY <1>2, <1>3, SumStep
<1>5. SumFunctionOnSet(v, T \ {x}) = SumFunctionOnSet(w, T \ {x})
  BY <1>1, <1>4
<1>. QED BY <1>4, <1>5

\* The sum of naturals is a natural.
LEMMA SumNat ==
  ASSUME NEW w, NEW S, IsFiniteSet(S), \A x \in S : w[x] \in Nat
  PROVE  SumFunctionOnSet(w, S) \in Nat
<1>. DEFINE Bad == {T \in SUBSET S : SumFunctionOnSet(w, T) \notin Nat}
<1>. SUFFICES ASSUME Bad # {} PROVE FALSE
  OBVIOUS
<1>1. PICK T \in Bad : \A U \in SUBSET T : U = T \/ U \notin Bad
  <2>1. Bad \subseteq SUBSET S
    OBVIOUS
  <2>. HIDE DEF Bad
  <2>. QED BY <2>1, LeastSet
<1>2. IsFiniteSet(T) /\ T # {}
  <2>1. T \in SUBSET S
    OBVIOUS
  <2>2. IsFiniteSet(T)
    BY <2>1, FS_Subset
  <2>3. T # {}
    BY SumEmpty
  <2>. QED BY <2>2, <2>3
<1>3. PICK x \in T : SumFunctionOnSet(w, T) = w[x] + SumFunctionOnSet(w, T \ {x})
  BY <1>2, SumStep
<1>4. SumFunctionOnSet(w, T \ {x}) \in Nat
  BY <1>1
<1>. QED BY <1>3, <1>4

LEMMA SumZero ==
  ASSUME NEW w, NEW S, IsFiniteSet(S), \A x \in S : w[x] = 0
  PROVE  SumFunctionOnSet(w, S) = 0
<1>. DEFINE Bad == {T \in SUBSET S : SumFunctionOnSet(w, T) # 0}
<1>. SUFFICES ASSUME Bad # {} PROVE FALSE
  OBVIOUS
<1>1. PICK T \in Bad : \A U \in SUBSET T : U = T \/ U \notin Bad
  <2>1. Bad \subseteq SUBSET S
    OBVIOUS
  <2>. HIDE DEF Bad
  <2>. QED BY <2>1, LeastSet
<1>2. IsFiniteSet(T) /\ T # {}
  <2>1. T \in SUBSET S
    OBVIOUS
  <2>2. IsFiniteSet(T)
    BY <2>1, FS_Subset
  <2>3. T # {}
    BY SumEmpty
  <2>. QED BY <2>2, <2>3
<1>3. PICK x \in T : SumFunctionOnSet(w, T) = w[x] + SumFunctionOnSet(w, T \ {x})
  BY <1>2, SumStep
<1>4. SumFunctionOnSet(w, T \ {x}) = 0
  BY <1>1
<1>. QED BY <1>3, <1>4

\* Where one element at most counts, the sum is bounded as the elements are.
LEMMA SumOfOne ==
  ASSUME NEW w, NEW S, IsFiniteSet(S), NEW b \in Nat,
         \A x \in S : w[x] \in Nat /\ w[x] <= b,
         \A x, y \in S : x = y \/ w[x] = 0 \/ w[y] = 0
  PROVE  SumFunctionOnSet(w, S) <= b
<1>1. CASE \A x \in S : w[x] = 0
  BY <1>1, SumZero
<1>2. ASSUME NEW a \in S, w[a] # 0
      PROVE  SumFunctionOnSet(w, S) <= b
  <2>1. SumFunctionOnSet(w, S) = w[a] + SumFunctionOnSet(w, S \ {a})
    BY SumTakes
  <2>2. SumFunctionOnSet(w, S \ {a}) = 0
    <3>1. IsFiniteSet(S \ {a}) /\ \A x \in S \ {a} : w[x] = 0
      BY <1>2, FS_RemoveElement
    <3>. QED BY <3>1, SumZero
  <2>. QED BY <2>1, <2>2
<1>. QED BY <1>1, <1>2
=============================================================================
