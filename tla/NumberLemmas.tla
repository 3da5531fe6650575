------------------------------ MODULE NumberLemmas ------------------------------
(***************************************************************************)
(* What the proofs keep needing about numbers: least and greatest elements *)
(* of sets, sums over finite sets, and folds over intervals.  Nothing here *)
(* is about the program.                                                   *)
(***************************************************************************)
EXTENDS Integers, FiniteSetsExt, FiniteSetTheorems, WellFoundedInduction, TLAPS

-----------------------------------------------------------------------------
(* Least and greatest numbers *)

(***************************************************************************)
(* Naturals have a least one: the intervals below them are finite sets,    *)
(* which inclusion orders well.                                            *)
(***************************************************************************)
LEMMA LeastNatural ==
    ASSUME NEW T \in SUBSET Nat, T # {}
    PROVE  \E x \in T : \A y \in T : x <= y
<1> DEFINE Below == {0 .. t - 1 : t \in T}
           Order == StrictSubsetOrdering(Nat)
<1>1. Below \subseteq FiniteSubsetsOf(Nat)
  <2> SUFFICES ASSUME NEW t \in T PROVE 0 .. t - 1 \in FiniteSubsetsOf(Nat)
    OBVIOUS
  <2>1. IsFiniteSet(0 .. t - 1)
    BY FS_Interval
  <2> QED
    BY <2>1 DEF FiniteSubsetsOf
<1>2. Below # {}
  OBVIOUS
<1>3. \E b \in Below : \A c \in Below : ~ (<<c, b>> \in Order)
  <2> HIDE DEF Below
  <2> QED
    BY <1>1, <1>2, FS_StrictSubsetOrderingWellFounded, WFMin
<1>4. PICK x \in T : \A y \in T : ~ (<<0 .. y - 1, 0 .. x - 1>> \in Order)
  BY <1>3
<1>5. ASSUME NEW y \in T, y < x
      PROVE  <<0 .. y - 1, 0 .. x - 1>> \in Order
  <2>1. 0 .. y - 1 \in SUBSET Nat /\ 0 .. x - 1 \in SUBSET Nat
    OBVIOUS
  <2>2. 0 .. y - 1 \subseteq 0 .. x - 1
    BY <1>5
  <2>3. y \in 0 .. x - 1 /\ y \notin 0 .. y - 1
    BY <1>5
  <2> QED
    BY <2>1, <2>2, <2>3 DEF StrictSubsetOrdering
<1>6. \A y \in T : ~ (y < x)
  BY <1>4, <1>5
<1> QED
  BY <1>6

(***************************************************************************)
(* Max is what it says for integers that are bounded from above.           *)
(***************************************************************************)
LEMMA MaxIsGreatest ==
    ASSUME NEW S \in SUBSET Int, S # {}, NEW b \in Int, \A x \in S : x <= b
    PROVE  Max(S) \in S /\ \A y \in S : y <= Max(S)
<1> DEFINE T == {b - x : x \in S}
<1>1. T \in SUBSET Nat /\ T # {}
  <2>1. ASSUME NEW x \in S PROVE b - x \in Nat
    <3>1. x \in Int /\ x <= b
      OBVIOUS
    <3> QED
      BY <3>1
  <2> QED
    BY <2>1
<1>2. PICK t \in T : \A u \in T : t <= u
  BY <1>1, LeastNatural
<1>3. PICK m \in S : t = b - m
  OBVIOUS
<1>4. \A y \in S : m >= y
  <2> SUFFICES ASSUME NEW y \in S PROVE m >= y
    OBVIOUS
  <2>1. b - y \in T
    OBVIOUS
  <2>2. b - m <= b - y
    BY <1>2, <1>3, <2>1
  <2> QED
    BY <2>2
<1>5. \E x \in S : \A y \in S : x >= y
  BY <1>4
<1> QED
  BY <1>5 DEF Max

(***************************************************************************)
(* Integers bounded from below have a least one.                           *)
(***************************************************************************)
LEMMA LeastInteger ==
    ASSUME NEW S \in SUBSET Int, S # {}, NEW b \in Int, \A x \in S : b <= x
    PROVE  \E x \in S : \A y \in S : x <= y
<1> DEFINE T == {x - b : x \in S}
<1>1. T \in SUBSET Nat /\ T # {}
  <2>1. ASSUME NEW x \in S PROVE x - b \in Nat
    <3>1. x \in Int /\ b <= x
      OBVIOUS
    <3> QED
      BY <3>1
  <2> QED
    BY <2>1
<1>2. PICK t \in T : \A u \in T : t <= u
  BY <1>1, LeastNatural
<1>3. PICK m \in S : t = m - b
  OBVIOUS
<1>4. \A y \in S : m <= y
  <2> SUFFICES ASSUME NEW y \in S PROVE m <= y
    OBVIOUS
  <2>1. m - b <= y - b
    BY <1>2, <1>3
  <2> QED
    BY <2>1
<1> QED
  BY <1>4

LEMMA MaxOfTwo ==
    ASSUME NEW a \in Int, NEW b \in Int
    PROVE  /\ Max({a, b}) \in Int /\ a <= Max({a, b}) /\ b <= Max({a, b})
           /\ a <= b => Max({a, b}) = b
           /\ b <= a => Max({a, b}) = a
<1> DEFINE S == {a, b}
<1>1. \E m \in Int : \A x \in S : x <= m
  <2>1. CASE a <= b
    BY <2>1
  <2>2. CASE b <= a
    BY <2>2
  <2> QED
    BY <2>1, <2>2
<1>2. S \in SUBSET Int /\ S # {} /\ a \in S /\ b \in S
  OBVIOUS
<1> HIDE DEF S
<1>3. Max(S) \in S /\ \A y \in S : y <= Max(S)
  BY <1>1, <1>2, MaxIsGreatest
<1>4. (Max({a, b}) = a \/ Max({a, b}) = b) /\ a <= Max({a, b}) /\ b <= Max({a, b})
  BY <1>2, <1>3 DEF S
<1> QED
  BY <1>4

-----------------------------------------------------------------------------
(* Sums over finite sets *)

(***************************************************************************)
(* Of the sets in a family of finite sets there is one that includes no    *)
(* other.                                                                  *)
(***************************************************************************)
LEMMA MinimalSet ==
    ASSUME NEW S, IsFiniteSet(S), NEW C \in SUBSET SUBSET S, C # {}
    PROVE  \E c \in C : \A d \in C : d \subseteq c => d = c
<1> DEFINE Order == StrictSubsetOrdering(S)
<1>1. C \subseteq FiniteSubsetsOf(S)
  <2> SUFFICES ASSUME NEW c \in C PROVE IsFiniteSet(c) /\ c \in SUBSET S
    BY DEF FiniteSubsetsOf
  <2> QED
    BY FS_Subset
<1>2. PICK c \in C : \A d \in C : ~ (<<d, c>> \in Order)
  BY <1>1, FS_StrictSubsetOrderingWellFounded, WFMin
<1>3. ASSUME NEW d \in C, d \subseteq c, d # c
      PROVE  <<d, c>> \in Order
  <2>1. d \in SUBSET S /\ c \in SUBSET S
    OBVIOUS
  <2> QED
    BY <1>3, <2>1 DEF StrictSubsetOrdering
<1> HIDE DEF Order
<1>4. ASSUME NEW d \in C, d \subseteq c PROVE d = c
  BY <1>2, <1>3, <1>4
<1> QED
  BY <1>4

(***************************************************************************)
(* The sum of the values of a function over a set, and the function on the *)
(* subsets that MapThenSumSet chooses.                                     *)
(***************************************************************************)
SumOf(F, S) == MapThenSumSet(LAMBDA i : F[i], S)

Sums(F, S, g) ==
    g = [s \in SUBSET S |-> IF s = {} THEN 0
                            ELSE LET x == CHOOSE y \in s : TRUE
                                 IN  F[x] + g[s \ {x}]]

LEMMA SumIsChosen ==
    ASSUME NEW F, NEW S
    PROVE  SumOf(F, S) = (CHOOSE g : Sums(F, S, g))[S]
BY DEF SumOf, Sums, MapThenSumSet, MapThenFoldSet

LEMMA SumsAgree ==
    ASSUME NEW F, NEW S, NEW T, IsFiniteSet(T), T \subseteq S,
           NEW g, Sums(F, S, g), NEW h, Sums(F, T, h)
    PROVE  g[T] = h[T]
<1> DEFINE C == {s \in SUBSET T : g[s] # h[s]}
<1>1. ASSUME NEW s \in C, \A d \in C : d \subseteq s => d = s
      PROVE  FALSE
  <2>1. s \in SUBSET S /\ s \in SUBSET T /\ g[s] # h[s]
    OBVIOUS
  <2> DEFINE x == CHOOSE y \in s : TRUE
  <2>2. /\ g[s] = IF s = {} THEN 0 ELSE F[x] + g[s \ {x}]
        /\ h[s] = IF s = {} THEN 0 ELSE F[x] + h[s \ {x}]
    BY <2>1 DEF Sums
  <2>3. s # {}
    BY <2>1, <2>2
  <2>4. x \in s
    BY <2>3
  <2> HIDE DEF x
  <2>5. s \ {x} \in SUBSET T /\ s \ {x} \subseteq s /\ s \ {x} # s
    BY <2>1, <2>4
  <2>6. g[s \ {x}] = h[s \ {x}]
    BY <1>1, <2>5
  <2> QED
    BY <2>1, <2>2, <2>3, <2>6
<1>2. C = {}
  <2> SUFFICES ASSUME C # {} PROVE FALSE
    OBVIOUS
  <2>1. C \in SUBSET SUBSET T
    OBVIOUS
  <2> HIDE DEF C
  <2> QED
    BY <1>1, <2>1, MinimalSet
<1> QED
  BY <1>2

LEMMA SumsExist ==
    ASSUME NEW F, NEW S, IsFiniteSet(S)
    PROVE  \E g : Sums(F, S, g)
<1> DEFINE C == {s \in SUBSET S : ~ \E g : Sums(F, s, g)}
           At(s) == (CHOOSE g : Sums(F, s, g))[s]
<1>1. ASSUME NEW s \in C, \A d \in C : d \subseteq s => d = s
      PROVE  FALSE
  <2>1. s \in SUBSET S /\ ~ \E g : Sums(F, s, g)
    OBVIOUS
  <2> DEFINE First(r) == CHOOSE y \in r : TRUE
             Value(r) == IF r = {} THEN 0 ELSE F[First(r)] + At(r \ {First(r)})
             V == [r \in SUBSET s |-> Value(r)]
  <2>2. ASSUME NEW r \in SUBSET s, r # s
        PROVE  V[r] = At(r)
    <3>1. Sums(F, r, CHOOSE g : Sums(F, r, g))
      BY <1>1, <2>1, <2>2
    <3> DEFINE h == CHOOSE g : Sums(F, r, g)
    <3>2. h[r] = IF r = {} THEN 0 ELSE F[First(r)] + h[r \ {First(r)}]
      <4> HIDE DEF h
      <4>1. Sums(F, r, h) /\ r \in SUBSET r
        BY <3>1 DEF h
      <4> QED
        BY <4>1 DEF Sums
    <3>3. ASSUME r # {}
          PROVE  h[r \ {First(r)}] = At(r \ {First(r)})
      <4> DEFINE d == r \ {First(r)}
      <4>1. First(r) \in r
        BY <3>3
      <4>2. d \subseteq r /\ d # s /\ d \in SUBSET s /\ d \in SUBSET S
        BY <2>1, <2>2, <4>1
      <4> HIDE DEF d
      <4>3. Sums(F, d, CHOOSE g : Sums(F, d, g))
        BY <1>1, <4>2
      <4>4. IsFiniteSet(d)
        BY <4>2, FS_Subset
      <4>5. h[d] = At(d)
        <5> DEFINE e == CHOOSE g : Sums(F, d, g)
        <5> HIDE DEF h, e
        <5>1. Sums(F, r, h) /\ Sums(F, d, e)
          BY <3>1, <4>3 DEF h, e
        <5>2. h[d] = e[d]
          BY <4>2, <4>4, <5>1, SumsAgree
        <5> QED
          BY <5>2 DEF e
      <4> QED
        BY <4>5 DEF d
    <3> HIDE DEF First
    <3>4. At(r) = h[r]
      OBVIOUS
    <3> HIDE DEF h, At
    <3>5. V[r] = Value(r)
      OBVIOUS
    <3> QED
      BY <3>2, <3>3, <3>4, <3>5
  <2>3. ASSUME NEW r \in SUBSET s, r # {}
        PROVE  At(r \ {First(r)}) = V[r \ {First(r)}]
    <3>1. First(r) \in r
      BY <2>3
    <3> HIDE DEF First, At, V
    <3>2. r \ {First(r)} \in SUBSET s /\ r \ {First(r)} # s
      BY <3>1
    <3> QED
      BY <2>2, <3>2
  <2>4. V = [r \in SUBSET s |-> IF r = {} THEN 0 ELSE F[First(r)] + V[r \ {First(r)}]]
    <3> HIDE DEF First, At
    <3>1. ASSUME NEW r \in SUBSET s
          PROVE  Value(r) = IF r = {} THEN 0 ELSE F[First(r)] + V[r \ {First(r)}]
      <4> HIDE DEF V
      <4> QED
        BY <2>3
    <3> DEFINE W == V
    <3> HIDE DEF W, Value
    <3>2. [r \in SUBSET s |-> Value(r)]
            = [r \in SUBSET s |-> IF r = {} THEN 0 ELSE F[First(r)] + W[r \ {First(r)}]]
      BY <3>1 DEF W
    <3> QED
      BY <3>2 DEF W
  <2>5. Sums(F, s, V)
    <3> HIDE DEF V
    <3> QED
      BY <2>4 DEF Sums
  <2> QED
    BY <2>1, <2>5
<1>2. C = {}
  <2> SUFFICES ASSUME C # {} PROVE FALSE
    OBVIOUS
  <2>1. C \in SUBSET SUBSET S
    OBVIOUS
  <2> HIDE DEF C
  <2> QED
    BY <1>1, <2>1, MinimalSet
<1> QED
  BY <1>2

(***************************************************************************)
(* The equation of a sum.                                                  *)
(***************************************************************************)
LEMMA SumEquation ==
    ASSUME NEW F, NEW S, IsFiniteSet(S)
    PROVE  SumOf(F, S) = IF S = {} THEN 0
                         ELSE LET x == CHOOSE y \in S : TRUE
                              IN  F[x] + SumOf(F, S \ {x})
<1> DEFINE x == CHOOSE y \in S : TRUE
           g == CHOOSE f : Sums(F, S, f)
           h == CHOOSE f : Sums(F, S \ {x}, f)
<1>1. IsFiniteSet(S \ {x})
  BY FS_Subset
<1> HIDE DEF x
<1>2. Sums(F, S, g) /\ Sums(F, S \ {x}, h)
  BY <1>1, SumsExist
<1>3. SumOf(F, S) = g[S] /\ SumOf(F, S \ {x}) = h[S \ {x}]
  BY SumIsChosen
<1> HIDE DEF g, h
<1>4. g[S \ {x}] = h[S \ {x}]
  BY <1>1, <1>2, SumsAgree
<1>5. g[S] = IF S = {} THEN 0 ELSE F[x] + g[S \ {x}]
  BY <1>2 DEF Sums, x
<1> QED
  BY <1>3, <1>4, <1>5 DEF x

LEMMA SumOfNone ==
    ASSUME NEW F
    PROVE  SumOf(F, {}) = 0
BY FS_EmptySet, SumEquation

LEMMA SumIsInteger ==
    ASSUME NEW F, NEW S, IsFiniteSet(S), \A i \in S : F[i] \in Int
    PROVE  SumOf(F, S) \in Int
<1> DEFINE C == {s \in SUBSET S : SumOf(F, s) \notin Int}
<1>1. ASSUME NEW s \in C, \A d \in C : d \subseteq s => d = s
      PROVE  FALSE
  <2> DEFINE x == CHOOSE y \in s : TRUE
  <2>1. s \in SUBSET S /\ IsFiniteSet(s) /\ SumOf(F, s) \notin Int
    BY FS_Subset
  <2>2. SumOf(F, s) = IF s = {} THEN 0 ELSE F[x] + SumOf(F, s \ {x})
    BY <2>1, SumEquation
  <2>3. s # {}
    BY <2>1, <2>2
  <2>4. x \in s
    BY <2>3
  <2> HIDE DEF x
  <2>5. s \ {x} \in SUBSET S /\ s \ {x} \subseteq s /\ s \ {x} # s /\ F[x] \in Int
    BY <2>1, <2>4
  <2>6. SumOf(F, s \ {x}) \in Int
    BY <1>1, <2>5
  <2> QED
    BY <2>1, <2>2, <2>3, <2>5, <2>6
<1>2. C = {}
  <2> SUFFICES ASSUME C # {} PROVE FALSE
    OBVIOUS
  <2>1. C \in SUBSET SUBSET S
    OBVIOUS
  <2> HIDE DEF C
  <2> QED
    BY <1>1, <2>1, MinimalSet
<1> QED
  BY <1>2

(***************************************************************************)
(* Any element may be taken out of the sum.                                *)
(***************************************************************************)
LEMMA SumTakesOut ==
    ASSUME NEW F, NEW S, IsFiniteSet(S), \A i \in S : F[i] \in Int, NEW a \in S
    PROVE  SumOf(F, S) = F[a] + SumOf(F, S \ {a})
<1> DEFINE C == {s \in SUBSET S : \E b \in s : SumOf(F, s) # F[b] + SumOf(F, s \ {b})}
<1>1. ASSUME NEW s \in C, \A d \in C : d \subseteq s => d = s
      PROVE  FALSE
  <2> DEFINE x == CHOOSE y \in s : TRUE
  <2>1. s \in SUBSET S /\ IsFiniteSet(s)
    BY FS_Subset
  <2>2. PICK b \in s : SumOf(F, s) # F[b] + SumOf(F, s \ {b})
    OBVIOUS
  <2>3. x \in s /\ SumOf(F, s) = F[x] + SumOf(F, s \ {x})
    BY <2>1, <2>2, SumEquation
  <2> HIDE DEF x
  <2>4. x # b
    BY <2>2, <2>3
  <2>5. /\ s \ {x} \in SUBSET S /\ s \ {x} \subseteq s /\ s \ {x} # s /\ b \in s \ {x}
        /\ s \ {b} \in SUBSET S /\ s \ {b} \subseteq s /\ s \ {b} # s /\ x \in s \ {b}
        /\ (s \ {x}) \ {b} = (s \ {b}) \ {x}
    BY <2>1, <2>3, <2>4
  <2>6. /\ SumOf(F, s \ {x}) = F[b] + SumOf(F, (s \ {x}) \ {b})
        /\ SumOf(F, s \ {b}) = F[x] + SumOf(F, (s \ {b}) \ {x})
    BY <1>1, <2>5
  <2> DEFINE r == (s \ {b}) \ {x}
  <2>7. r \in SUBSET S /\ IsFiniteSet(r)
    BY <2>1, FS_Subset
  <2> HIDE DEF r
  <2>8. F[x] \in Int /\ F[b] \in Int /\ SumOf(F, r) \in Int
    BY <2>1, <2>3, <2>7, SumIsInteger
  <2>9. SumOf(F, s \ {x}) = F[b] + SumOf(F, r) /\ SumOf(F, s \ {b}) = F[x] + SumOf(F, r)
    BY <2>5, <2>6 DEF r
  <2>10. SumOf(F, s) = F[x] + (F[b] + SumOf(F, r)) /\ SumOf(F, s) # F[b] + (F[x] + SumOf(F, r))
    BY <2>2, <2>3, <2>9
  <2> QED
    BY <2>8, <2>10
<1>2. C = {}
  <2> SUFFICES ASSUME C # {} PROVE FALSE
    OBVIOUS
  <2>1. C \in SUBSET SUBSET S
    OBVIOUS
  <2> HIDE DEF C
  <2> QED
    BY <1>1, <2>1, MinimalSet
<1> QED
  BY <1>2

(***************************************************************************)
(* A sum is between as many times a lower and an upper bound of its terms. *)
(***************************************************************************)
LEMMA SumIsBounded ==
    ASSUME NEW F, NEW S, IsFiniteSet(S), NEW lo \in Int, NEW hi \in Int,
           \A i \in S : F[i] \in Int /\ lo <= F[i] /\ F[i] <= hi
    PROVE  /\ Cardinality(S) * lo <= SumOf(F, S)
           /\ SumOf(F, S) <= Cardinality(S) * hi
<1> DEFINE Bounded(s) == /\ Cardinality(s) * lo <= SumOf(F, s)
                         /\ SumOf(F, s) <= Cardinality(s) * hi
           C == {s \in SUBSET S : ~ Bounded(s)}
<1>1. ASSUME NEW s \in C, \A d \in C : d \subseteq s => d = s
      PROVE  FALSE
  <2> DEFINE x == CHOOSE y \in s : TRUE
             r == s \ {x}
             n == Cardinality(r)
  <2>1. s \in SUBSET S /\ IsFiniteSet(s) /\ ~ Bounded(s)
    BY FS_Subset
  <2>2. s # {}
    <3> SUFFICES ASSUME s = {} PROVE FALSE
      OBVIOUS
    <3>1. Cardinality({}) = 0 /\ SumOf(F, {}) = 0
      BY FS_EmptySet, SumOfNone
    <3> QED
      BY <2>1, <3>1
  <2>3. x \in s
    BY <2>2
  <2> HIDE DEF x
  <2>4. /\ F[x] \in Int /\ lo <= F[x] /\ F[x] <= hi
        /\ r \in SUBSET S /\ r \subseteq s /\ r # s
    BY <2>1, <2>3
  <2>5. /\ IsFiniteSet(r) /\ n \in Nat /\ Cardinality(s) = n + 1
        /\ SumOf(F, s) = F[x] + SumOf(F, r) /\ SumOf(F, r) \in Int
    <3>1. IsFiniteSet(r) /\ n \in Nat
      BY <2>1, FS_Subset, FS_CardinalityType
    <3>2. n = Cardinality(s) - 1 /\ Cardinality(s) \in Nat
      BY <2>1, <2>3, FS_RemoveElement, FS_CardinalityType
    <3>3. SumOf(F, s) = F[x] + SumOf(F, r)
      BY <2>1, <2>3, SumTakesOut
    <3>4. SumOf(F, r) \in Int
      BY <2>4, <3>1, SumIsInteger
    <3> QED
      BY <3>1, <3>2, <3>3, <3>4
  <2>6. n * lo <= SumOf(F, r) /\ SumOf(F, r) <= n * hi
    <3> HIDE DEF r
    <3>1. r \notin C
      BY <1>1, <2>4
    <3> QED
      BY <2>4, <3>1
  <2>7. (n + 1) * lo = n * lo + lo /\ (n + 1) * hi = n * hi + hi
    <3> HIDE DEF n
    <3> QED
      BY <2>5
  <2>8. n * lo \in Int /\ n * hi \in Int
    BY <2>5
  <2> HIDE DEF n, r
  <2> QED
    BY <2>1, <2>4, <2>5, <2>6, <2>7, <2>8
<1>2. C = {}
  <2> SUFFICES ASSUME C # {} PROVE FALSE
    OBVIOUS
  <2>1. C \in SUBSET SUBSET S
    OBVIOUS
  <2> HIDE DEF C
  <2> QED
    BY <1>1, <2>1, MinimalSet
<1>3. S \notin C /\ S \in SUBSET S
  BY <1>2
<1> QED
  BY <1>3

(***************************************************************************)
(* The sum of the steps between neighbours is the way from the first point *)
(* to the last.                                                            *)
(***************************************************************************)
LEMMA StepsAddUp ==
    ASSUME NEW n \in Nat, NEW p, NEW F,
           \A i \in 1 .. n + 1 : p[i] \in Int,
           \A i \in 1 .. n : F[i] = p[i + 1] - p[i]
    PROVE  SumOf(F, 1 .. n) = p[n + 1] - p[1]
<1>0. ASSUME NEW R, IsFiniteSet(R), \A i \in R : F[i] \in Int, NEW a \in R
      PROVE  SumOf(F, R) = F[a] + SumOf(F, R \ {a})
  BY <1>0, SumTakesOut
<1> DEFINE C == {m \in 0 .. n : SumOf(F, 1 .. m) # p[m + 1] - p[1]}
<1>1. ASSUME NEW m \in C, \A k \in C : m <= k
      PROVE  FALSE
  <2>1. m \in 0 .. n /\ SumOf(F, 1 .. m) # p[m + 1] - p[1]
    OBVIOUS
  <2>2. CASE m = 0
    <3>1. 1 .. m = {} /\ m + 1 = 1 /\ 1 \in 1 .. n + 1
      BY <2>2
    <3>2. SumOf(F, 1 .. m) = 0
      BY <3>1, SumOfNone
    <3>3. p[m + 1] - p[1] = 0
      BY <3>1
    <3> QED
      BY <2>1, <3>2, <3>3
  <2>3. CASE m # 0
    <3>1. /\ m \in 1 .. m /\ m \in 1 .. n /\ m - 1 \in 0 .. n /\ (m - 1) + 1 = m
          /\ (1 .. m) \ {m} = 1 .. m - 1
      BY <2>1, <2>3
    <3>2. SumOf(F, 1 .. m - 1) = p[m] - p[1]
      <4>1. m - 1 \notin C
        BY <1>1, <3>1
      <4> QED
        BY <3>1, <4>1
    <3>3. \A i \in 1 .. m : F[i] \in Int
      <4> SUFFICES ASSUME NEW i \in 1 .. m PROVE F[i] \in Int
        OBVIOUS
      <4>1. i \in 1 .. n /\ i \in 1 .. n + 1 /\ i + 1 \in 1 .. n + 1
        BY <2>1
      <4>2. F[i] = p[i + 1] - p[i]
        BY <4>1
      <4>3. p[i] \in Int /\ p[i + 1] \in Int
        BY <4>1
      <4> QED
        BY <4>2, <4>3
    <3>4. SumOf(F, 1 .. m) = F[m] + SumOf(F, 1 .. m - 1)
      <4>1. IsFiniteSet(1 .. m)
        BY <3>1, FS_Interval
      <4>3. m \in 1 .. m
        BY <3>1
      <4>2. SumOf(F, 1 .. m) = F[m] + SumOf(F, (1 .. m) \ {m})
        BY <1>0, <3>3, <4>1, <4>3
      <4> QED
        BY <3>1, <4>2
    <3>5. F[m] = p[m + 1] - p[m] /\ p[m + 1] \in Int /\ p[m] \in Int /\ p[1] \in Int
      BY <3>1
    <3> QED
      BY <2>1, <3>2, <3>4, <3>5
  <2> QED
    BY <2>2, <2>3
<1>2. C = {}
  <2> SUFFICES ASSUME C # {} PROVE FALSE
    OBVIOUS
  <2>1. C \in SUBSET Nat
    OBVIOUS
  <2> HIDE DEF C
  <2> QED
    BY <1>1, <2>1, LeastNatural
<1>3. n \notin C /\ n \in 0 .. n
  BY <1>2
<1> QED
  BY <1>3

-----------------------------------------------------------------------------
(* Finite sets of numbers, and folds *)

(***************************************************************************)
(* On a finite set a function into the integers has a least and a greatest *)
(* value.                                                                  *)
(***************************************************************************)
LEMMA FiniteHasExtremes ==
    ASSUME NEW S, IsFiniteSet(S), S # {}, NEW f, \A k \in S : f[k] \in Int
    PROVE  /\ \E a \in S : \A b \in S : f[a] <= f[b]
           /\ \E a \in S : \A b \in S : f[b] <= f[a]
<1> DEFINE HasLeast(s) == \E a \in s : \A b \in s : f[a] <= f[b]
           HasGreatest(s) == \E a \in s : \A b \in s : f[b] <= f[a]
           C == {s \in SUBSET S : s # {} /\ ~ (HasLeast(s) /\ HasGreatest(s))}
<1>1. ASSUME NEW s \in C, \A d \in C : d \subseteq s => d = s
      PROVE  FALSE
  <2>1. PICK a \in s : TRUE
    OBVIOUS
  <2>2. \A k \in s : f[k] \in Int
    OBVIOUS
  <2>3. CASE s \ {a} = {}
    <3>1. \A b \in s : b = a
      BY <2>3
    <3>2. HasLeast(s) /\ HasGreatest(s)
      BY <2>1, <2>2, <3>1
    <3> QED
      BY <3>2
  <2>4. CASE s \ {a} # {}
    <3>1. s \ {a} \notin C
      BY <1>1, <2>1
    <3>2. HasLeast(s \ {a}) /\ HasGreatest(s \ {a})
      BY <2>4, <3>1
    <3>3. PICK l \in s \ {a} : \A b \in s \ {a} : f[l] <= f[b]
      BY <3>2
    <3>4. PICK g \in s \ {a} : \A b \in s \ {a} : f[b] <= f[g]
      BY <3>2
    <3>5. HasLeast(s)
      <4>1. CASE f[a] <= f[l]
        <5>1. \A b \in s : f[a] <= f[b]
          BY <2>1, <2>2, <3>3, <4>1
        <5> QED
          BY <5>1, <2>1
      <4>2. CASE ~ (f[a] <= f[l])
        <5>1. \A b \in s : f[l] <= f[b]
          BY <2>1, <2>2, <3>3, <4>2
        <5> QED
          BY <5>1
      <4> QED
        BY <4>1, <4>2
    <3>6. HasGreatest(s)
      <4>1. CASE f[g] <= f[a]
        <5>1. \A b \in s : f[b] <= f[a]
          BY <2>1, <2>2, <3>4, <4>1
        <5> QED
          BY <5>1, <2>1
      <4>2. CASE ~ (f[g] <= f[a])
        <5>1. \A b \in s : f[b] <= f[g]
          BY <2>1, <2>2, <3>4, <4>2
        <5> QED
          BY <5>1
      <4> QED
        BY <4>1, <4>2
    <3> QED
      BY <3>5, <3>6
  <2> QED
    BY <2>3, <2>4
<1>2. C = {}
  <2> SUFFICES ASSUME C # {} PROVE FALSE
    OBVIOUS
  <2>1. C \in SUBSET SUBSET S
    OBVIOUS
  <2> HIDE DEF C
  <2> QED
    BY <1>1, <2>1, MinimalSet
<1>3. HasLeast(S) /\ HasGreatest(S)
  BY <1>2
<1> QED
  BY <1>3

(***************************************************************************)
(* A set with the first number of an interval and, with each number, the   *)
(* next one, has all of them.                                              *)
(***************************************************************************)
LEMMA Climb ==
    ASSUME NEW n \in Nat, NEW S, 0 \in S, \A k \in 1 .. n : k - 1 \in S => k \in S
    PROVE  \A k \in 0 .. n : k \in S
<1> DEFINE T == {k \in 0 .. n : k \notin S}
<1>1. SUFFICES ASSUME T # {} PROVE FALSE
  OBVIOUS
<1>2. T \in SUBSET Nat
  OBVIOUS
<1>3. PICK m \in T : \A k \in T : m <= k
  <2> HIDE DEF T
  <2> QED
    BY <1>1, <1>2, LeastNatural
<1>4. m \in 1 .. n /\ m - 1 \in 0 .. n
  BY <1>3
<1>5. m - 1 \in S
  BY <1>3, <1>4
<1> QED
  BY <1>3, <1>4, <1>5

(***************************************************************************)
(* What a fold over an interval goes through, when it starts with base and *)
(* F makes the next value of the last and of a number.                     *)
(***************************************************************************)
Steps(n, V) == [V \X (1 .. n) -> V]

IsRun(h, n, V, base, F) ==
    /\ h \in [0 .. n -> V]
    /\ h[0] = base
    /\ \A k \in 1 .. n : h[k] = F[<<h[k - 1], k>>]

LEMMA RunsExist ==
    ASSUME NEW n \in Nat, NEW V, NEW base \in V, NEW F \in Steps(n, V)
    PROVE  \E h : IsRun(h, n, V, base, F)
<1>0. \A v \in V, k \in 1 .. n : F[<<v, k>>] \in V
  BY DEF Steps
<1> DEFINE Runs(m) == \E h \in [0 .. m -> V] :
              h[0] = base /\ \A k \in 1 .. m : h[k] = F[<<h[k - 1], k>>]
           S == {m \in 0 .. n : Runs(m)}
<1>1. 0 \in S
  <2> DEFINE h == [k \in 0 .. 0 |-> base]
  <2>1. h \in [0 .. 0 -> V] /\ h[0] = base /\ 1 .. 0 = {}
    OBVIOUS
  <2>2. Runs(0)
    <3> HIDE DEF h
    <3> QED
      BY <2>1
  <2> QED
    BY <2>2
<1>2. ASSUME NEW m \in 1 .. n, m - 1 \in S PROVE m \in S
  <2>1. PICK h \in [0 .. m - 1 -> V] :
          h[0] = base /\ \A k \in 1 .. m - 1 : h[k] = F[<<h[k - 1], k>>]
    BY <1>2
  <2> DEFINE g == [k \in 0 .. m |-> IF k = m THEN F[<<h[m - 1], m>>] ELSE h[k]]
  <2>2. h[m - 1] \in V /\ F[<<h[m - 1], m>>] \in V
    <3>1. m - 1 \in 0 .. m - 1
      OBVIOUS
    <3> QED
      BY <1>0, <3>1
  <2>3. g \in [0 .. m -> V]
    <3>1. \A k \in 0 .. m : k # m => k \in 0 .. m - 1
      OBVIOUS
    <3> QED
      BY <2>2, <3>1
  <2>4. g[0] = base
    BY <2>1
  <2>5. ASSUME NEW k \in 1 .. m PROVE g[k] = F[<<g[k - 1], k>>]
    <3>1. k - 1 \in 0 .. m /\ k - 1 # m /\ g[k - 1] = h[k - 1]
      OBVIOUS
    <3>2. CASE k = m
      BY <3>1, <3>2
    <3>3. CASE k # m
      <4>1. k \in 1 .. m - 1 /\ g[k] = h[k]
        BY <3>3
      <4> QED
        BY <2>1, <3>1, <4>1
    <3> QED
      BY <3>2, <3>3
  <2>6. Runs(m)
    <3> HIDE DEF g
    <3> QED
      BY <2>3, <2>4, <2>5
  <2> QED
    BY <2>6
<1>3. n \in S
  <2>1. n \in 0 .. n
    OBVIOUS
  <2> HIDE DEF S
  <2> QED
    BY <1>1, <1>2, <2>1, Climb
<1> QED
  BY <1>3 DEF IsRun

-----------------------------------------------------------------------------
(* Multiples *)

LEMMA Multiples ==
    ASSUME NEW s \in Nat \ {0}
    PROVE  /\ 0 % s = 0
           /\ \A x \in Nat : x % s = 0 => (x + s) % s = 0
           /\ \A x, y \in Nat : x % s = 0 /\ y % s = 0 /\ x < y => x + s <= y
<1>1. \A x \in Nat, q \in Nat : x = s * q => x % s = 0
  OBVIOUS
<1>2. 0 % s = 0
  OBVIOUS
<1>3. ASSUME NEW x \in Nat, x % s = 0 PROVE \E q \in Nat : x = s * q
  <2>1. x = s * (x \div s) + (x % s) /\ x \div s \in Nat
    OBVIOUS
  <2> QED
    BY <1>3, <2>1
<1>4. ASSUME NEW x \in Nat, x % s = 0 PROVE (x + s) % s = 0
  <2>1. PICK q \in Nat : x = s * q
    BY <1>3, <1>4
  <2>2. x + s = s * (q + 1) /\ x + s \in Nat /\ q + 1 \in Nat
    BY <2>1
  <2> QED
    BY <1>1, <2>2
<1>5. ASSUME NEW x \in Nat, NEW y \in Nat, x % s = 0, y % s = 0, x < y
      PROVE  x + s <= y
  <2>1. PICK p \in Nat : x = s * p
    BY <1>3, <1>5
  <2>2. PICK q \in Nat : y = s * q
    BY <1>3, <1>5
  <2>3. p < q
    <3>1. SUFFICES ASSUME q <= p PROVE s * q <= s * p
      BY <1>5, <2>1, <2>2
    <3> QED
      BY <3>1
  <2>4. s * p + s <= s * q
    BY <2>3
  <2> QED
    BY <2>1, <2>2, <2>4
<1> QED
  BY <1>2, <1>4, <1>5
=============================================================================
