---------------------------- MODULE Ranks_proofs ----------------------------
(***************************************************************************)
(* Lemmas about ranks and sums of sequences of any length.                 *)
(*                                                                         *)
(* Induction has the form of statements about sets of numbers, which rest  *)
(* on the least element of such a set: theorems of the library that take a *)
(* predicate cannot be instantiated.                                       *)
(***************************************************************************)
EXTENDS Ranks, FiniteSetTheorems, WellFoundedInduction, TLAPS

(* A set of natural numbers that is not empty has a least element.         *)
LEMMA LeastOf ==
  ASSUME NEW S, S \subseteq Nat, S # {}
  PROVE  \E m \in S : \A n \in S : m <= n
<1> DEFINE Less == {p \in Nat \X Nat : p[1] < p[2]}
<1>1. IsWellFoundedOn(Less, Nat)
  BY NatLessThanWellFounded DEF OpToRel
<1>2. \E m \in S : \A n \in S : <<n, m>> \notin Less
  <2> HIDE DEF Less
  <2> QED BY <1>1, WFMin
<1>3. PICK m \in S : \A n \in S : <<n, m>> \notin Less
  BY <1>2
<1>4. ASSUME NEW n \in S  PROVE m <= n
  <2>1. m \in Nat /\ n \in Nat
    OBVIOUS
  <2>2. ~(n < m)
    BY <1>3, <2>1
  <2> QED BY <2>1, <2>2
<1> QED BY <1>4

(* Induction up to n, for the set of numbers that have a property.         *)
LEMMA UpToAll ==
  ASSUME NEW n \in Nat, NEW S, 0 \in S, \A m \in 0 .. n - 1 : m \in S => m + 1 \in S
  PROVE  \A m \in 0 .. n : m \in S
<1> DEFINE Bad == {m \in 0 .. n : m \notin S}
<1>1. SUFFICES ASSUME Bad # {}  PROVE FALSE
  OBVIOUS
<1>2. PICK m \in Bad : \A l \in Bad : m <= l
  <2>1. Bad \subseteq Nat
    OBVIOUS
  <2> HIDE DEF Bad
  <2> QED BY <1>1, <2>1, LeastOf
<1>3. m \in 1 .. n /\ m \notin S
  OBVIOUS
<1>4. m - 1 \in 0 .. n - 1 /\ ~(m <= m - 1) /\ (m - 1) + 1 = m
  BY <1>3
<1>5. m - 1 \in S
  BY <1>2, <1>4
<1> QED BY <1>3, <1>4, <1>5

(* A set of integers with a lower bound has a least element, and one with  *)
(* an upper bound a greatest.                                              *)
LEMMA LeastInt ==
  ASSUME NEW S, S \subseteq Int, S # {}, NEW bound \in Int, \A n \in S : bound <= n
  PROVE  \E m \in S : \A n \in S : m <= n
<1> DEFINE Gaps == {n - bound : n \in S}
<1>1. Gaps \subseteq Nat /\ Gaps # {}
  <2>1. ASSUME NEW n \in S  PROVE n - bound \in Nat
    <3>1. n \in Int /\ bound <= n
      OBVIOUS
    <3> QED BY <3>1
  <2> QED BY <2>1
<1>2. PICK d \in Gaps : \A e \in Gaps : d <= e
  <2> HIDE DEF Gaps
  <2> QED BY <1>1, LeastOf
<1>3. PICK m \in S : d = m - bound
  OBVIOUS
<1>4. ASSUME NEW n \in S  PROVE m <= n
  <2>1. d <= n - bound /\ n \in Int /\ m \in Int
    BY <1>2
  <2> QED BY <1>3, <2>1
<1> QED BY <1>4

LEMMA GreatestInt ==
  ASSUME NEW S, S \subseteq Int, S # {}, NEW bound \in Int, \A n \in S : n <= bound
  PROVE  \E m \in S : \A n \in S : n <= m
<1> DEFINE Gaps == {bound - n : n \in S}
<1>1. Gaps \subseteq Nat /\ Gaps # {}
  <2>1. ASSUME NEW n \in S  PROVE bound - n \in Nat
    <3>1. n \in Int /\ n <= bound
      OBVIOUS
    <3> QED BY <3>1
  <2> QED BY <2>1
<1>2. PICK d \in Gaps : \A e \in Gaps : d <= e
  <2> HIDE DEF Gaps
  <2> QED BY <1>1, LeastOf
<1>3. PICK m \in S : d = bound - m
  OBVIOUS
<1>4. ASSUME NEW n \in S  PROVE n <= m
  <2>1. d <= bound - n /\ n \in Int /\ m \in Int
    BY <1>2
  <2> QED BY <1>3, <2>1
<1> QED BY <1>4

LEMMA Counted ==
  ASSUME NEW n \in Nat, NEW S \in SUBSET (1 .. n)
  PROVE  /\ IsFiniteSet(S)
         /\ Cardinality(S) \in Nat
         /\ Cardinality(S) <= n
         /\ \A T \in SUBSET S : Cardinality(T) \in Nat /\ Cardinality(T) <= Cardinality(S)
<1>1. IsFiniteSet(1 .. n) /\ Cardinality(1 .. n) = n
  BY FS_Interval
<1>2. IsFiniteSet(S) /\ Cardinality(S) <= n
  BY <1>1, FS_Subset
<1>3. \A T \in SUBSET S : IsFiniteSet(T) /\ Cardinality(T) <= Cardinality(S)
  BY <1>2, FS_Subset
<1> QED BY <1>2, <1>3, FS_CardinalityType

(* The values of a sequence have a bound.                                  *)
LEMMA ValuesBounded ==
  ASSUME NEW n \in Nat, NEW vals \in [1 .. n -> Int]
  PROVE  \E b \in Nat : \A i \in 1 .. n : -b <= vals[i] /\ vals[i] <= b
<1> DEFINE Bounded ==
      {m \in 0 .. n : \E b \in Nat : \A i \in 1 .. m : -b <= vals[i] /\ vals[i] <= b}
<1>1. 0 \in Bounded
  <2>1. \A i \in 1 .. 0 : -0 <= vals[i] /\ vals[i] <= 0
    OBVIOUS
  <2> QED BY <2>1
<1>2. ASSUME NEW m \in 0 .. n - 1, m \in Bounded  PROVE m + 1 \in Bounded
  <2>1. PICK b \in Nat : \A i \in 1 .. m : -b <= vals[i] /\ vals[i] <= b
    BY <1>2
  <2> DEFINE v == vals[m + 1]
             c == IF v >= 0 THEN b + v ELSE b - v
  <2>2. v \in Int /\ c \in Nat /\ -c <= -b /\ b <= c /\ -c <= v /\ v <= c
    OBVIOUS
  <2>3. ASSUME NEW i \in 1 .. m + 1  PROVE -c <= vals[i] /\ vals[i] <= c
    <3>1. CASE i = m + 1
      BY <2>2, <3>1
    <3>2. CASE i # m + 1
      <4>1. i \in 1 .. m /\ i \in 1 .. n
        BY <3>2
      <4>2. vals[i] \in Int /\ -b <= vals[i] /\ vals[i] <= b
        BY <2>1, <4>1
      <4> HIDE DEF c, v
      <4> QED BY <2>2, <4>2
    <3> QED BY <3>1, <3>2
  <2>4. m + 1 \in 0 .. n
    OBVIOUS
  <2> HIDE DEF c
  <2> QED BY <2>2, <2>3, <2>4
<1>3. n \in Bounded
  <2> HIDE DEF Bounded
  <2>1. \A m \in 0 .. n : m \in Bounded
    BY <1>1, <1>2, UpToAll
  <2> QED BY <2>1
<1> QED BY <1>3

-----------------------------------------------------------------------------
(* Ranks.                                                                  *)

(* Some value has every rank: the least one with more than k values up to  *)
(* it.                                                                     *)
LEMMA RankExists ==
  ASSUME NEW n \in Nat, NEW vals \in [1 .. n -> Int], NEW k \in 0 .. n - 1
  PROVE  \E v \in Range(vals) : HasRank(vals, v, k)
<1> DEFINE Enough == {v \in Range(vals) : k < Cardinality(Upto(vals, v))}
<1>1. Range(vals) \subseteq Int /\ \A i \in 1 .. n : vals[i] \in Range(vals)
  BY DEF Range
<1>2. \A v : Below(vals, v) \in SUBSET (1 .. n) /\ Upto(vals, v) \in SUBSET (1 .. n)
  BY DEF Below, Upto
<1>3. Range(vals) # {}
  BY <1>1
<1>4. PICK b \in Nat : \A i \in 1 .. n : -b <= vals[i] /\ vals[i] <= b
  BY ValuesBounded
<1>5. Enough # {}
  <2>1. b \in Int /\ \A w \in Range(vals) : w <= b
    BY <1>4 DEF Range
  <2>2. PICK v \in Range(vals) : \A w \in Range(vals) : w <= v
    BY <1>1, <1>3, <2>1, GreatestInt
  <2>3. Upto(vals, v) = 1 .. n
    BY <1>1, <2>2 DEF Upto
  <2>4. Cardinality(1 .. n) = n
    BY FS_Interval
  <2> QED BY <2>2, <2>3, <2>4
<1>6. PICK v \in Enough : \A w \in Enough : v <= w
  <2>1. Enough \subseteq Int /\ -b \in Int
    BY <1>1
  <2>2. \A w \in Enough : -b <= w
    BY <1>4 DEF Range
  <2> HIDE DEF Enough
  <2> QED BY <1>5, <2>1, <2>2, LeastInt
<1>7. Cardinality(Below(vals, v)) <= k
  <2> SUFFICES ASSUME ~(Cardinality(Below(vals, v)) <= k)  PROVE FALSE
    OBVIOUS
  <2> DEFINE Smaller == {vals[i] : i \in Below(vals, v)}
  <2>1. v \in Int /\ Smaller \subseteq Int /\ \A w \in Smaller : w <= v
    BY <1>1 DEF Below
  <2>2. Cardinality(Below(vals, v)) \in Nat
    BY <1>2, Counted
  <2>3. Below(vals, v) # {}
    <3>1. Below(vals, v) = {} => Cardinality(Below(vals, v)) = 0
      BY FS_EmptySet
    <3> QED BY <2>2, <3>1
  <2>4. Smaller # {}
    BY <2>3
  <2>5. PICK u \in Smaller : \A w \in Smaller : w <= u
    <3> HIDE DEF Smaller
    <3> QED BY <2>1, <2>4, GreatestInt
  <2>6. Upto(vals, u) = Below(vals, v)
    <3>1. \A i \in 1 .. n : vals[i] \in Int
      OBVIOUS
    <3>2. u \in Int /\ u < v
      BY <2>1 DEF Below
    <3>3. \A i \in Below(vals, v) : vals[i] <= u
      BY <2>5
    <3> QED BY <2>1, <3>1, <3>2, <3>3 DEF Upto, Below
  <2>7. u \in Range(vals)
    BY <1>1 DEF Below
  <2>8. k < Cardinality(Upto(vals, u))
    BY <2>2, <2>6
  <2>9. u \in Enough
    BY <2>7, <2>8
  <2> QED BY <1>6, <2>1, <2>9 DEF Below
<1> QED BY <1>6, <1>7 DEF HasRank

(* What has a higher rank is no smaller.                                   *)
LEMMA RankMonotone ==
  ASSUME NEW n \in Nat, NEW vals \in [1 .. n -> Int], NEW k \in Nat, NEW l \in Nat, k <= l,
         NEW v \in Range(vals), HasRank(vals, v, k),
         NEW w \in Range(vals), HasRank(vals, w, l)
  PROVE  v <= w
<1>1. v \in Int /\ w \in Int
  BY DEF Range
<1>2. SUFFICES ASSUME w < v  PROVE FALSE
  BY <1>1
<1>3. Upto(vals, w) \in SUBSET Below(vals, v) /\ Below(vals, v) \in SUBSET (1 .. n)
  BY <1>1, <1>2 DEF Upto, Below
<1>4. /\ Cardinality(Upto(vals, w)) \in Nat
      /\ Cardinality(Below(vals, v)) \in Nat
      /\ Cardinality(Upto(vals, w)) <= Cardinality(Below(vals, v))
  BY <1>3, Counted
<1> QED BY <1>4 DEF HasRank

(* sorted(vals)[k] is one of the values, its rank tells it from every      *)
(* other, and the sorted values ascend.                                    *)
LEMMA RankedIs ==
  ASSUME NEW n \in Nat, NEW vals \in [1 .. n -> Int], NEW k \in 0 .. n - 1
  PROVE  /\ Ranked(vals, k) \in Range(vals)
         /\ Ranked(vals, k) \in Int
         /\ HasRank(vals, Ranked(vals, k), k)
         /\ \A v \in Range(vals) : HasRank(vals, v, k) => v = Ranked(vals, k)
<1>1. \E v \in Range(vals) : HasRank(vals, v, k)
  BY RankExists
<1>2. Ranked(vals, k) \in Range(vals) /\ HasRank(vals, Ranked(vals, k), k)
  BY <1>1 DEF Ranked
<1>3. Range(vals) \subseteq Int
  BY DEF Range
<1>4. ASSUME NEW v \in Range(vals), HasRank(vals, v, k)  PROVE v = Ranked(vals, k)
  <2>1. v <= Ranked(vals, k) /\ Ranked(vals, k) <= v
    BY <1>2, <1>4, RankMonotone
  <2> QED BY <1>2, <1>3, <2>1
<1> QED BY <1>2, <1>3, <1>4

LEMMA RankedAscends ==
  ASSUME NEW n \in Nat, NEW vals \in [1 .. n -> Int],
         NEW k \in 0 .. n - 1, NEW l \in 0 .. n - 1, k <= l
  PROVE  Ranked(vals, k) <= Ranked(vals, l)
BY RankedIs, RankMonotone

-----------------------------------------------------------------------------
(* Sums.                                                                   *)

(* s holds the sums of the first values.                                   *)
IsSums(s, n, vals) ==
  /\ s \in [0 .. n -> Int]
  /\ s[0] = 0
  /\ \A i \in 1 .. n : s[i] = s[i - 1] + vals[i]

(* The recursion is well founded: sums exist for every length, and SumOf   *)
(* is the last of them.                                                    *)
LEMMA SumOfIs ==
  ASSUME NEW n \in Nat, NEW vals \in [1 .. n -> Int]
  PROVE  \E s : IsSums(s, n, vals) /\ SumOf(vals) = s[n]
<1> DEFINE Is(s, m) == s = [i \in 0 .. m |-> IF i = 0 THEN 0 ELSE s[i - 1] + vals[i]]
           Summed == {m \in 0 .. n : \E s : Is(s, m) /\ IsSums(s, m, vals)}
<1>1. 0 \in Summed
  <2> DEFINE s == [i \in 0 .. 0 |-> 0]
  <2>1. Is(s, 0)
    OBVIOUS
  <2>2. IsSums(s, 0, vals)
    BY DEF IsSums
  <2>3. 0 \in 0 .. n
    OBVIOUS
  <2> QED BY <2>1, <2>2, <2>3
<1>2. ASSUME NEW m \in 0 .. n - 1, m \in Summed  PROVE m + 1 \in Summed
  <2>1. PICK s : Is(s, m) /\ IsSums(s, m, vals)
    BY <1>2
  <2> DEFINE t == [i \in 0 .. m + 1 |-> IF i = m + 1 THEN s[m] + vals[m + 1] ELSE s[i]]
  <2>2. s \in [0 .. m -> Int] /\ s[0] = 0 /\ \A i \in 1 .. m : s[i] = s[i - 1] + vals[i]
    BY <2>1 DEF IsSums
  <2>3. vals[m + 1] \in Int
    OBVIOUS
  <2>4. t \in [0 .. m + 1 -> Int] /\ t[0] = 0
    BY <2>2, <2>3
  <2>5. ASSUME NEW i \in 1 .. m + 1  PROVE t[i] = t[i - 1] + vals[i]
    <3>1. i - 1 \in 0 .. m /\ i - 1 # m + 1 /\ i - 1 \in 0 .. m + 1 /\ i \in 0 .. m + 1
      OBVIOUS
    <3>2. CASE i = m + 1
      BY <3>1, <3>2
    <3>3. CASE i # m + 1
      BY <2>2, <3>1, <3>3
    <3> QED BY <3>2, <3>3
  <2>6. t = [i \in 0 .. m + 1 |-> IF i = 0 THEN 0 ELSE t[i - 1] + vals[i]]
    <3> HIDE DEF t
    <3> QED BY <2>4, <2>5
  <2>7. m + 1 \in 0 .. n
    OBVIOUS
  <2>8. IsSums(t, m + 1, vals)
    <3> HIDE DEF t
    <3> QED BY <2>4, <2>5 DEF IsSums
  <2> HIDE DEF t
  <2> QED BY <2>6, <2>7, <2>8
<1>3. n \in Summed
  <2> HIDE DEF Summed
  <2>1. \A m \in 0 .. n : m \in Summed
    BY <1>1, <1>2, UpToAll
  <2> QED BY <2>1
<1>4. Len(vals) = n
  OBVIOUS
<1>5. \E s : Is(s, n)
  BY <1>3
<1> DEFINE u == CHOOSE s : Is(s, n)
<1>6. SumOf(vals) = u[n]
  BY <1>4 DEF SumOf
<1>7. Is(u, n)
  <2> HIDE DEF Is
  <2> QED BY <1>5
<1>8. IsSums(u, n, vals)
  <2>1. PICK s : Is(s, n) /\ IsSums(s, n, vals)
    BY <1>3
  <2> HIDE DEF u
  <2> DEFINE Same == {m \in 0 .. n : u[m] = s[m]}
  <2>2. /\ DOMAIN u = 0 .. n /\ u[0] = 0
        /\ \A i \in 1 .. n : u[i] = u[i - 1] + vals[i]
    <3>1. u = [i \in 0 .. n |-> IF i = 0 THEN 0 ELSE u[i - 1] + vals[i]]
      BY <1>7
    <3> QED BY <3>1
  <2>3. s \in [0 .. n -> Int] /\ s[0] = 0 /\ \A i \in 1 .. n : s[i] = s[i - 1] + vals[i]
    BY <2>1 DEF IsSums
  <2>4. 0 \in Same
    BY <2>2, <2>3
  <2>5. ASSUME NEW m \in 0 .. n - 1, m \in Same  PROVE m + 1 \in Same
    <3>1. m + 1 \in 1 .. n /\ m + 1 \in 0 .. n /\ (m + 1) - 1 = m
      OBVIOUS
    <3> QED BY <2>2, <2>3, <2>5, <3>1
  <2>6. \A m \in 0 .. n : m \in Same
    <3> HIDE DEF Same
    <3> QED BY <2>4, <2>5, UpToAll
  <2>7. u \in [0 .. n -> Int]
    <3>1. \A m \in 0 .. n : u[m] \in Int
      BY <2>3, <2>6
    <3>2. u = [i \in 0 .. n |-> IF i = 0 THEN 0 ELSE u[i - 1] + vals[i]]
      BY <1>7
    <3>3. u = [i \in 0 .. n |-> u[i]]
      BY <3>2
    <3> QED BY <3>1, <3>3
  <2> QED BY <2>2, <2>7 DEF IsSums
<1> QED BY <1>6, <1>8

(* Sums of natural numbers are natural.                                    *)
LEMMA SumOfNat ==
  ASSUME NEW n \in Nat, NEW vals \in [1 .. n -> Nat]
  PROVE  SumOf(vals) \in Nat
<1>1. PICK s : IsSums(s, n, vals) /\ SumOf(vals) = s[n]
  BY SumOfIs
<1> DEFINE Natural == {m \in 0 .. n : s[m] \in Nat}
<1>2. 0 \in Natural
  BY <1>1 DEF IsSums
<1>3. ASSUME NEW m \in 0 .. n - 1, m \in Natural  PROVE m + 1 \in Natural
  <2>1. m + 1 \in 1 .. n /\ m + 1 \in 0 .. n /\ (m + 1) - 1 = m
    OBVIOUS
  <2>2. s[m + 1] = s[m] + vals[m + 1] /\ vals[m + 1] \in Nat
    BY <1>1, <2>1 DEF IsSums
  <2> QED BY <1>3, <2>1, <2>2
<1>4. \A m \in 0 .. n : m \in Natural
  <2> HIDE DEF Natural
  <2> QED BY <1>2, <1>3, UpToAll
<1> QED BY <1>1, <1>4

(* A sum whose terms exceed those of another by one, or not at all,        *)
(* exceeds it by the number of terms that do.                              *)
LEMMA SumsDiffer ==
  ASSUME NEW n \in Nat, NEW a \in [1 .. n -> Int], NEW b \in [1 .. n -> Int],
         \A i \in 1 .. n : a[i] - b[i] \in {0, 1}
  PROVE  SumOf(a) - SumOf(b) = Cardinality({i \in 1 .. n : a[i] - b[i] = 1})
<1>1. PICK s : IsSums(s, n, a) /\ SumOf(a) = s[n]
  BY SumOfIs
<1>2. PICK t : IsSums(t, n, b) /\ SumOf(b) = t[n]
  BY SumOfIs
<1> DEFINE S == {i \in 1 .. n : a[i] - b[i] = 1}
           Part(m) == S \intersect (1 .. m)
           Same == {m \in 0 .. n : s[m] - t[m] = Cardinality(Part(m))}
<1>3. /\ s \in [0 .. n -> Int] /\ s[0] = 0 /\ \A i \in 1 .. n : s[i] = s[i - 1] + a[i]
      /\ t \in [0 .. n -> Int] /\ t[0] = 0 /\ \A i \in 1 .. n : t[i] = t[i - 1] + b[i]
  BY <1>1, <1>2 DEF IsSums
<1>4. 0 \in Same
  <2>1. Part(0) = {}
    OBVIOUS
  <2>2. Cardinality(Part(0)) = 0
    BY <2>1, FS_EmptySet
  <2>3. 0 \in 0 .. n /\ s[0] - t[0] = 0
    BY <1>3
  <2> QED BY <2>2, <2>3
<1>5. ASSUME NEW m \in 0 .. n - 1, m \in Same  PROVE m + 1 \in Same
  <2>1. m + 1 \in 1 .. n /\ m + 1 \in 0 .. n /\ (m + 1) - 1 = m /\ m \in 0 .. n
    OBVIOUS
  <2>2. /\ s[m + 1] = s[m] + a[m + 1] /\ t[m + 1] = t[m] + b[m + 1]
        /\ s[m] \in Int /\ t[m] \in Int /\ a[m + 1] \in Int /\ b[m + 1] \in Int
    BY <1>3, <2>1
  <2>3. s[m] - t[m] = Cardinality(Part(m))
    BY <1>5
  <2>4. Part(m) \in SUBSET (1 .. n) /\ m + 1 \notin Part(m)
    <3>1. m + 1 \notin 1 .. m
      OBVIOUS
    <3> QED BY <3>1
  <2>5. IsFiniteSet(Part(m)) /\ Cardinality(Part(m)) \in Nat
    <3> HIDE DEF Part
    <3> QED BY <2>4, Counted
  <2>6. CASE m + 1 \in S
    <3>1. Part(m + 1) = Part(m) \union {m + 1}
      <4>1. 1 .. m + 1 = (1 .. m) \union {m + 1}
        OBVIOUS
      <4> HIDE DEF S
      <4> QED BY <2>6, <4>1
    <3> HIDE DEF Part, Same
    <3>2. Cardinality(Part(m + 1)) = Cardinality(Part(m)) + 1
      BY <2>4, <2>5, <3>1, FS_AddElement
    <3>3. a[m + 1] - b[m + 1] = 1
      BY <2>1, <2>6
    <3> DEFINE x == a[m + 1]
               y == b[m + 1]
               u == s[m]
               v == t[m]
    <3>4. s[m + 1] - t[m + 1] = (s[m] - t[m]) + 1
      <4>1. s[m + 1] = u + x /\ t[m + 1] = v + y
        BY <2>2
      <4>2. x \in Int /\ y \in Int /\ u \in Int /\ v \in Int /\ x - y = 1
        BY <2>2, <3>3
      <4>3. ASSUME NEW p, NEW q, p = u + x, q = v + y  PROVE p - q = (u - v) + 1
        <5> HIDE DEF x, y, u, v
        <5> QED BY <4>2, <4>3
      <4> QED BY <4>1, <4>3
    <3>5. s[m + 1] - t[m + 1] = Cardinality(Part(m + 1))
      BY <2>3, <3>2, <3>4
    <3> QED BY <2>1, <3>5 DEF Same
  <2>7. CASE m + 1 \notin S
    <3>1. Part(m + 1) = Part(m)
      <4>1. \A i \in 1 .. m + 1 : i \in 1 .. m \/ i = m + 1
        OBVIOUS
      <4>2. \A i \in 1 .. m : i \in 1 .. m + 1
        OBVIOUS
      <4> QED BY <2>7, <4>1, <4>2
    <3> HIDE DEF Part, Same
    <3>2. a[m + 1] - b[m + 1] = 0
      BY <2>1, <2>7
    <3>3. s[m + 1] - t[m + 1] = s[m] - t[m]
      BY <2>2, <3>2
    <3>4. s[m + 1] - t[m + 1] = Cardinality(Part(m + 1))
      BY <2>3, <3>1, <3>3
    <3> QED BY <2>1, <3>4 DEF Same
  <2> QED BY <2>6, <2>7
<1>6. n \in Same
  <2> HIDE DEF Same
  <2>1. \A m \in 0 .. n : m \in Same
    BY <1>4, <1>5, UpToAll
  <2> QED BY <2>1
<1>7. Part(n) = S
  OBVIOUS
<1> HIDE DEF Part
<1> QED BY <1>1, <1>2, <1>6, <1>7

(* The sum of the steps of a sequence, each less by one, is the way from   *)
(* its first value to its last, less the number of steps.                  *)
LEMMA SumTelescopes ==
  ASSUME NEW n \in Nat, NEW vals \in [1 .. n -> Int], NEW pos \in [1 .. n + 1 -> Int],
         \A i \in 1 .. n : vals[i] = pos[i + 1] - pos[i] - 1
  PROVE  SumOf(vals) = pos[n + 1] - pos[1] - n
<1>1. PICK s : IsSums(s, n, vals) /\ SumOf(vals) = s[n]
  BY SumOfIs
<1>2. s \in [0 .. n -> Int] /\ s[0] = 0 /\ \A i \in 1 .. n : s[i] = s[i - 1] + vals[i]
  BY <1>1 DEF IsSums
<1> DEFINE There == {m \in 0 .. n : s[m] = pos[m + 1] - pos[1] - m}
<1>3. 0 \in There
  BY <1>2
<1>4. ASSUME NEW m \in 0 .. n - 1, m \in There  PROVE m + 1 \in There
  <2>1. m + 1 \in 1 .. n /\ m + 1 \in 0 .. n /\ (m + 1) - 1 = m /\ m \in 0 .. n
    OBVIOUS
  <2>2. s[m + 1] = s[m] + vals[m + 1] /\ vals[m + 1] = pos[(m + 1) + 1] - pos[m + 1] - 1
    BY <1>2, <2>1
  <2>3. s[m] = pos[m + 1] - pos[1] - m
    BY <1>4
  <2>4. pos[1] \in Int /\ pos[m + 1] \in Int /\ pos[(m + 1) + 1] \in Int
    OBVIOUS
  <2>5. s[m + 1] = pos[(m + 1) + 1] - pos[1] - (m + 1)
    BY <2>2, <2>3, <2>4
  <2> QED BY <2>1, <2>5
<1>5. n \in There
  <2> HIDE DEF There
  <2>1. \A m \in 0 .. n : m \in There
    BY <1>3, <1>4, UpToAll
  <2> QED BY <2>1
<1> QED BY <1>1, <1>5
=============================================================================
