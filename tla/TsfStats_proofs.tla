--------------------------- MODULE TsfStats_proofs ---------------------------
(***************************************************************************)
(* Lemmas about the estimates of lost frames and the curves, for           *)
(* timestamps of any length.                                               *)
(***************************************************************************)
EXTENDS TsfStats, Ranks_proofs

(* A median is one of the intervals.                                       *)
LEMMA PercentileIs ==
  ASSUME NEW n \in Nat \ {0}, NEW diffs \in [1 .. n -> Int], NEW p \in 0 .. 100
  PROVE  /\ ((n - 1) * p) \div 100 \in 0 .. n - 1
         /\ Percentile(diffs, p) = Ranked(diffs, ((n - 1) * p) \div 100)
         /\ Percentile(diffs, p) \in Range(diffs)
         /\ Percentile(diffs, p) \in Int
<1> DEFINE k == ((n - 1) * p) \div 100
<1>1. k \in 0 .. n - 1
  <2> DEFINE a == (n - 1) * p
  <2>1. a \in Nat /\ a <= 100 * (n - 1)
    OBVIOUS
  <2> HIDE DEF a
  <2>2. a \div 100 \in 0 .. n - 1
    BY <2>1
  <2> QED BY <2>2 DEF a
<1>2. Len(diffs) = n /\ diffs # <<>>
  OBVIOUS
<1>3. Percentile(diffs, p) = Ranked(diffs, k)
  BY <1>2 DEF Percentile
<1> HIDE DEF k
<1>4. Ranked(diffs, k) \in Range(diffs) /\ Ranked(diffs, k) \in Int
  BY <1>1, RankedIs
<1> QED BY <1>1, <1>3, <1>4 DEF k

LEMMA SmallRemainder ==
  ASSUME NEW d \in Nat, NEW m \in Nat \ {0}, d < m
  PROVE  d % m = d
<1> DEFINE q == d \div m
           r == d % m
<1>1. q \in Nat /\ r \in 0 .. m - 1 /\ d = m * q + r
  OBVIOUS
<1> HIDE DEF q, r
<1>2. ASSUME q > 0  PROVE FALSE
  <2>1. m * q >= m
    BY <1>1, <1>2
  <2> QED BY <1>1, <2>1
<1>3. q = 0
  BY <1>1, <1>2
<1>4. m * q = 0
  BY <1>3
<1>5. d = r
  BY <1>1, <1>4
<1> QED BY <1>5 DEF r

(* Neighbours in order whose difference fits a uint64_t.                   *)
LEMMA SameIntervals ==
  ASSUME NEW tsfs \in Seq(Int), InOrder(tsfs),
         \A i \in 1 .. Len(tsfs) - 1 : tsfs[i + 1] - tsfs[i] < U64
  PROVE  /\ IntervalsU64(tsfs) = Intervals(tsfs)
         /\ \A i \in 1 .. Len(tsfs) - 1 : Intervals(tsfs)[i] \in Nat
<1>1. ASSUME NEW i \in 1 .. Len(tsfs) - 1
      PROVE  /\ tsfs[i + 1] - tsfs[i] \in Nat
             /\ (tsfs[i + 1] - tsfs[i]) % U64 = tsfs[i + 1] - tsfs[i]
  <2>1. i \in 1 .. Len(tsfs) /\ i + 1 \in 1 .. Len(tsfs)
    OBVIOUS
  <2>2. tsfs[i] \in Int /\ tsfs[i + 1] \in Int /\ tsfs[i] <= tsfs[i + 1]
    BY <2>1 DEF InOrder
  <2> DEFINE d == tsfs[i + 1] - tsfs[i]
  <2>3. d \in Nat /\ d < U64
    BY <2>2
  <2> HIDE DEF d
  <2>4. d % U64 = d
    BY <2>3, U64Assumption, SmallRemainder
  <2> QED BY <2>3, <2>4 DEF d
<1> QED BY <1>1 DEF IntervalsU64, Intervals

(* What the two programs make of one interval.                             *)
LEMMA OneInterval ==
  ASSUME NEW d \in Nat, NEW p \in Nat \ {0}
  PROVE  /\ IsGap(d, p) <=> IsGapC(d, p)
         /\ LostIn(d, p) \in Nat /\ LostInC(d, p) \in Int
         /\ IsGap(d, p) =>
              LostInC(d, p) - LostIn(d, p) =
                IF 2 * (d % p) = p /\ (d \div p) % 2 = 0 THEN 1 ELSE 0
<1>1. IsGap(d, p) <=> IsGapC(d, p)
  <2> DEFINE h == (3 * p) \div 2
  <2>1. h \in Nat /\ (3 * p = 2 * h \/ 3 * p = 2 * h + 1)
    OBVIOUS
  <2> HIDE DEF h
  <2>2. 2 * d > 3 * p <=> d > h
    BY <2>1
  <2> QED BY <2>2 DEF IsGap, IsGapC, h
<1> DEFINE q == d \div p
           r == d % p
           even == IF 2 * r > p \/ (2 * r = p /\ q % 2 = 1) THEN q + 1 ELSE q
<1>2. q \in Nat /\ r \in 0 .. p - 1 /\ d = p * q + r
  OBVIOUS
<1>3. /\ LostIn(d, p) = IF even - 1 > 0 THEN even - 1 ELSE 0
      /\ LostInC(d, p) = (IF 2 * r >= p THEN q + 1 ELSE q) - 1
  BY DEF LostIn, LostInC, RoundHalfEven, RoundHalfUp
<1>4. q % 2 \in {0, 1}
  BY <1>2
<1> HIDE DEF q, r
<1>5. LostIn(d, p) \in Nat /\ LostInC(d, p) \in Int
  BY <1>2, <1>3
<1>6. IsGap(d, p) => LostInC(d, p) - LostIn(d, p) = IF 2 * r = p /\ q % 2 = 0 THEN 1 ELSE 0
  <2> SUFFICES ASSUME 2 * d > 3 * p
               PROVE  LostInC(d, p) - LostIn(d, p) = IF 2 * r = p /\ q % 2 = 0 THEN 1 ELSE 0
    BY DEF IsGap
  <2>1. CASE q = 0
    <3>1. d = r
      BY <1>2, <2>1
    <3> QED BY <1>2, <3>1
  <2>2. CASE q = 1
    <3>1. d = p + r
      BY <1>2, <2>2
    <3>2. 2 * r > p
      BY <1>2, <3>1
    <3>3. LostIn(d, p) = 1 /\ LostInC(d, p) = 1
      BY <1>2, <1>3, <2>2, <3>2
    <3> QED BY <1>2, <3>2, <3>3
  <2>3. CASE q >= 2
    <3>1. CASE 2 * r > p
      BY <1>2, <1>3, <2>3, <3>1
    <3>2. CASE 2 * r < p
      BY <1>2, <1>3, <2>3, <3>2
    <3>3. CASE 2 * r = p /\ q % 2 = 0
      BY <1>2, <1>3, <2>3, <3>3
    <3>4. CASE 2 * r = p /\ q % 2 = 1
      BY <1>2, <1>3, <2>3, <3>4
    <3> QED BY <1>2, <1>4, <3>1, <3>2, <3>3, <3>4
  <2> QED BY <1>2, <2>1, <2>2, <2>3
<1> QED BY <1>1, <1>5, <1>6 DEF q, r

(* The number of intervals between n timestamps is n - 1, or none.         *)
LEMMA IntervalsAre ==
  ASSUME NEW tsfs \in Seq(Int)
  PROVE  \E n \in Nat : /\ 1 .. Len(tsfs) - 1 = 1 .. n
                        /\ Len(tsfs) > 1 => n = Len(tsfs) - 1
                        /\ Intervals(tsfs) \in [1 .. n -> Int]
                        /\ IntervalsU64(tsfs) \in [1 .. n -> Int]
<1> DEFINE n == IF Len(tsfs) = 0 THEN 0 ELSE Len(tsfs) - 1
<1>1. n \in Nat /\ 1 .. Len(tsfs) - 1 = 1 .. n /\ (Len(tsfs) > 1 => n = Len(tsfs) - 1)
  OBVIOUS
<1>2. ASSUME NEW i \in 1 .. Len(tsfs) - 1
      PROVE  tsfs[i + 1] - tsfs[i] \in Int /\ (tsfs[i + 1] - tsfs[i]) % U64 \in Int
  <2>1. i \in 1 .. Len(tsfs) /\ i + 1 \in 1 .. Len(tsfs)
    OBVIOUS
  <2>2. tsfs[i] \in Int /\ tsfs[i + 1] \in Int
    BY <2>1
  <2> QED BY <2>2, U64Assumption
<1>3. /\ Intervals(tsfs) \in [1 .. Len(tsfs) - 1 -> Int]
      /\ IntervalsU64(tsfs) \in [1 .. Len(tsfs) - 1 -> Int]
  BY <1>2 DEF Intervals, IntervalsU64
<1> HIDE DEF n
<1> QED BY <1>1, <1>3

(* The receiver's estimate is a number of frames.                          *)
LEMMA LostIsNat ==
  ASSUME NEW tsfs \in Seq(Int)
  PROVE  Lost(tsfs) \in Nat
<1> DEFINE diffs == Intervals(tsfs)
           p == Percentile(diffs, 50)
           b == [i \in DOMAIN diffs |->
                   IF IsGap(diffs[i], p) THEN LostIn(diffs[i], p) ELSE 0]
<1>1. PICK n \in Nat : diffs \in [1 .. n -> Int]
  BY IntervalsAre
<1>2. Lost(tsfs) = IF p > 0 THEN SumOf(b) ELSE 0
  BY DEF Lost
<1>3. CASE n = 0
  <2>1. diffs = <<>>
    BY <1>1, <1>3
  <2>2. p = 0
    BY <2>1 DEF Percentile
  <2> HIDE DEF p, b
  <2> QED BY <1>2, <2>2
<1>4. CASE n # 0
  <2> HIDE DEF diffs
  <2>1. p \in Int
    BY <1>1, <1>4, PercentileIs
  <2>2. ASSUME p > 0, NEW i \in 1 .. n
        PROVE  (IF IsGap(diffs[i], p) THEN LostIn(diffs[i], p) ELSE 0) \in Nat
    <3>1. CASE IsGap(diffs[i], p)
      <4>1. diffs[i] \in Nat /\ p \in Nat \ {0}
        BY <1>1, <2>1, <2>2, <3>1 DEF IsGap
      <4> QED BY <3>1, <4>1, OneInterval
    <3>2. CASE ~IsGap(diffs[i], p)
      BY <3>2
    <3> QED BY <3>1, <3>2
  <2>3. ASSUME p > 0  PROVE b \in [1 .. n -> Nat]
    <3>1. DOMAIN diffs = 1 .. n
      BY <1>1
    <3> HIDE DEF p
    <3> QED BY <2>2, <2>3, <3>1
  <2> HIDE DEF b, p
  <2>4. ASSUME p > 0  PROVE SumOf(b) \in Nat
    <3>1. n \in Nat /\ b \in [1 .. n -> Nat]
      BY <2>3, <2>4
    <3> QED BY <3>1, SumOfNat
  <2>5. CASE p > 0
    BY <1>2, <2>4, <2>5
  <2>6. CASE ~(p > 0)
    BY <1>2, <2>6
  <2> QED BY <2>5, <2>6
<1> QED BY <1>3, <1>4

(* csi_bench's estimate is the receiver's and one more for each even half. *)
LEMMA EstimatesDiffer ==
  ASSUME NEW tsfs \in Seq(Int), InOrder(tsfs),
         \A i \in 1 .. Len(tsfs) - 1 : tsfs[i + 1] - tsfs[i] < U64
  PROVE  LostC(tsfs) - Lost(tsfs) = Cardinality(EvenHalves(tsfs))
<1> DEFINE diffs == Intervals(tsfs)
           p == Percentile(diffs, 50)
           n == IF tsfs = <<>> THEN 0 ELSE Len(tsfs) - 1
<1>1. n \in Nat /\ 1 .. Len(tsfs) - 1 = 1 .. n
  OBVIOUS
<1>2. diffs \in [1 .. n -> Nat] /\ IntervalsU64(tsfs) = diffs
  <2>1. diffs = [i \in 1 .. n |-> diffs[i]]
    BY <1>1 DEF Intervals
  <2> QED BY <1>1, <2>1, SameIntervals
<1>3. p \in Nat
  <2>1. CASE n = 0
    <3>1. diffs = <<>>
      BY <1>2, <2>1
    <3> QED BY <3>1 DEF Percentile
  <2>2. CASE n # 0
    <3>1. n \in Nat \ {0} /\ diffs \in [1 .. n -> Int]
      BY <1>1, <1>2, <2>2
    <3> HIDE DEF diffs, n
    <3>2. p \in Range(diffs)
      BY <3>1, PercentileIs
    <3> QED BY <1>2, <3>2 DEF Range
  <2> QED BY <2>1, <2>2
<1> HIDE DEF n
<1>4. CASE p = 0
  <2>1. Lost(tsfs) = 0 /\ LostC(tsfs) = 0
    BY <1>2, <1>4 DEF Lost, LostC
  <2>2. EvenHalves(tsfs) = {}
    BY <1>4 DEF EvenHalves
  <2> QED BY <2>1, <2>2, FS_EmptySet
<1>5. CASE p > 0
  <2> DEFINE a == [i \in DOMAIN diffs |->
                     IF IsGapC(diffs[i], p) THEN LostInC(diffs[i], p) ELSE 0]
             b == [i \in DOMAIN diffs |->
                     IF IsGap(diffs[i], p) THEN LostIn(diffs[i], p) ELSE 0]
             S == EvenHalves(tsfs)
  <2>1. LostC(tsfs) = SumOf(a) /\ Lost(tsfs) = SumOf(b)
    BY <1>2, <1>5 DEF Lost, LostC
  <2>2. DOMAIN diffs = 1 .. n /\ p \in Nat \ {0} /\ \A i \in 1 .. n : diffs[i] \in Nat
    BY <1>2, <1>3, <1>5
  <2>3. S = {i \in 1 .. n : /\ IsGap(diffs[i], p)
                            /\ 2 * (diffs[i] % p) = p
                            /\ (diffs[i] \div p) % 2 = 0}
    BY <1>5, <2>2 DEF EvenHalves
  <2> HIDE DEF diffs, p, S
  <2>4. ASSUME NEW i \in 1 .. n  PROVE a[i] \in Int /\ b[i] \in Int
    <3> HIDE DEF a, b
    <3>1. LostInC(diffs[i], p) \in Int /\ LostIn(diffs[i], p) \in Nat
      BY <2>2, OneInterval
    <3>2. i \in DOMAIN diffs
      BY <2>2
    <3> QED BY <3>1, <3>2 DEF a, b
  <2>5. ASSUME NEW i \in 1 .. n  PROVE a[i] - b[i] = IF i \in S THEN 1 ELSE 0
    <3>1. diffs[i] \in Nat
      BY <2>2
    <3>2. CASE IsGap(diffs[i], p)
      <4>1. a[i] = LostInC(diffs[i], p) /\ b[i] = LostIn(diffs[i], p)
        BY <2>2, <3>1, <3>2, OneInterval
      <4>2. i \in S <=> 2 * (diffs[i] % p) = p /\ (diffs[i] \div p) % 2 = 0
        BY <2>3, <3>2
      <4>3. a[i] - b[i] =
              IF 2 * (diffs[i] % p) = p /\ (diffs[i] \div p) % 2 = 0 THEN 1 ELSE 0
        <5> HIDE DEF a, b
        <5> QED BY <2>2, <3>1, <3>2, <4>1, OneInterval
      <4> HIDE DEF a, b
      <4> QED BY <4>2, <4>3
    <3>3. CASE ~IsGap(diffs[i], p)
      <4>1. a[i] = 0 /\ b[i] = 0
        BY <2>2, <3>1, <3>3, OneInterval
      <4>2. i \notin S
        BY <2>3, <3>3
      <4> HIDE DEF a, b
      <4> QED BY <4>1, <4>2
    <3> QED BY <3>2, <3>3
  <2>6. a \in [1 .. n -> Int] /\ b \in [1 .. n -> Int]
    <3>1. DOMAIN diffs = 1 .. n
      BY <2>2
    <3> QED BY <2>4, <3>1
  <2>7. S \in SUBSET (1 .. n)
    BY <2>3
  <2> HIDE DEF a, b
  <2>8. SumOf(a) - SumOf(b) = Cardinality(S)
    <3>1. \A i \in 1 .. n : a[i] - b[i] \in {0, 1}
      BY <2>5
    <3>2. S = {i \in 1 .. n : a[i] - b[i] = 1}
      <4>1. \A i \in 1 .. n : i \in S <=> a[i] - b[i] = 1
        BY <2>5
      <4> QED BY <2>7, <4>1
    <3>3. n \in Nat
      BY <1>1
    <3> QED BY <2>6, <3>1, <3>2, <3>3, SumsDiffer
  <2> QED BY <2>1, <2>8 DEF S
<1> QED BY <1>3, <1>4, <1>5

(* k periods are k - 1 frames lost.                                        *)
LEMMA WholePeriods ==
  ASSUME NEW k \in Nat \ {0}, NEW p \in Nat \ {0}
  PROVE  (IF IsGap(p * k, p) THEN LostIn(p * k, p) ELSE 0) = k - 1
<1> DEFINE d == p * k
<1>1. d \in Nat /\ d \div p = k /\ d % p = 0
  <2> DEFINE q == d \div p
             r == d % p
  <2>1. d \in Nat
    OBVIOUS
  <2>2. q \in Nat /\ r \in 0 .. p - 1 /\ p * k = p * q + r
    BY <2>1
  <2> HIDE DEF q, r, d
  <2>3. p * (k - q) = r
    <3>1. p * (k - q) = p * k - p * q
      BY <2>2
    <3> QED BY <2>2, <3>1
  <2>4. k - q = 0
    <3>1. ASSUME k - q >= 1  PROVE FALSE
      <4>1. p * (k - q) >= p
        BY <2>2, <3>1
      <4> QED BY <2>2, <2>3, <4>1
    <3>2. ASSUME k - q <= -1  PROVE FALSE
      <4>1. p * (k - q) <= -p
        BY <2>2, <3>2
      <4> QED BY <2>2, <2>3, <4>1
    <3> QED BY <2>2, <3>1, <3>2
  <2>5. k = q /\ r = 0
    BY <2>2, <2>3, <2>4
  <2> QED BY <2>1, <2>5 DEF q, r
<1>2. CASE k = 1
  <2>1. d = p
    BY <1>2
  <2>2. ~IsGap(d, p)
    BY <2>1 DEF IsGap
  <2> QED BY <1>2, <2>2
<1>3. CASE k > 1
  <2>1. d >= 2 * p
    BY <1>3
  <2> HIDE DEF d
  <2>2. IsGap(d, p)
    BY <1>1, <2>1 DEF IsGap
  <2>3. LostIn(d, p) = k - 1
    BY <1>1, <1>3 DEF LostIn, RoundHalfEven
  <2> QED BY <2>2, <2>3 DEF d
<1> QED BY <1>2, <1>3

(* The timestamps of frames nums keep the beat of period p.                *)
KeepBeat(tsfs, nums, n, p) ==
  \A i \in 1 .. n : tsfs[i + 1] - tsfs[i] = p * (nums[i + 1] - nums[i])

(* The numbers of n + 1 frames ascend.                                     *)
Climbs(nums, n) == \A i \in 1 .. n : nums[i] < nums[i + 1]

(* On the beat the losses are the numbers missing.                         *)
LEMMA ExactOnBeat ==
  ASSUME NEW n \in Nat \ {0}, NEW tsfs \in [1 .. n + 1 -> Int],
         NEW nums \in [1 .. n + 1 -> Nat], NEW p \in Nat \ {0},
         Climbs(nums, n), KeepBeat(tsfs, nums, n, p),
         Percentile(Intervals(tsfs), 50) = p
  PROVE  Lost(tsfs) = nums[n + 1] - nums[1] - n
<1> DEFINE diffs == Intervals(tsfs)
           nominal == Percentile(diffs, 50)
           b == [i \in DOMAIN diffs |->
                   IF IsGap(diffs[i], nominal) THEN LostIn(diffs[i], nominal) ELSE 0]
<1>1. Len(tsfs) - 1 = n
  OBVIOUS
<1>2. diffs = [i \in 1 .. n |-> tsfs[i + 1] - tsfs[i]]
  BY <1>1 DEF Intervals
<1>3. nominal = p
  OBVIOUS
<1>4. Lost(tsfs) = SumOf(b)
  <2>1. nominal > 0
    BY <1>3
  <2> QED BY <2>1 DEF Lost
<1>5. ASSUME NEW i \in 1 .. n
      PROVE  b[i] = nums[i + 1] - nums[i] - 1 /\ b[i] \in Int
  <2> DEFINE k == nums[i + 1] - nums[i]
  <2>1. nums[i] \in Nat /\ nums[i + 1] \in Nat /\ nums[i] < nums[i + 1]
    BY DEF Climbs
  <2>2. k \in Nat \ {0}
    <3>1. \A x, y \in Nat : x < y => y - x \in Nat \ {0}
      OBVIOUS
    <3> DEFINE x == nums[i]
               y == nums[i + 1]
    <3>2. x \in Nat /\ y \in Nat /\ x < y
      BY <2>1
    <3> HIDE DEF x, y
    <3>3. y - x \in Nat \ {0}
      BY <3>1, <3>2
    <3> QED BY <3>3 DEF x, y
  <2>3. i \in DOMAIN diffs /\ diffs[i] = p * k
    BY <1>2 DEF KeepBeat
  <2> HIDE DEF diffs, nominal, k
  <2>4. b[i] = IF IsGap(p * k, p) THEN LostIn(p * k, p) ELSE 0
    BY <1>3, <2>3
  <2>5. b[i] = k - 1
    BY <2>2, <2>4, WholePeriods
  <2>6. b[i] \in Int
    BY <2>2, <2>5
  <2> QED BY <2>5, <2>6 DEF k
<1>6. DOMAIN b = 1 .. n
  BY <1>2
<1>7. nums \in [1 .. n + 1 -> Int]
  OBVIOUS
<1>8. b \in [1 .. n -> Int]
  <2>1. ASSUME NEW i \in 1 .. n  PROVE b[i] \in Int
    BY <1>5
  <2>2. b = [i \in 1 .. n |-> b[i]]
    BY <1>6
  <2> HIDE DEF b, diffs, nominal
  <2> QED BY <2>1, <2>2
<1> HIDE DEF b, diffs, nominal
<1>9. n \in Nat
  OBVIOUS
<1>10. SumOf(b) = nums[n + 1] - nums[1] - n
  BY <1>5, <1>7, <1>8, <1>9, SumTelescopes
<1> QED BY <1>4, <1>10

(* The curve of a file with more than one interval, read off at p percent. *)
LEMMA CurveIsPercentile ==
  ASSUME NEW n \in Nat, n > 1, NEW diffs \in [1 .. n -> Int], NEW p \in 0 .. 100
  PROVE  ReadOff(Cdf(diffs), p) = Percentile(diffs, p)
<1> DEFINE k == ((n - 1) * p) \div 100
           iv == load_intervals(diffs)
           curve == Cdf(diffs)
           S == {curve[i].us :
                   i \in {j \in DOMAIN curve : 100 * curve[j].share <= p * curve[j].of}}
           top == Ranked(diffs, k)
<1>1. n \in Nat \ {0}
  OBVIOUS
<1>2. k \in 0 .. n - 1 /\ Percentile(diffs, p) = top
  <2> HIDE DEF k
  <2> QED BY <1>1, PercentileIs DEF k
<1>3. iv = [i \in 1 .. n |-> Ranked(diffs, i - 1)] /\ Len(iv) = n
  <2>1. iv = [i \in 1 .. n |-> Ranked(diffs, i - 1)]
    BY DEF load_intervals
  <2> QED BY <2>1
<1>4. curve = [i \in 1 .. n |->
                 [us |-> Ranked(diffs, i - 1), share |-> i - 1, of |-> n - 1]]
  <2> HIDE DEF iv
  <2> QED BY <1>3 DEF Cdf, iv
<1>5. ASSUME NEW j \in 1 .. n  PROVE 100 * (j - 1) <= p * (n - 1) <=> j - 1 <= k
  <2> DEFINE a == (n - 1) * p
  <2>1. a \in Nat /\ a = p * (n - 1)
    OBVIOUS
  <2> HIDE DEF a
  <2>2. 100 * (j - 1) <= a <=> j - 1 <= a \div 100
    BY <2>1
  <2> QED BY <2>1, <2>2 DEF a
<1>6. ASSUME NEW j \in 1 .. n
      PROVE  /\ curve[j].us = Ranked(diffs, j - 1)
             /\ 100 * curve[j].share <= p * curve[j].of <=> j - 1 <= k
  <2> HIDE DEF curve, k
  <2> QED BY <1>4, <1>5
<1>7. DOMAIN curve = 1 .. n
  <2> HIDE DEF curve
  <2> QED BY <1>4
<1> HIDE DEF curve, k
<1>8. S = {Ranked(diffs, j - 1) : j \in {i \in 1 .. n : i - 1 <= k}}
  BY <1>6, <1>7
<1>9. top \in S
  <2>1. k + 1 \in {i \in 1 .. n : i - 1 <= k} /\ (k + 1) - 1 = k
    BY <1>2
  <2> HIDE DEF S
  <2> QED BY <1>8, <2>1
<1>10. ASSUME NEW y \in S  PROVE y \in Int /\ y <= top /\ top \in Int
  <2>1. PICK j \in 1 .. n : j - 1 <= k /\ y = Ranked(diffs, j - 1)
    BY <1>8, <1>10
  <2>2. j - 1 \in 0 .. n - 1
    OBVIOUS
  <2> HIDE DEF S
  <2> QED BY <1>2, <2>1, <2>2, RankedIs, RankedAscends
<1>11. Max(S) = top
  <2> HIDE DEF S, top
  <2>1. \A x \in S : (\A y \in S : x >= y) => x = top
    BY <1>9, <1>10
  <2>2. \A y \in S : top >= y
    BY <1>10
  <2> QED BY <1>9, <2>1, <2>2 DEF Max
<1>12. ReadOff(curve, p) = Max(S)
  BY DEF ReadOff
<1> QED BY <1>2, <1>11, <1>12 DEF curve
=============================================================================
