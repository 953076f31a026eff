--------------------------- MODULE CsiRing_proofs ---------------------------
(***************************************************************************)
(* Facts about the ring geometry and the __u32 index arithmetic that the   *)
(* proofs about the driver rest on.                                        *)
(***************************************************************************)
EXTENDS CsiRing, TLAPS

(* A number has one remainder.                                             *)
LEMMA RemainderUnique ==
  ASSUME NEW n \in Nat \ {0}, NEW a \in Int, NEW b \in Int,
         NEW s \in 0 .. n - 1, NEW t \in 0 .. n - 1,
         n * a + s = n * b + t
  PROVE  s = t
<1>1. CASE a = b
  BY <1>1
<1>2. CASE a > b
  <2>1. a >= b + 1  BY <1>2
  <2>2. n * a >= n * (b + 1) BY <2>1
  <2>3. n * (b + 1) = n * b + n OBVIOUS
  <2> QED BY <2>2, <2>3
<1>3. CASE a < b
  <2>1. b >= a + 1  BY <1>3
  <2>2. n * b >= n * (a + 1) BY <2>1
  <2>3. n * (a + 1) = n * a + n OBVIOUS
  <2> QED BY <2>2, <2>3
<1> QED BY <1>1, <1>2, <1>3

(* Reducing modulo a multiple of n first does not change the remainder by n. *)
LEMMA ModOfMod ==
  ASSUME NEW n \in Nat \ {0}, NEW u \in Nat \ {0}, u % n = 0, NEW k \in Nat
  PROVE  (k % u) % n = k % n
<1> DEFINE q == u \div n
           d == k \div u
           r == k % u
           e == r \div n
           s == r % n
           f == k \div n
           t == k % n
<1>1. q \in Int /\ u = n * q
  OBVIOUS
<1>2. d \in Int /\ r \in Nat /\ k = u * d + r
  OBVIOUS
<1>3. e \in Int /\ s \in 0 .. n - 1 /\ r = n * e + s
  BY <1>2
<1>4. f \in Int /\ t \in 0 .. n - 1 /\ k = n * f + t
  OBVIOUS
<1>5. u * d = n * (q * d)
  BY <1>1, <1>2
<1>6. n * (q * d + e) + s = n * f + t
  <2> HIDE DEF q, d, r, e, s, f, t
  <2>1. n * (q * d + e) = n * (q * d) + n * e
    BY <1>1, <1>2, <1>3
  <2> QED BY <2>1, <1>2, <1>3, <1>4, <1>5
<1> QED
  <2> HIDE DEF q, d, r, e, s, f, t
  <2>1. q * d + e \in Int BY <1>1, <1>2, <1>3
  <2>2. s = t BY <2>1, <1>3, <1>4, <1>6, RemainderUnique
  <2> QED BY <2>2 DEF s, t, r

(* Two numbers closer than n have different remainders by n.               *)
LEMMA ModDiffer ==
  ASSUME NEW n \in Nat \ {0}, NEW a \in Nat, NEW b \in Nat, b < a, a - b < n
  PROVE  a % n # b % n
<1> DEFINE p == a \div n
           q == b \div n
           r == a % n
<1> SUFFICES ASSUME a % n = b % n  PROVE FALSE
  OBVIOUS
<1>1. p \in Int /\ q \in Int /\ r \in Int /\ a = n * p + r /\ b = n * q + r
  OBVIOUS
<1> HIDE DEF p, q, r
<1>2. CASE p <= q
  <2>1. n * p <= n * q  BY <1>1, <1>2
  <2> QED BY <2>1, <1>1
<1>3. CASE p >= q + 1
  <2>1. n * p >= n * (q + 1)   BY <1>1, <1>3
  <2>2. n * (q + 1) = n * q + n  BY <1>1
  <2> QED BY <2>1, <2>2, <1>1
<1> QED BY <1>1, <1>2, <1>3

(* Reducing before the increment changes nothing.                          *)
LEMMA ModNext ==
  ASSUME NEW n \in Nat \ {0}, NEW k \in Nat
  PROVE  ((k % n) + 1) % n = (k + 1) % n
<1> DEFINE p == k \div n
           r == k % n
           e == (r + 1) \div n
           s == (r + 1) % n
           f == (k + 1) \div n
           t == (k + 1) % n
<1>1. p \in Int /\ r \in Nat /\ k = n * p + r
  OBVIOUS
<1>2. e \in Int /\ s \in 0 .. n - 1 /\ r + 1 = n * e + s
  BY <1>1
<1>3. f \in Int /\ t \in 0 .. n - 1 /\ k + 1 = n * f + t
  OBVIOUS
<1> HIDE DEF p, r, e, s, f, t
<1>4. n * (p + e) = n * p + n * e
  BY <1>1, <1>2
<1>5. n * (p + e) + s = n * f + t
  BY <1>1, <1>2, <1>3, <1>4
<1>6. p + e \in Int
  BY <1>1, <1>2
<1>7. s = t
  BY <1>2, <1>3, <1>5, <1>6, RemainderUnique
<1> QED BY <1>7 DEF s, t, r

(* Equal remainders: the difference is a multiple.                         *)
LEMMA SameModDiff ==
  ASSUME NEW n \in Nat \ {0}, NEW a \in Nat, NEW b \in Nat, b <= a,
         a % n = b % n
  PROVE  (a - b) % n = 0
<1> DEFINE p == a \div n
           q == b \div n
           r == a % n
           e == (a - b) \div n
           s == (a - b) % n
<1>1. p \in Int /\ q \in Int /\ r \in Int /\ a = n * p + r /\ b = n * q + r
  OBVIOUS
<1>2. e \in Int /\ s \in 0 .. n - 1 /\ a - b = n * e + s
  OBVIOUS
<1> HIDE DEF p, q, r, e, s
<1>3. n * (p - q) = n * p - n * q
  BY <1>1
<1>4. n * e + s = n * (p - q) + 0
  BY <1>1, <1>2, <1>3
<1>5. p - q \in Int /\ 0 \in 0 .. n - 1
  BY <1>1
<1>6. s = 0
  BY <1>2, <1>4, <1>5, RemainderUnique
<1> QED BY <1>6 DEF s

(* Reducing a summand first changes nothing.                               *)
LEMMA ModSum ==
  ASSUME NEW n \in Nat \ {0}, NEW a \in Nat, NEW k \in Nat
  PROVE  ((a % n) + k) % n = (a + k) % n
<1> DEFINE p == a \div n
           r == a % n
           e == (r + k) \div n
           s == (r + k) % n
           f == (a + k) \div n
           t == (a + k) % n
<1>1. p \in Int /\ r \in Nat /\ a = n * p + r
  OBVIOUS
<1>2. e \in Int /\ s \in 0 .. n - 1 /\ r + k = n * e + s
  BY <1>1
<1>3. f \in Int /\ t \in 0 .. n - 1 /\ a + k = n * f + t
  OBVIOUS
<1> HIDE DEF p, r, e, s, f, t
<1>4. n * (p + e) = n * p + n * e
  BY <1>1, <1>2
<1>5. n * (p + e) + s = n * f + t
  BY <1>1, <1>2, <1>3, <1>4
<1>6. p + e \in Int
  BY <1>1, <1>2
<1>7. s = t
  BY <1>2, <1>3, <1>5, <1>6, RemainderUnique
<1> QED BY <1>7 DEF s, t, r

(* The difference of remainders, reduced.                                  *)
LEMMA ModDiff ==
  ASSUME NEW n \in Nat \ {0}, NEW a \in Nat, NEW b \in Nat, b <= a
  PROVE  LET d == ((a % n) - (b % n)) % n
         IN  /\ d \in 0 .. n - 1
             /\ d <= a - b
             /\ a - b < n => d = a - b
             /\ (b + d) % n = a % n
<1> DEFINE p == a \div n
           r == a % n
           q == b \div n
           u == b % n
           e == (r - u) \div n
           d == (r - u) % n
           f == (a - b) \div n
           t == (a - b) % n
           g == (b + d) \div n
           v == (b + d) % n
<1>1. p \in Int /\ r \in 0 .. n - 1 /\ a = n * p + r
  OBVIOUS
<1>2. q \in Int /\ u \in 0 .. n - 1 /\ b = n * q + u
  OBVIOUS
<1>3. e \in Int /\ d \in 0 .. n - 1 /\ r - u = n * e + d
  BY <1>1, <1>2
<1>4. f \in Nat /\ t \in 0 .. n - 1 /\ a - b = n * f + t
  OBVIOUS
<1>5. g \in Int /\ v \in 0 .. n - 1 /\ b + d = n * g + v
  BY <1>3
<1> HIDE DEF p, r, q, u, e, d, f, t, g, v
<1>6. n * (p - q + e) = n * p - n * q + n * e
  BY <1>1, <1>2, <1>3
<1>7. n * (p - q + e) + d = n * f + t
  BY <1>1, <1>2, <1>3, <1>4, <1>6
<1>8. p - q + e \in Int /\ f \in Int
  BY <1>1, <1>2, <1>3, <1>4
<1>9. d = t
  BY <1>3, <1>4, <1>7, <1>8, RemainderUnique
<1>10. n * f >= 0
  BY <1>4
<1>11. d <= a - b
  BY <1>4, <1>9, <1>10
<1>12. a - b < n => d = a - b
  <2> SUFFICES ASSUME a - b < n  PROVE d = a - b
    OBVIOUS
  <2>1. a - b \in 0 .. n - 1 /\ n * f + t = n * 0 + (a - b)
    BY <1>4
  <2> QED BY <1>4, <1>8, <1>9, <2>1, RemainderUnique
<1>13. n * (g + f) = n * g + n * f
  BY <1>4, <1>5
<1>14. n * (g + f) + v = n * p + r
  BY <1>1, <1>4, <1>5, <1>9, <1>13
<1>15. v = r
  <2>1. g + f \in Int
    BY <1>4, <1>5
  <2> QED BY <2>1, <1>1, <1>5, <1>14, RemainderUnique
<1> QED
  <2>1. d \in 0 .. n - 1 /\ d <= a - b /\ (a - b < n => d = a - b) /\ v = r
    BY <1>3, <1>11, <1>12, <1>15
  <2> QED BY <2>1 DEF d, r, u, v

(* A __u32 index stays one, and always names a slot of the ring.           *)
LEMMA NextIdxType ==
  ASSUME NEW i \in 0 .. U32 - 1
  PROVE  NextIdx(i) \in 0 .. U32 - 1
BY RingAssumption DEF NextIdx

LEMMA SlotOfType ==
  ASSUME NEW i \in Nat
  PROVE  SlotOf(i) \in Slots
BY RingAssumption DEF SlotOf, Slots

(* The wrapped index of frame k + 1 is the successor of that of frame k.   *)
LEMMA NextIdxOfFrame ==
  ASSUME NEW k \in Nat
  PROVE  NextIdx(k % U32) = (k + 1) % U32
BY ModNext, RingAssumption DEF NextIdx

(* The wrap of the index at U32 does not disturb the rotation of the slots,*)
(* because the number of slots divides U32.                                *)
LEMMA SlotOfFrame ==
  ASSUME NEW k \in Nat
  PROVE  SlotOf(k % U32) = k % NumSlots
BY ModOfMod, RingAssumption DEF SlotOf

(* Two frames published less than NumSlots apart are in different slots.   *)
LEMMA RecentFramesApart ==
  ASSUME NEW a \in Nat, NEW b \in Nat, b < a, a - b < NumSlots
  PROVE  SlotOf(a % U32) # SlotOf(b % U32)
BY SlotOfFrame, ModDiffer, RingAssumption

(* Two frames with the same slot are whole laps apart.                     *)
LEMMA FramesLapsApart ==
  ASSUME NEW a \in Nat, NEW b \in Nat, b <= a,
         SlotOf(a % U32) = SlotOf(b % U32)
  PROVE  (a - b) % NumSlots = 0
<1>1. a % NumSlots = b % NumSlots
  BY SlotOfFrame
<1> QED BY <1>1, SameModDiff, RingAssumption

(* The distance of two indices is that of their frames, if it is less than *)
(* U32, and never more.                                                    *)
LEMMA IdxDiffOfFrames ==
  ASSUME NEW a \in Nat, NEW b \in Nat, b <= a
  PROVE  /\ IdxDiff(a % U32, b % U32) \in 0 .. U32 - 1
         /\ IdxDiff(a % U32, b % U32) <= a - b
         /\ a - b < U32 => IdxDiff(a % U32, b % U32) = a - b
         /\ (b + IdxDiff(a % U32, b % U32)) % U32 = a % U32
BY ModDiff, RingAssumption DEF IdxDiff

LEMMA FrameOfIdxSum ==
  ASSUME NEW a \in Nat, NEW k \in Nat
  PROVE  ((a % U32) + k) % U32 = (a + k) % U32
BY ModSum, RingAssumption

(* The size of a frame is a number of symbols, and of bytes.               *)
LEMMA FrameSizeType ==
  ASSUME NEW n \in Nat
  PROVE  FrameSymbols(n) \in Nat /\ FrameBytes(n) \in Nat
BY DEF FrameBytes, FrameSymbols, SymbolBytes, HeaderLen, CsiLen, EqualizerLen
=============================================================================
