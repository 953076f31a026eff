------------------------- MODULE Experiment_proofs --------------------------
(***************************************************************************)
(* Theorems about a campaign: what the files can hold, that rounds begin   *)
(* on enough traffic only, and that the two checks for stalled rounds      *)
(* name the right rounds.  First what summarize_runs.py computes for any   *)
(* number of rounds: their order, the median and the rounds it flags.      *)
(***************************************************************************)
EXTENDS Experiment, Ranks_proofs, SequenceTheorems

(* sorted(fps)[len(fps) // 2] is a frame rate of the group, and the counts *)
(* of the rates below and up to it tell it from every other.               *)
LEMMA MedianRank ==
  ASSUME NEW n \in Nat \ {0}, NEW fps \in [1 .. n -> Nat]
  PROVE  /\ Median(fps) \in Range(fps)
         /\ HasRank(fps, Median(fps), n \div 2)
         /\ \A v \in Range(fps) : HasRank(fps, v, n \div 2) => v = Median(fps)
<1>1. n \div 2 \in 0 .. n - 1 /\ fps \in [1 .. n -> Int] /\ Len(fps) = n
  OBVIOUS
<1> QED BY <1>1, RankedIs DEF Median

-----------------------------------------------------------------------------
(* The rounds that have a file, ascending.                                 *)

Present(files) == {r \in Rounds : files[r] # Missing}

Ascending(s) == \A i, j \in DOMAIN s : i < j => s[i] < s[j]

Enumerable(S) == \E s \in [1 .. Cardinality(S) -> S] : Ascending(s)

(* With the greatest element last, after the others in their order.        *)
LEMMA WithGreatest ==
  ASSUME NEW n \in Nat \ {0}, NEW S \in SUBSET (1 .. n), n \in S, Enumerable(S \ {n})
  PROVE  Enumerable(S)
<1>1. IsFiniteSet(S) /\ Cardinality(S) \in Nat
  BY Counted
<1>2. Cardinality(S \ {n}) = Cardinality(S) - 1 /\ Cardinality(S \ {n}) \in Nat
  <2>1. S \ {n} \in SUBSET (1 .. n)
    OBVIOUS
  <2> QED BY <1>1, <2>1, FS_RemoveElement, Counted
<1> DEFINE c == Cardinality(S)
<1>3. PICK t \in [1 .. c - 1 -> S \ {n}] : Ascending(t)
  BY <1>2 DEF Enumerable
<1> DEFINE s == [i \in 1 .. c |-> IF i = c THEN n ELSE t[i]]
<1>4. c \in Nat \ {0}
  BY <1>1, <1>2
<1> HIDE DEF c
<1>5. \A i \in 1 .. c - 1 : t[i] \in S /\ t[i] < n
  <2> SUFFICES ASSUME NEW i \in 1 .. c - 1  PROVE t[i] \in S /\ t[i] < n
    OBVIOUS
  <2>1. t[i] \in S \ {n}
    BY <1>4
  <2>2. t[i] \in 1 .. n
    BY <2>1
  <2> QED BY <2>1, <2>2
<1>6. s \in [1 .. c -> S]
  BY <1>4, <1>5
<1>7. ASSUME NEW i \in 1 .. c, NEW j \in 1 .. c, i < j  PROVE s[i] < s[j]
  <2>1. i \in 1 .. c - 1 /\ s[i] = t[i]
    BY <1>4, <1>7
  <2>2. CASE j = c
    BY <1>4, <1>5, <2>1, <2>2
  <2>3. CASE j # c
    <3>1. j \in 1 .. c - 1 /\ s[j] = t[j]
      BY <1>4, <2>3
    <3> QED BY <1>3, <1>7, <2>1, <3>1 DEF Ascending
  <2> QED BY <2>2, <2>3
<1>8. Ascending(s)
  BY <1>6, <1>7 DEF Ascending
<1> QED BY <1>6, <1>8 DEF Enumerable, c

LEMMA AllEnumerable ==
  ASSUME NEW n \in Nat
  PROVE  \A S \in SUBSET (1 .. n) : Enumerable(S)
<1> DEFINE Listed == {m \in 0 .. n : \A S \in SUBSET (1 .. m) : Enumerable(S)}
<1>1. 0 \in Listed
  <2>1. ASSUME NEW S \in SUBSET (1 .. 0)  PROVE Enumerable(S)
    <3> DEFINE s == [i \in 1 .. 0 |-> i]
    <3>1. S = {} /\ Cardinality(S) = 0
      <4>1. S = {}
        OBVIOUS
      <4> QED BY <4>1, FS_EmptySet
    <3>2. s \in [1 .. 0 -> S] /\ Ascending(s)
      BY DEF Ascending
    <3> QED BY <3>1, <3>2 DEF Enumerable
  <2> QED BY <2>1
<1>2. ASSUME NEW m \in 0 .. n - 1, m \in Listed  PROVE m + 1 \in Listed
  <2>1. m + 1 \in 0 .. n /\ m + 1 \in Nat \ {0}
    OBVIOUS
  <2>2. ASSUME NEW S \in SUBSET (1 .. m + 1)  PROVE Enumerable(S)
    <3>1. CASE m + 1 \notin S
      <4>1. S \in SUBSET (1 .. m)
        BY <3>1
      <4> QED BY <1>2, <4>1
    <3>2. CASE m + 1 \in S
      <4>1. S \ {m + 1} \in SUBSET (1 .. m)
        OBVIOUS
      <4>2. Enumerable(S \ {m + 1})
        BY <1>2, <4>1
      <4> HIDE DEF Listed
      <4> QED BY <2>1, <3>2, <4>2, WithGreatest
    <3> QED BY <3>1, <3>2
  <2> QED BY <2>1, <2>2
<1>3. n \in Listed
  <2> HIDE DEF Listed
  <2>1. \A m \in 0 .. n : m \in Listed
    BY <1>1, <1>2, UpToAll
  <2> QED BY <2>1
<1> QED BY <1>3

(* RoundsOf lists the rounds that have a file: each once, in order.        *)
LEMMA RoundsListed ==
  ASSUME NEW files
  PROVE  /\ IsFiniteSet(Present(files))
         /\ Cardinality(Present(files)) \in 0 .. NumRounds
         /\ RoundsOf(files) \in [1 .. Cardinality(Present(files)) -> Present(files)]
         /\ Ascending(RoundsOf(files))
         /\ RoundsOf(files) \in Injection(1 .. Cardinality(Present(files)), Present(files))
         /\ Range(RoundsOf(files)) = Present(files)
<1> DEFINE S == Present(files)
           c == Cardinality(S)
           s == RoundsOf(files)
<1>1. NumRounds \in Nat \ {0} /\ S \in SUBSET (1 .. NumRounds)
  BY GroupAssumption DEF Present, Rounds
<1>2. IsFiniteSet(S) /\ c \in 0 .. NumRounds
  BY <1>1, Counted
<1>3. \E t \in [1 .. c -> S] : Ascending(t)
  BY <1>1, AllEnumerable DEF Enumerable
<1>4. s = CHOOSE t \in [1 .. c -> S] : Ascending(t)
  BY DEF RoundsOf, Present, Ascending
<1>5. s \in [1 .. c -> S] /\ Ascending(s)
  BY <1>3, <1>4
<1> HIDE DEF S, c, s
<1>6. s \in Injection(1 .. c, S)
  <2> SUFFICES ASSUME NEW i \in 1 .. c, NEW j \in 1 .. c, i # j  PROVE s[i] # s[j]
    BY <1>5 DEF Injection, IsInjective
  <2>1. s[i] \in 1 .. NumRounds /\ s[j] \in 1 .. NumRounds
    BY <1>1, <1>5
  <2>2. i < j \/ j < i
    BY <1>2
  <2>3. s[i] < s[j] \/ s[j] < s[i]
    BY <1>5, <2>2 DEF Ascending
  <2> QED BY <2>1, <2>3
<1>7. Cardinality(1 .. c) = c
  BY <1>2, FS_Interval
<1>8. s \in Surjection(1 .. c, S)
  BY <1>2, <1>6, <1>7, FS_Injection DEF c
<1>9. Range(s) = S
  BY <1>5, <1>8 DEF Surjection, Range
<1> QED BY <1>2, <1>5, <1>6, <1>9 DEF S, c, s

(* When every round has one, the ith is round i.                           *)
LEMMA AllRoundsListed ==
  ASSUME NEW files, Present(files) = Rounds
  PROVE  RoundsOf(files) = [i \in Rounds |-> i]
<1> DEFINE s == RoundsOf(files)
           Off == {i \in Rounds : s[i] # i}
<1>1. NumRounds \in Nat /\ Rounds = 1 .. NumRounds /\ Cardinality(Rounds) = NumRounds
  BY GroupAssumption, FS_Interval DEF Rounds
<1>2. s \in [Rounds -> Rounds] /\ Ascending(s) /\ Range(s) = Rounds
  BY <1>1, RoundsListed
<1> HIDE DEF s
<1>3. SUFFICES ASSUME Off # {}  PROVE FALSE
  BY <1>2 DEF s
<1>4. PICK i \in Off : \A j \in Off : i <= j
  <2>1. Off \subseteq Nat
    BY <1>1
  <2> HIDE DEF Off
  <2> QED BY <1>3, <2>1, LeastOf
<1>5. i \in Rounds /\ s[i] # i /\ s[i] \in Rounds
  BY <1>2
<1>6. \A j \in Rounds : j < i => s[j] = j
  BY <1>1, <1>4
<1>7. PICK j \in Rounds : s[j] = i
  BY <1>2, <1>5 DEF Range
<1>8. i < j
  BY <1>1, <1>5, <1>6, <1>7
<1>9. s[i] < i
  BY <1>2, <1>5, <1>7, <1>8 DEF Ascending
<1>10. s[s[i]] = s[i] /\ s[s[i]] < s[i]
  BY <1>2, <1>5, <1>6, <1>9 DEF Ascending
<1> QED BY <1>1, <1>5, <1>10

-----------------------------------------------------------------------------
(* The rounds that are flagged, of files that can be aggregated.           *)

Files == [Rounds -> Nat \union {Missing}]

LEMMA RowsAreRates ==
  ASSUME NEW files \in Files
  PROVE  /\ Rows(files) \in [1 .. Cardinality(Present(files)) -> Nat]
         /\ \A i \in 1 .. Cardinality(Present(files)) :
              /\ RoundsOf(files)[i] \in Present(files)
              /\ Rows(files)[i] = files[RoundsOf(files)[i]]
         /\ Len(Rows(files)) = Cardinality(Present(files))
<1> DEFINE c == Cardinality(Present(files))
<1>1. RoundsOf(files) \in [1 .. c -> Present(files)] /\ c \in Nat
  BY RoundsListed
<1>2. \A r \in Present(files) : files[r] \in Nat
  BY DEF Present, Files
<1>3. Rows(files) = [i \in 1 .. c |-> files[RoundsOf(files)[i]]]
  BY <1>1 DEF Rows
<1> HIDE DEF c
<1>4. Rows(files) \in [1 .. c -> Nat]
  BY <1>1, <1>2, <1>3
<1>5. Len(Rows(files)) = c
  BY <1>1, <1>4
<1> QED BY <1>1, <1>3, <1>4, <1>5 DEF c

(* The flagged rows are rows, and so their numbers rounds.                 *)
LEMMA SuspectsAreNumbered ==
  ASSUME NEW files
  PROVE  Suspects(files) \subseteq Rounds
<1>1. DOMAIN RoundsOf(files) \subseteq Rounds
  BY RoundsListed, GroupAssumption DEF Rounds
<1> QED BY <1>1 DEF Suspects, Low, Rows

(* When at most half of some values are bad, a bad one being below half of *)
(* every good one and the good ones not below half of each other, the bad  *)
(* ones are those below half of the median.                                *)
LEMMA LowIsBad ==
  ASSUME NEW n \in Nat \ {0}, NEW fps \in [1 .. n -> Nat], NEW Bad \in SUBSET (1 .. n),
         2 * Cardinality(Bad) <= n,
         \A q \in (1 .. n) \ Bad :
           /\ \A r \in Bad : 2 * fps[r] < fps[q]
           /\ \A r \in (1 .. n) \ Bad : 2 * fps[r] >= fps[q]
  PROVE  Low(fps) = Bad
<1> DEFINE med == Median(fps)
           half == n \div 2
<1>1. med \in Range(fps) /\ HasRank(fps, med, half)
  BY MedianRank
<1> HIDE DEF med
<1>2. PICK m \in 1 .. n : fps[m] = med
  BY <1>1 DEF Range
<1>3. m \notin Bad
  <2> SUFFICES ASSUME m \in Bad  PROVE FALSE
    OBVIOUS
  <2>1. Upto(fps, med) \in SUBSET Bad
    <3> SUFFICES ASSUME NEW q \in 1 .. n, q \notin Bad, fps[q] <= med  PROVE FALSE
      BY DEF Upto
    <3>1. fps[q] \in Nat /\ fps[m] \in Nat /\ 2 * fps[m] < fps[q]
      OBVIOUS
    <3> QED BY <1>2, <3>1
  <2>2. /\ Cardinality(Bad) \in Nat
        /\ Cardinality(Upto(fps, med)) \in Nat
        /\ Cardinality(Upto(fps, med)) <= Cardinality(Bad)
    BY <2>1, Counted
  <2>3. half < Cardinality(Bad)
    BY <1>1, <2>2 DEF HasRank
  <2> QED BY <2>2, <2>3
<1>4. \A r \in 1 .. n : fps[r] \in Nat
  OBVIOUS
<1>5. \A r \in Bad : 2 * fps[r] < med
  BY <1>2, <1>3
<1>6. \A r \in (1 .. n) \ Bad : 2 * fps[r] >= med
  BY <1>2, <1>3
<1>7. med \in Nat
  BY <1>2, <1>4
<1>8. Low(fps) = {r \in 1 .. n : med > 0 /\ 2 * fps[r] < med}
  BY DEF Low, med
<1>9. ASSUME NEW r \in 1 .. n
      PROVE  (med > 0 /\ 2 * fps[r] < med) <=> r \in Bad
  BY <1>4, <1>5, <1>6, <1>7
<1> QED BY <1>8, <1>9

(* So it is with the rounds of a group when every round has its file.      *)
LEMMA StallsFlagged ==
  ASSUME NEW files \in [Rounds -> Nat], NEW Stalls \in SUBSET Rounds,
         2 * Cardinality(Stalls) <= NumRounds,
         \A q \in Rounds \ Stalls :
           /\ \A r \in Stalls : 2 * files[r] < files[q]
           /\ \A r \in Rounds \ Stalls : 2 * files[r] >= files[q]
  PROVE  Suspects(files) = Stalls
<1>1. NumRounds \in Nat \ {0} /\ Rounds = 1 .. NumRounds
  BY GroupAssumption DEF Rounds
<1>2. Present(files) = Rounds
  <2>1. \A r \in Rounds : files[r] # Missing
    BY GroupAssumption
  <2> QED BY <2>1 DEF Present
<1>3. Rows(files) = files
  <2>1. RoundsOf(files) = [i \in Rounds |-> i]
    BY <1>2, AllRoundsListed
  <2> QED BY <2>1 DEF Rows
<1>4. Low(files) = Stalls
  BY <1>1, LowIsBad
<1> QED BY <1>3, <1>4 DEF Suspects

-----------------------------------------------------------------------------
(* The sanity check of the script: a file of each round and a receiver's.  *)

LEMMA FilesBeside ==
  ASSUME NEW own \in Files, NEW udp \in Files, NEW r \in Rounds
  PROVE  (own \o udp)[r] = own[r] /\ (own \o udp)[NumRounds + r] = udp[r]
<1> DEFINE Content == Nat \union {Missing}
<1>1. NumRounds \in Nat \ {0} /\ r \in 1 .. NumRounds
  BY GroupAssumption DEF Rounds
<1>2. own \in [1 .. NumRounds -> Content] /\ udp \in [1 .. NumRounds -> Content]
  BY DEF Files, Rounds
<1> HIDE DEF Content
<1>3. /\ own \in Seq(Content) /\ Len(own) = NumRounds
      /\ udp \in Seq(Content) /\ Len(udp) = NumRounds
  BY <1>1, <1>2
<1>4. \A i \in 1 .. Len(own) + Len(udp) :
        (own \o udp)[i] = IF i <= Len(own) THEN own[i] ELSE udp[i - Len(own)]
  BY <1>3, ConcatProperties
<1>5. /\ r \in 1 .. NumRounds + NumRounds /\ r <= NumRounds
      /\ NumRounds + r \in 1 .. NumRounds + NumRounds /\ ~(NumRounds + r <= NumRounds)
      /\ (NumRounds + r) - NumRounds = r
  BY <1>1
<1>6. (own \o udp)[r] = own[r]
  BY <1>3, <1>4, <1>5
<1>7. (own \o udp)[NumRounds + r] = udp[(NumRounds + r) - NumRounds]
  BY <1>3, <1>4, <1>5
<1> QED BY <1>5, <1>6, <1>7

(* The index of a rate among those the check looks at tells its file.      *)
FileOf(own, udp, i) ==
  IF i <= Cardinality(Present(own)) THEN RoundsOf(own)[i]
  ELSE NumRounds + RoundsOf(udp)[i - Cardinality(Present(own))]

(* Each file it finds is at one index, and its rate is there.              *)
LEMMA RatesOfFiles ==
  ASSUME NEW own \in Files, NEW udp \in Files
  PROVE  LET n == Cardinality(Present(own)) + Cardinality(Present(udp))
             h == [i \in 1 .. n |-> FileOf(own, udp, i)]
         IN  /\ SanityRates(own, udp) \in [1 .. n -> Nat]
             /\ h \in Bijection(1 .. n, Found(own \o udp))
             /\ \A i \in 1 .. n : SanityRates(own, udp)[i] = (own \o udp)[h[i]]
<1> DEFINE c == Cardinality(Present(own))
           d == Cardinality(Present(udp))
           n == c + d
           s == RoundsOf(own)
           t == RoundsOf(udp)
           h == [i \in 1 .. n |-> FileOf(own, udp, i)]
           all == own \o udp
           rates == SanityRates(own, udp)
<1>1. c \in Nat /\ d \in Nat
  BY RoundsListed
<1>2. /\ s \in [1 .. c -> Present(own)] /\ t \in [1 .. d -> Present(udp)]
      /\ Range(s) = Present(own) /\ Range(t) = Present(udp)
  BY RoundsListed
<1>3. /\ \A i, j \in 1 .. c : s[i] = s[j] => i = j
      /\ \A i, j \in 1 .. d : t[i] = t[j] => i = j
  <2>1. s \in Injection(1 .. c, Present(own)) /\ t \in Injection(1 .. d, Present(udp))
    BY RoundsListed
  <2> HIDE DEF c, d, s, t
  <2> QED BY <2>1 DEF Injection, IsInjective
<1>4. /\ Rows(own) \in [1 .. c -> Nat] /\ Len(Rows(own)) = c
      /\ \A i \in 1 .. c : Rows(own)[i] = own[s[i]]
      /\ Rows(udp) \in [1 .. d -> Nat] /\ Len(Rows(udp)) = d
      /\ \A i \in 1 .. d : Rows(udp)[i] = udp[t[i]]
  BY RowsAreRates
<1>5. \A i \in 1 .. n : h[i] = IF i <= c THEN s[i] ELSE NumRounds + t[i - c]
  BY DEF FileOf
<1>6. \A i \in 1 .. n : (i <= c /\ i \in 1 .. c) \/ (~(i <= c) /\ i - c \in 1 .. d)
  BY <1>1
<1>7. \A r \in Rounds : all[r] = own[r] /\ all[NumRounds + r] = udp[r]
  BY FilesBeside
<1>8. NumRounds \in Nat \ {0} /\ Rounds = 1 .. NumRounds
  BY GroupAssumption DEF Rounds
<1> HIDE DEF c, d, s, t, h, all
<1>9. \A i \in 1 .. c : s[i] \in Rounds /\ own[s[i]] # Missing
  BY <1>2 DEF Present
<1>10. \A i \in 1 .. d : t[i] \in Rounds /\ udp[t[i]] # Missing
  BY <1>2 DEF Present
<1>11. /\ rates \in [1 .. n -> Nat]
       /\ \A i \in 1 .. n : rates[i] = IF i <= c THEN own[s[i]] ELSE udp[t[i - c]]
  <2>1. Rows(own) \in Seq(Nat) /\ Rows(udp) \in Seq(Nat)
    BY <1>1, <1>4
  <2>2. rates = Rows(own) \o Rows(udp)
    BY DEF SanityRates
  <2> HIDE DEF rates
  <2>3. /\ rates \in Seq(Nat) /\ Len(rates) = Len(Rows(own)) + Len(Rows(udp))
        /\ \A i \in 1 .. Len(Rows(own)) + Len(Rows(udp)) :
             rates[i] = IF i <= Len(Rows(own)) THEN Rows(own)[i]
                        ELSE Rows(udp)[i - Len(Rows(own))]
    BY <2>1, <2>2, ConcatProperties
  <2>4. Len(Rows(own)) + Len(Rows(udp)) = n /\ Len(Rows(own)) = c
    BY <1>4
  <2>5. /\ rates \in Seq(Nat) /\ Len(rates) = n
        /\ \A i \in 1 .. n :
             rates[i] = IF i <= c THEN Rows(own)[i] ELSE Rows(udp)[i - c]
    BY <2>3, <2>4
  <2>6. rates \in [1 .. n -> Nat]
    BY <2>5
  <2> QED BY <1>4, <1>6, <2>5, <2>6
<1> HIDE DEF rates
<1>12. ASSUME NEW i \in 1 .. n
       PROVE  h[i] \in Found(all) /\ rates[i] = all[h[i]]
  <2>1. CASE i <= c
    <3>1. h[i] = s[i] /\ s[i] \in Rounds /\ own[s[i]] # Missing /\ rates[i] = own[s[i]]
      BY <1>5, <1>6, <1>9, <1>11, <2>1
    <3>2. s[i] \in 1 .. 2 * NumRounds /\ all[s[i]] = own[s[i]]
      BY <1>7, <1>8, <3>1
    <3> QED BY <3>1, <3>2 DEF Found
  <2>2. CASE ~(i <= c)
    <3> DEFINE r == t[i - c]
    <3>1. h[i] = NumRounds + r /\ r \in Rounds /\ udp[r] # Missing /\ rates[i] = udp[r]
      BY <1>5, <1>6, <1>10, <1>11, <2>2
    <3> HIDE DEF r
    <3>2. NumRounds + r \in 1 .. 2 * NumRounds /\ all[NumRounds + r] = udp[r]
      BY <1>7, <1>8, <3>1
    <3> QED BY <3>1, <3>2 DEF Found
  <2> QED BY <2>1, <2>2
<1>13. ASSUME NEW i \in 1 .. n, NEW j \in 1 .. n, h[i] = h[j]  PROVE i = j
  <2>1. (i <= c) => h[i] \in 1 .. NumRounds
    BY <1>5, <1>6, <1>8, <1>9
  <2>2. (j <= c) => h[j] \in 1 .. NumRounds
    BY <1>5, <1>6, <1>8, <1>9
  <2>3. ~(i <= c) => h[i] = NumRounds + t[i - c] /\ t[i - c] \in 1 .. NumRounds
    BY <1>5, <1>6, <1>8, <1>10
  <2>4. ~(j <= c) => h[j] = NumRounds + t[j - c] /\ t[j - c] \in 1 .. NumRounds
    BY <1>5, <1>6, <1>8, <1>10
  <2>5. (i <= c) <=> (j <= c)
    BY <1>8, <1>13, <2>1, <2>2, <2>3, <2>4
  <2>6. CASE i <= c
    BY <1>3, <1>5, <1>6, <1>13, <2>5, <2>6
  <2>7. CASE ~(i <= c)
    <3>1. t[i - c] = t[j - c]
      BY <1>8, <1>13, <2>3, <2>4, <2>5, <2>7
    <3>2. i - c \in 1 .. d /\ j - c \in 1 .. d
      BY <1>6, <2>5, <2>7
    <3>3. i - c = j - c
      BY <1>3, <3>1, <3>2
    <3> QED BY <1>1, <3>3
  <2> QED BY <2>6, <2>7
<1>14. ASSUME NEW f \in Found(all)  PROVE \E i \in 1 .. n : h[i] = f
  <2>1. f \in 1 .. 2 * NumRounds /\ all[f] # Missing
    BY DEF Found
  <2>2. CASE f <= NumRounds
    <3>1. f \in Present(own)
      BY <1>7, <1>8, <2>1, <2>2 DEF Present
    <3>2. PICK i \in 1 .. c : s[i] = f
      BY <1>2, <3>1 DEF Range
    <3>3. i \in 1 .. n /\ i <= c
      BY <1>1
    <3> QED BY <1>5, <3>2, <3>3
  <2>3. CASE ~(f <= NumRounds)
    <3>1. f - NumRounds \in Rounds /\ f = NumRounds + (f - NumRounds)
      BY <1>8, <2>1, <2>3
    <3>2. f - NumRounds \in Present(udp)
      BY <1>7, <2>1, <3>1 DEF Present
    <3>3. PICK i \in 1 .. d : t[i] = f - NumRounds
      BY <1>2, <3>2 DEF Range
    <3>4. i + c \in 1 .. n /\ ~(i + c <= c) /\ (i + c) - c = i
      BY <1>1
    <3>5. h[i + c] = NumRounds + t[i]
      BY <1>5, <3>4
    <3> QED BY <3>1, <3>3, <3>4, <3>5
  <2> QED BY <2>2, <2>3
<1>15. h \in Bijection(1 .. n, Found(all))
  <2>1. h \in [1 .. n -> Found(all)]
    BY <1>12 DEF h
  <2> QED BY <1>13, <1>14, <2>1 DEF Bijection, Injection, Surjection, IsInjective
<1> QED BY <1>11, <1>12, <1>15 DEF rates, h, c, d, all

(* The part of a finite set that a bijection maps into T has T's size.     *)
LEMMA CountBack ==
  ASSUME NEW n \in Nat, NEW S, NEW h \in Bijection(1 .. n, S), NEW T \in SUBSET S
  PROVE  /\ Cardinality({i \in 1 .. n : h[i] \in T}) = Cardinality(T)
         /\ Cardinality(S) = n
<1> DEFINE I == {i \in 1 .. n : h[i] \in T}
           k == [i \in I |-> h[i]]
<1>1. /\ h \in [1 .. n -> S]
      /\ \A i, j \in 1 .. n : h[i] = h[j] => i = j
      /\ \A x \in S : \E i \in 1 .. n : h[i] = x
  BY DEF Bijection, Injection, Surjection, IsInjective
<1>2. k \in Bijection(I, T)
  <2>1. k \in [I -> T]
    OBVIOUS
  <2>2. \A i, j \in I : k[i] = k[j] => i = j
    BY <1>1
  <2>3. \A x \in T : \E i \in I : k[i] = x
    BY <1>1
  <2> HIDE DEF k, I
  <2> QED BY <2>1, <2>2, <2>3 DEF Bijection, Injection, Surjection, IsInjective
<1>3. I \in SUBSET (1 .. n)
  OBVIOUS
<1>4. IsFiniteSet(I) /\ IsFiniteSet(1 .. n) /\ Cardinality(1 .. n) = n
  BY <1>3, Counted, FS_Interval
<1> HIDE DEF I, k
<1>5. Cardinality(T) = Cardinality(I)
  BY <1>2, <1>4, FS_Bijection DEF ExistsBijection
<1>6. Cardinality(S) = n
  BY <1>4, FS_Bijection DEF ExistsBijection
<1> QED BY <1>5, <1>6 DEF I

(* With rounds and receivers' files missing, the rounds the script names   *)
(* are those whose own file stalled.                                       *)
LEMMA SanityNamesStalls ==
  ASSUME NEW own \in Files, NEW udp \in Files, FewStalled(own \o udp)
  PROVE  SanityFlags(own, udp) = Stalled(own \o udp) \intersect Rounds
<1> DEFINE fps == own \o udp
           found == Found(fps)
           bad == Stalled(fps)
           c == Cardinality(Present(own))
           d == Cardinality(Present(udp))
           n == c + d
           s == RoundsOf(own)
           h == [i \in 1 .. n |-> FileOf(own, udp, i)]
           rates == SanityRates(own, udp)
           Bad == {i \in 1 .. n : h[i] \in bad}
<1>1. c \in Nat /\ d \in Nat
  BY RoundsListed
<1>2. /\ rates \in [1 .. n -> Nat]
      /\ h \in Bijection(1 .. n, found)
      /\ \A i \in 1 .. n : rates[i] = fps[h[i]]
  BY RatesOfFiles
<1>3. s \in [1 .. c -> Present(own)] /\ Range(s) = Present(own)
  BY RoundsListed
<1>4. \A i \in 1 .. c : i \in 1 .. n /\ h[i] = s[i]
  BY <1>1 DEF FileOf
<1>5. \A r \in Rounds : fps[r] = own[r]
  BY FilesBeside
<1>6. /\ bad \in SUBSET found /\ 2 * Cardinality(bad) <= Cardinality(found)
      /\ \A f \in bad, g \in found \ bad : 2 * fps[f] < fps[g]
  BY DEF FewStalled, Stalled
<1>7. \A f \in found \ bad, g \in found : ~(2 * fps[f] < fps[g])
  BY DEF Stalled
<1> HIDE DEF c, d, h, s, rates, fps, bad
<1>8. DOMAIN s = 1 .. c
  BY <1>3
<1>9. SanityFlags(own, udp) = {s[i] : i \in Low(rates) \intersect 1 .. c}
  BY <1>8 DEF SanityFlags, rates, s
<1>10. ASSUME NEW r \in Rounds, r \in bad  PROVE \E i \in 1 .. c : s[i] = r
  <2>1. r \in found
    BY <1>10, <1>6
  <2>2. fps[r] = own[r]
    BY <1>5
  <2>3. r \in Present(own)
    BY <2>1, <2>2 DEF Found, Present
  <2> QED BY <1>3, <1>8, <2>3 DEF Range
<1>11. \A i \in 1 .. c : s[i] \in Rounds
  BY <1>3 DEF Present
<1>12. CASE n = 0
  <2>1. c = 0
    BY <1>1, <1>12
  <2>2. SanityFlags(own, udp) = {}
    BY <1>9, <2>1
  <2>3. bad \intersect Rounds = {}
    BY <1>10, <2>1
  <2> QED BY <2>2, <2>3 DEF bad, fps
<1>13. CASE n # 0
  <2>1. n \in Nat /\ n \in Nat \ {0}
    BY <1>1, <1>13
  <2>2. 2 * Cardinality(Bad) <= n
    <3>1. Cardinality(Bad) = Cardinality(bad) /\ Cardinality(found) = n
      <4> HIDE DEF n, found
      <4> QED BY <1>2, <1>6, <2>1, CountBack
    <3> QED BY <1>6, <3>1
  <2>3. \A i \in 1 .. n : h[i] \in found
    BY <1>2 DEF Bijection, Injection
  <2>4. \A i \in 1 .. n : rates[i] \in Nat
    BY <1>2
  <2>5. ASSUME NEW q \in (1 .. n) \ Bad
        PROVE  /\ \A r \in Bad : 2 * rates[r] < rates[q]
               /\ \A r \in (1 .. n) \ Bad : 2 * rates[r] >= rates[q]
    <3>1. h[q] \in found \ bad /\ rates[q] = fps[h[q]] /\ rates[q] \in Nat
      BY <1>2, <2>3, <2>4
    <3>2. ASSUME NEW r \in Bad  PROVE 2 * rates[r] < rates[q]
      <4>1. h[r] \in bad /\ rates[r] = fps[h[r]]
        BY <1>2
      <4>2. 2 * fps[h[r]] < fps[h[q]]
        BY <1>6, <3>1, <4>1
      <4> QED BY <3>1, <4>1, <4>2
    <3>3. ASSUME NEW r \in (1 .. n) \ Bad  PROVE 2 * rates[r] >= rates[q]
      <4>1. h[r] \in found \ bad /\ rates[r] = fps[h[r]] /\ rates[r] \in Nat
        BY <1>2, <2>3, <2>4
      <4>2. ~(2 * fps[h[r]] < fps[h[q]])
        BY <1>7, <3>1, <4>1
      <4>3. ~(2 * rates[r] < rates[q])
        BY <3>1, <4>1, <4>2
      <4> QED BY <3>1, <4>1, <4>3
    <3> QED BY <3>2, <3>3
  <2>6. Low(rates) = Bad
    <3>1. Bad \in SUBSET (1 .. n)
      OBVIOUS
    <3> HIDE DEF Bad, n
    <3> QED BY <1>2, <2>1, <2>2, <2>5, <3>1, LowIsBad
  <2>7. \A i \in 1 .. c : i \in Bad <=> s[i] \in bad
    BY <1>4
  <2> HIDE DEF Bad
  <2>8. SanityFlags(own, udp) = {s[i] : i \in Bad \intersect 1 .. c}
    BY <1>9, <2>6
  <2>9. ASSUME NEW r  PROVE r \in SanityFlags(own, udp) <=> r \in bad \intersect Rounds
    <3>1. ASSUME r \in SanityFlags(own, udp)  PROVE r \in bad \intersect Rounds
      <4>1. PICK i \in 1 .. c : i \in Bad /\ r = s[i]
        BY <2>8, <3>1
      <4> QED BY <1>11, <2>7, <4>1
    <3>2. ASSUME r \in bad \intersect Rounds  PROVE r \in SanityFlags(own, udp)
      <4>1. PICK i \in 1 .. c : s[i] = r
        BY <1>10, <3>2
      <4>2. i \in Bad
        BY <2>7, <3>2, <4>1
      <4> QED BY <2>8, <4>1, <4>2
    <3> QED BY <3>1, <3>2
  <2>10. SanityFlags(own, udp) = bad \intersect Rounds
    <3>1. \A r : r \in SanityFlags(own, udp) <=> r \in bad \intersect Rounds
      BY <2>9
    <3> QED BY <3>1
  <2> QED BY <2>10 DEF bad, fps
<1> QED BY <1>12, <1>13
-----------------------------------------------------------------------------
(* Types.                                                                  *)

Contents == {Missing, Torn} \union Fps

(* A call of the script is under way.                                      *)
InCall == sh \in {"pilot", "judge", "round", "run", "sanity"}

(* A summary is of groups that are measured, each with at least one round. *)
SummaryOK ==
  \/ summary = Missing
  \/ /\ DOMAIN summary \subseteq Groups
     /\ \A g \in DOMAIN summary :
          /\ summary[g].suspect \subseteq Rounds
          /\ summary[g].stats.n \in Nat \ {0}
          /\ summary[g].stats.sum \in Nat

ExpTypeInv ==
  /\ ExpTypeOK
  /\ InCall => call \in 1 .. MaxCalls
  /\ SummaryOK

LEMMA InitType == ExpInit => ExpTypeInv
<1> SUFFICES ASSUME ExpInit  PROVE ExpTypeInv
  OBVIOUS
<1>1. 1 \in Rounds /\ 0 \in 0 .. MaxCalls
  BY GroupAssumption, ExperimentAssumption DEF Rounds
<1>2. opts \in [wait : BOOLEAN, force : BOOLEAN]
  BY DEF ExpInit, NoOpts
<1>3. /\ pilot \in [Groups -> {Missing, Torn} \union [of : 1 .. MaxCalls, enough : BOOLEAN]]
      /\ results \in [Groups -> [Rounds -> {Missing, Torn} \union Fps]]
  BY DEF ExpInit
<1>4. /\ sh = "idle" /\ call \in 0 .. MaxCalls /\ group \in Groups /\ rnd \in Rounds
      /\ low \in BOOLEAN /\ again \in BOOLEAN /\ summary = Missing
  BY <1>1 DEF ExpInit
<1>5. ExpTypeOK
  BY <1>2, <1>3, <1>4 DEF ExpTypeOK
<1> QED BY <1>4, <1>5 DEF ExpTypeInv, InCall, SummaryOK

(* A step that writes at most one result.                                  *)
LEMMA WriteType ==
  ASSUME ExpTypeInv, NEW g \in Groups, NEW r \in Rounds, NEW content \in Contents
  PROVE  [results EXCEPT ![g][r] = content] \in [Groups -> [Rounds -> Contents]]
BY DEF ExpTypeInv, ExpTypeOK, Contents

LEMMA ReadableFiles ==
  ASSUME ExpTypeInv, Readable(results), NEW g \in Groups
  PROVE  results[g] \in Files
<1>1. results[g] \in [Rounds -> {Missing, Torn} \union Fps]
  BY DEF ExpTypeInv, ExpTypeOK
<1>2. \A r \in Rounds : results[g][r] \in Nat \union {Missing}
  BY <1>1, ExperimentAssumption DEF Readable
<1> QED BY <1>1, <1>2 DEF Files

LEMMA Discovered ==
  ASSUME NEW g \in discover(results)
  PROVE  g \in Groups /\ Present(results[g]) # {}
<1>1. g \in Groups /\ RoundsOf(results[g]) # <<>>
  BY DEF discover
<1>2. Present(results[g]) # {}
  <2> SUFFICES ASSUME Present(results[g]) = {}  PROVE FALSE
    OBVIOUS
  <2>1. RoundsOf(results[g]) \in [1 .. 0 -> {}]
    BY RoundsListed, FS_EmptySet
  <2> QED BY <1>1, <2>1
<1> QED BY <1>1, <1>2

LEMMA SummaryType ==
  ASSUME ExpTypeInv, Readable(results)
  PROVE  /\ DOMAIN Summary(results) \subseteq Groups
         /\ \A g \in DOMAIN Summary(results) :
              /\ Summary(results)[g].suspect \subseteq Rounds
              /\ Summary(results)[g].stats.n \in Nat \ {0}
              /\ Summary(results)[g].stats.sum \in Nat
<1>1. DOMAIN Summary(results) = discover(results) /\ discover(results) \subseteq Groups
  BY DEF Summary, discover
<1>2. ASSUME NEW g \in discover(results)
      PROVE  /\ Summary(results)[g].suspect \subseteq Rounds
             /\ Summary(results)[g].stats.n \in Nat \ {0}
             /\ Summary(results)[g].stats.sum \in Nat
  <2> DEFINE files == results[g]
             n == Cardinality(Present(files))
  <2>1. /\ Summary(results)[g].suspect = Suspects(files)
        /\ Summary(results)[g].stats.n = Len(Rows(files))
        /\ Summary(results)[g].stats.sum = SumOf(Rows(files))
    BY DEF Summary, Group, stats
  <2>2. files \in Files /\ Present(files) # {}
    BY ReadableFiles, Discovered
  <2> HIDE DEF files
  <2>3. n \in Nat \ {0}
    BY <2>2, RoundsListed, FS_EmptySet
  <2>4. Len(Rows(files)) = n /\ Rows(files) \in [1 .. n -> Nat]
    BY <2>2, RowsAreRates
  <2> HIDE DEF n
  <2>5. SumOf(Rows(files)) \in Nat
    BY <2>3, <2>4, SumOfNat
  <2> QED BY <2>1, <2>3, <2>4, <2>5, SuspectsAreNumbered
<1> QED BY <1>1, <1>2

LEMMA TypeStep ==
  ASSUME ExpTypeInv, [ExpNext]_expVars
  PROVE  ExpTypeInv'
<1> USE DEF ExpTypeInv, InCall
<1>1. 1 \in Rounds /\ MaxCalls \in Nat /\ NumRounds \in Nat
  BY GroupAssumption, ExperimentAssumption DEF Rounds
<1>2. CASE Begin
  <2>1. call' \in 1 .. MaxCalls /\ call' \in 0 .. MaxCalls
    <3>1. call \in Nat /\ call < MaxCalls /\ call' = call + 1
      BY <1>1, <1>2 DEF Begin, ExpTypeOK
    <3> QED BY <1>1, <3>1
  <2> QED BY <1>1, <1>2, <2>1 DEF Begin, ExpTypeOK, SummaryOK
<1>3. CASE PilotMeasures
  BY <1>3 DEF PilotMeasures, ExpTypeOK, SummaryOK
<1>4. CASE FirstPilotFails
  BY <1>1, <1>4 DEF FirstPilotFails, PilotBroken, Exit, NoOpts, ExpTypeOK, SummaryOK
<1>5. CASE PilotStatusLost
  <2>1. pilot' \in [Groups -> {Missing, Torn} \union [of : 1 .. MaxCalls, enough : BOOLEAN]]
    BY <1>5 DEF PilotStatusLost, PilotBroken, ExpTypeOK
  <2>2. pilot'[group] \in {Missing, Torn} \union [of : 1 .. MaxCalls, enough : BOOLEAN]
    BY <2>1 DEF ExpTypeOK
  <2>3. low' \in BOOLEAN
    <3>1. CASE pilot'[group] \in {Missing, Torn}
      <4>1. low' = (0 < MinFps)
        BY <1>5, <3>1 DEF PilotStatusLost
      <4> QED BY <4>1
    <3>2. CASE pilot'[group] \notin {Missing, Torn}
      <4>1. low' = ~pilot'[group].enough
        BY <1>5, <3>2 DEF PilotStatusLost
      <4> QED BY <4>1
    <3> QED BY <3>1, <3>2
  <2> QED BY <1>5, <2>1, <2>3 DEF PilotStatusLost, ExpTypeOK, SummaryOK
<1>6. CASE PilotRerunFails
  BY <1>6 DEF PilotRerunFails, PilotBroken, ExpTypeOK, SummaryOK
<1>7. CASE WaitForUplink
  BY <1>7 DEF WaitForUplink, ExpTypeOK, SummaryOK
<1>8. CASE TrafficJudged
  <2>1. opts' \in [wait : BOOLEAN, force : BOOLEAN] /\ rnd' \in Rounds /\ low' = FALSE
        /\ again' = FALSE /\ sh' \in {"idle", "round"}
    <3>1. CASE low /\ ~opts.force
      <4>1. Exit
        BY <1>8, <3>1, Zenon DEF TrafficJudged
      <4> QED BY <1>1, <4>1 DEF Exit, NoOpts
    <3>2. CASE ~(low /\ ~opts.force)
      <4>1. opts' = [opts EXCEPT !.wait = FALSE]
        BY <1>8, <3>2 DEF TrafficJudged
      <4>2. opts' \in [wait : BOOLEAN, force : BOOLEAN]
        BY <4>1 DEF ExpTypeOK
      <4> QED BY <1>8, <3>2, <4>2 DEF TrafficJudged, ExpTypeOK
    <3> QED BY <3>1, <3>2
  <2> QED BY <1>8, <2>1 DEF TrafficJudged, ExpTypeOK, SummaryOK
<1>9. CASE RoundBegins
  <2>1. results' \in [Groups -> [Rounds -> Contents]]
    <3>1. group \in Groups /\ rnd \in Rounds /\ results \in [Groups -> [Rounds -> Contents]]
      BY DEF ExpTypeOK, Contents
    <3>2. results' = results \/ results' = [results EXCEPT ![group][rnd] = Torn]
      BY <1>9 DEF RoundBegins, Write
    <3>3. Torn \in Contents
      BY DEF Contents
    <3>4. [results EXCEPT ![group][rnd] = Torn] \in [Groups -> [Rounds -> Contents]]
      BY <3>1, <3>3, WriteType
    <3> QED BY <3>1, <3>2, <3>4
  <2> QED BY <1>9, <2>1 DEF RoundBegins, Contents, ExpTypeOK, SummaryOK
<1>10. CASE RoundEnds
  <2>1. results' \in [Groups -> [Rounds -> Contents]]
    <3>1. group \in Groups /\ rnd \in Rounds
      BY DEF ExpTypeOK
    <3>2. PICK f \in Fps : results' = [results EXCEPT ![group][rnd] = f]
      BY <1>10 DEF RoundEnds, Write
    <3>3. f \in Contents
      BY DEF Contents
    <3> QED BY <3>1, <3>2, <3>3, WriteType
  <2>2. rnd' \in Rounds
    BY <1>1, <1>10 DEF RoundEnds, NextRound, Rounds, ExpTypeOK
  <2> QED BY <1>10, <2>1, <2>2 DEF RoundEnds, NextRound, Contents, ExpTypeOK, SummaryOK
<1>11. CASE RoundFails
  <2>1. rnd' \in Rounds
    BY <1>1, <1>11 DEF RoundFails, NextRound, Rounds, ExpTypeOK
  <2> QED BY <1>11, <2>1 DEF RoundFails, NextRound, ExpTypeOK, SummaryOK
<1>12. CASE Sanity \/ CtrlC
  <2>1. Exit /\ UNCHANGED <<call, group, pilot, results, summary>>
    BY <1>12 DEF Sanity, CtrlC
  <2>2. opts' \in [wait : BOOLEAN, force : BOOLEAN] /\ rnd' \in Rounds
    BY <1>1, <2>1 DEF Exit, NoOpts
  <2> QED BY <2>1, <2>2 DEF Exit, ExpTypeOK, SummaryOK
<1>13. CASE Rerun
  <2>0. PICK g \in DOMAIN summary : \E r \in summary[g].suspect :
          /\ group' = g
          /\ rnd' = r
          /\ results' = IF CreatesFirst(g) THEN [results EXCEPT ![g][r] = Torn] ELSE results
    BY <1>13 DEF Rerun
  <2>1. PICK r \in summary[g].suspect :
          /\ group' = g
          /\ rnd' = r
          /\ results' = IF CreatesFirst(g) THEN [results EXCEPT ![g][r] = Torn] ELSE results
    BY <2>0
  <2>2. g \in Groups /\ r \in Rounds
    BY <1>13, <2>1 DEF Rerun, SummaryOK
  <2>3. results' \in [Groups -> [Rounds -> Contents]]
    <3>1. Torn \in Contents /\ results \in [Groups -> [Rounds -> Contents]]
      BY DEF Contents, ExpTypeOK
    <3> QED BY <2>1, <2>2, <3>1, WriteType
  <2> QED BY <1>13, <2>1, <2>2, <2>3 DEF Rerun, Contents, ExpTypeOK, SummaryOK
<1>14. CASE RerunEnds
  <2>1. results' \in [Groups -> [Rounds -> Contents]]
    <3>1. group \in Groups /\ rnd \in Rounds
      BY DEF ExpTypeOK
    <3>2. PICK f \in Fps : results' = [results EXCEPT ![group][rnd] = f]
      BY <1>14 DEF RerunEnds, Write
    <3>3. f \in Contents
      BY DEF Contents
    <3> QED BY <3>1, <3>2, <3>3, WriteType
  <2> QED BY <1>1, <1>14, <2>1 DEF RerunEnds, Exit, NoOpts, Contents, ExpTypeOK, SummaryOK
<1>15. CASE Summarize
  <2>1. SummaryOK'
    <3>1. Readable(results) /\ summary' = Summary(results)
      BY <1>15 DEF Summarize
    <3> QED BY <3>1, SummaryType DEF SummaryOK
  <2>2. ExpTypeOK'
    BY <1>15, <2>1 DEF Summarize, scriptVars, ExpTypeOK, SummaryOK
  <2> QED BY <1>15, <2>1, <2>2 DEF Summarize, scriptVars
<1>16. CASE UNCHANGED expVars
  BY <1>16 DEF expVars, scriptVars, ExpTypeOK, SummaryOK
<1> QED
  BY <1>2, <1>3, <1>4, <1>5, <1>6, <1>7, <1>8, <1>9, <1>10, <1>11, <1>12, <1>13, <1>14,
     <1>15, <1>16 DEF ExpNext, Script

THEOREM TypeInvariant == ExpSpec => []ExpTypeInv
BY InitType, TypeStep, PTL DEF ExpSpec

(* Type correctness of the script, the operator and the files; the rounds  *)
(* a summary flags are numbers of rounds.                                  *)
THEOREM ExpTypeCorrect == ExpSpec => []ExpTypeOK
<1>1. ExpTypeInv => ExpTypeOK
  BY DEF ExpTypeInv
<1> QED BY <1>1, TypeInvariant, PTL

-----------------------------------------------------------------------------
(* What the pilot file says.                                               *)

SaysEnough == pilot[group] \notin {Missing, Torn} /\ pilot[group].enough

(* LOW holds through the whole WAIT loop, and where it does not, the file  *)
(* says MIN_FPS.                                                           *)
PilotInv ==
  /\ sh = "pilot" /\ again => low
  /\ sh = "judge" => low \/ SaysEnough
  /\ RoundsOnEnough

(* A pilot that measures leaves a file that is neither missing nor torn.   *)
LEMMA PilotMeasured ==
  ASSUME ExpTypeInv, PilotMeasures
  PROVE  low' \/ SaysEnough'
<1>1. PICK f \in Fps :
        /\ pilot' = [pilot EXCEPT ![group] = [of |-> call, enough |-> f >= MinFps]]
        /\ low' = (f < MinFps)
  BY DEF PilotMeasures
<1>2. f \in Nat /\ MinFps \in Nat
  BY ExperimentAssumption
<1>3. DOMAIN pilot = Groups /\ group \in Groups /\ group' = group /\ call \in Nat
  BY DEF PilotMeasures, ExpTypeInv, ExpTypeOK
<1> DEFINE entry == [of |-> call, enough |-> f >= MinFps]
<1>4. pilot'[group'] = entry
  BY <1>1, <1>3
<1>5. entry \in [of : Nat, enough : BOOLEAN]
  BY <1>2, <1>3
<1>6. entry \notin {Missing, Torn}
  BY <1>5, ExperimentAssumption
<1>7. CASE f < MinFps
  BY <1>1, <1>7
<1>8. CASE f >= MinFps
  <2>1. entry.enough
    BY <1>8
  <2> HIDE DEF entry
  <2> QED BY <1>4, <1>6, <2>1 DEF SaysEnough
<1> QED BY <1>2, <1>7, <1>8

LEMMA PilotStep ==
  ASSUME MinFps > 0, ExpTypeInv, PilotInv, [ExpNext]_expVars
  PROVE  PilotInv'
<1> USE DEF PilotInv, RoundsOnEnough, Measuring
<1>1. CASE sh' \in {"idle", "rerun"}
  BY <1>1
<1>2. CASE Begin \/ WaitForUplink
  BY <1>2 DEF Begin, WaitForUplink
<1>3. CASE PilotMeasures
  BY <1>3, PilotMeasured DEF PilotMeasures
<1>4. CASE PilotStatusLost
  <2>1. CASE pilot'[group] \in {Missing, Torn}
    BY <1>4, <2>1 DEF PilotStatusLost
  <2>2. CASE pilot'[group] \notin {Missing, Torn}
    BY <1>4, <2>2 DEF PilotStatusLost, SaysEnough
  <2> QED BY <2>1, <2>2
<1>5. CASE PilotRerunFails
  BY <1>5 DEF PilotRerunFails
<1>6. CASE TrafficJudged /\ sh' = "round"
  <2>1. ~low \/ opts.force
    BY <1>6, Zenon DEF TrafficJudged, Exit
  <2>2. opts' = [opts EXCEPT !.wait = FALSE]
    BY <1>6, <2>1, Zenon DEF TrafficJudged
  <2>3. opts'.force = opts.force
    BY <2>2 DEF ExpTypeInv, ExpTypeOK
  <2>4. sh = "judge" /\ UNCHANGED <<group, pilot>>
    BY <1>6 DEF TrafficJudged
  <2> QED BY <1>6, <2>1, <2>3, <2>4 DEF SaysEnough
<1>7. CASE /\ UNCHANGED <<group, opts, pilot>>
           /\ Measuring
           /\ Measuring'
  BY <1>7 DEF SaysEnough
<1>8. CASE RoundBegins \/ RoundEnds \/ RoundFails
  BY <1>7, <1>8 DEF RoundBegins, RoundEnds, RoundFails, NextRound
<1>9. CASE UNCHANGED expVars
  BY <1>9 DEF expVars, scriptVars, SaysEnough
<1>10. CASE FirstPilotFails \/ Sanity \/ CtrlC \/ RerunEnds \/ Rerun \/ Summarize
  <2>1. sh' \in {"idle", "rerun"}
    BY <1>10 DEF FirstPilotFails, Sanity, CtrlC, RerunEnds, Rerun, Summarize, Exit,
           scriptVars
  <2> QED BY <1>1, <2>1
<1>11. CASE TrafficJudged
  <2>1. sh' = "idle" \/ sh' = "round"
    BY <1>11, Zenon DEF TrafficJudged, Exit
  <2> QED BY <1>1, <1>6, <1>11, <2>1
<1> QED
  BY <1>2, <1>3, <1>4, <1>5, <1>8, <1>9, <1>10, <1>11 DEF ExpNext, Script

(* Without FORCE and with a threshold above 0, rounds begin only on a      *)
(* pilot file that says MIN_FPS, however many pilots failed on the way.    *)
(* (With MIN_FPS=0 they begin without a file: 0 frames/s are enough.)      *)
THEOREM RoundsNeedTraffic ==
  ASSUME MinFps > 0
  PROVE  ExpSpec => []RoundsOnEnough
<1>1. ExpInit => PilotInv
  BY DEF ExpInit, PilotInv, RoundsOnEnough, Measuring
<1>2. ExpTypeInv /\ PilotInv /\ [ExpNext]_expVars => PilotInv'
  BY PilotStep
<1>3. PilotInv => RoundsOnEnough
  BY DEF PilotInv
<1> QED BY <1>1, <1>2, <1>3, TypeInvariant, PTL DEF ExpSpec

-----------------------------------------------------------------------------
(* For any number of rounds: when at most half of a group's rounds         *)
(* stalled, the rounds summarize_runs.py flags are the stalled ones.       *)
THEOREM StallsAreFound == ExpSpec => []StallsAreFlagged
<1>1. ExpTypeInv => StallsAreFlagged
  <2> SUFFICES ASSUME ExpTypeInv, Aggregable,
                      NEW g \in Groups, NEW Stalls \in SUBSET Rounds,
                      \A r \in Rounds : results[g][r] # Missing,
                      2 * Cardinality(Stalls) <= NumRounds,
                      \A q \in Rounds \ Stalls :
                        /\ \A r \in Stalls : 2 * results[g][r] < results[g][q]
                        /\ \A r \in Rounds \ Stalls : 2 * results[g][r] >= results[g][q]
               PROVE  Suspects(results[g]) = Stalls
    BY DEF StallsAreFlagged
  <2>1. results[g] \in [Rounds -> Nat \union {Missing}]
    BY ReadableFiles DEF Aggregable, Files
  <2>2. results[g] \in [Rounds -> Nat]
    BY <2>1
  <2> QED BY <2>2, StallsFlagged
<1> QED BY <1>1, TypeInvariant, PTL

(* For any number of rounds, with rounds and receivers' files missing: as  *)
(* long as at most half of the files stalled, the script's sanity check    *)
(* names the rounds whose own file stalled.                                *)
THEOREM SanityIsRight == ExpSpec => []SanityFindsStalls
<1>1. ExpTypeInv => SanityFindsStalls
  <2> SUFFICES ASSUME ExpTypeInv, \A r \in Rounds : results[group][r] # Torn,
                      NEW udp \in [Rounds -> Fps \union {Missing}],
                      FewStalled(results[group] \o udp)
               PROVE  SanityFlags(results[group], udp)
                        = Stalled(results[group] \o udp) \intersect Rounds
    BY DEF SanityFindsStalls
  <2>1. results[group] \in Files
    <3>1. results[group] \in [Rounds -> {Missing, Torn} \union Fps]
      BY DEF ExpTypeInv, ExpTypeOK
    <3>2. \A r \in Rounds : results[group][r] \in Nat \union {Missing}
      BY <3>1, ExperimentAssumption
    <3> QED BY <3>1, <3>2 DEF Files
  <2>2. udp \in Files
    BY ExperimentAssumption DEF Files
  <2> QED BY <2>1, <2>2, SanityNamesStalls
<1> QED BY <1>1, TypeInvariant, PTL

-----------------------------------------------------------------------------
(* The point of the reference in the figure.                               *)

(* Min and Max of the values of a sequence are two of them.                *)
LEMMA Extremes ==
  ASSUME NEW n \in Nat \ {0}, NEW vals \in [1 .. n -> Int],
         NEW S, S = {vals[i] : i \in 1 .. n}
  PROVE  /\ Min(S) \in Int
         /\ Max(S) \in Int
         /\ \A i \in 1 .. n : Min(S) <= vals[i] /\ vals[i] <= Max(S)
<1>1. PICK b \in Nat : \A i \in 1 .. n : -b <= vals[i] /\ vals[i] <= b
  BY ValuesBounded
<1>2. /\ S \subseteq Int /\ S # {} /\ -b \in Int /\ b \in Int
      /\ \A v \in S : -b <= v /\ v <= b
  BY <1>1
<1>3. \E m \in S : \A v \in S : m <= v
  BY <1>2, LeastInt
<1>4. \E m \in S : \A v \in S : v <= m
  BY <1>2, GreatestInt
<1>5. \E m \in S : \A v \in S : m >= v
  BY <1>2, <1>4
<1>6. Min(S) \in S /\ \A v \in S : Min(S) <= v
  BY <1>3 DEF Min
<1>7. Max(S) \in S /\ \A v \in S : Max(S) >= v
  BY <1>5 DEF Max
<1> QED BY <1>2, <1>6, <1>7

(* The groups of a kind can be listed by ascending number.                 *)
LEMMA ViewListed ==
  ASSUME NEW kind, NEW S \in SUBSET Groups, \A g \in S : g.kind = kind
  PROVE  /\ Cardinality(S) \in Nat
         /\ \E view \in [1 .. Cardinality(S) -> S] :
              \A i, j \in DOMAIN view : i < j => view[i].x < view[j].x
<1>1. IsFiniteSet(S)
  BY GroupAssumption, FS_Subset
<1> DEFINE c == Cardinality(S)
           Nums == {g.x + 1 : g \in S}
           num == [g \in S |-> g.x + 1]
<1>2. c \in Nat /\ ExistsBijection(1 .. c, S)
  BY <1>1, FS_CardinalityType
<1>3. PICK f \in [1 .. c -> S] : \A g \in S : \E i \in 1 .. c : f[i] = g
  BY <1>2 DEF ExistsBijection, Bijection, Surjection
<1>4. \A g \in S : g = [kind |-> kind, x |-> g.x] /\ g.x \in Nat
  BY GroupAssumption
<1>5. [i \in 1 .. c |-> f[i].x] \in [1 .. c -> Int]
  BY <1>3, <1>4
<1>6. PICK b \in Nat : \A i \in 1 .. c : f[i].x <= b
  <2> DEFINE xs == [i \in 1 .. c |-> f[i].x]
  <2>1. PICK b \in Nat : \A i \in 1 .. c : -b <= xs[i] /\ xs[i] <= b
    <3> HIDE DEF xs, c
    <3> QED BY <1>2, <1>5, ValuesBounded DEF xs
  <2> QED BY <2>1
<1>7. Nums \in SUBSET (1 .. b + 1)
  <2> SUFFICES ASSUME NEW g \in S  PROVE g.x + 1 \in 1 .. b + 1
    OBVIOUS
  <2>1. g.x \in Nat /\ g.x <= b
    BY <1>3, <1>4, <1>6
  <2> QED BY <2>1
<1>8. Cardinality(Nums) = c
  <2>1. num \in [S -> Nums] /\ \A t \in Nums : \E g \in S : num[g] = t
    OBVIOUS
  <2>2. \A g, h \in S : num[g] = num[h] => g = h
    <3> SUFFICES ASSUME NEW g \in S, NEW h \in S, num[g] = num[h]  PROVE g = h
      OBVIOUS
    <3>1. g.x \in Nat /\ h.x \in Nat /\ g.x + 1 = h.x + 1
      BY <1>4
    <3>2. g.x = h.x
      BY <3>1
    <3> QED BY <1>4, <3>2
  <2> HIDE DEF num, Nums
  <2>3. num \in Bijection(S, Nums)
    BY <2>1, <2>2 DEF Bijection, Injection, Surjection, IsInjective
  <2> QED BY <1>1, <2>3, FS_Bijection DEF ExistsBijection
<1>9. PICK t \in [1 .. c -> Nums] : Ascending(t)
  <2>1. Enumerable(Nums)
    <3> HIDE DEF Nums
    <3>1. b + 1 \in Nat
      BY <1>6
    <3> HIDE DEF Enumerable
    <3> QED BY <1>7, <3>1, AllEnumerable
  <2> QED BY <1>8, <2>1 DEF Enumerable
<1> DEFINE view == [i \in 1 .. c |-> [kind |-> kind, x |-> t[i] - 1]]
<1>10. ASSUME NEW i \in 1 .. c  PROVE view[i] \in S /\ view[i].x = t[i] - 1 /\ t[i] \in Int
  <2>1. PICK g \in S : t[i] = g.x + 1
    BY <1>9
  <2>2. g.x \in Nat /\ t[i] - 1 = g.x /\ g = [kind |-> kind, x |-> g.x]
    BY <1>4, <2>1
  <2>3. view[i] = [kind |-> kind, x |-> t[i] - 1]
    OBVIOUS
  <2>4. view[i] = g
    BY <2>2, <2>3
  <2> HIDE DEF view
  <2> QED BY <2>1, <2>2, <2>4
<1>11. view \in [1 .. c -> S]
  <2> HIDE DEF c
  <2> QED BY <1>10
<1>12. ASSUME NEW i \in 1 .. c, NEW j \in 1 .. c, i < j  PROVE view[i].x < view[j].x
  <2>1. t[i] < t[j]
    BY <1>9, <1>12 DEF Ascending
  <2>2. t[i] \in Int /\ t[j] \in Int /\ view[i].x = t[i] - 1 /\ view[j].x = t[j] - 1
    BY <1>10
  <2> HIDE DEF view
  <2> QED BY <2>1, <2>2
<1> HIDE DEF view
<1>13. DOMAIN view = 1 .. c
  BY <1>11
<1> QED BY <1>2, <1>11, <1>12, <1>13

(* A part a of d, of a range w, lies in the range.                         *)
LEMMA PartOfRange ==
  ASSUME NEW a \in Nat, NEW d \in Nat \ {0}, a <= d, NEW w \in Nat
  PROVE  (a * w) \div d \in 0 .. w
<1> DEFINE q == (a * w) \div d
<1>1. a * w \in Nat /\ a * w <= d * w
  OBVIOUS
<1>2. q \in Nat /\ d * q <= a * w
  BY <1>1
<1> HIDE DEF q
<1>3. ASSUME q > w  PROVE FALSE
  <2>1. d * q >= d * (w + 1) /\ d * (w + 1) = d * w + d
    BY <1>2, <1>3
  <2>2. d * w \in Nat /\ d * q \in Nat
    BY <1>2
  <2> QED BY <1>1, <1>2, <2>1, <2>2
<1>4. q \in 0 .. w
  BY <1>2, <1>3
<1> QED BY <1>4 DEF q

(* The side_ch reference is drawn between the smallest and the largest     *)
(* rate of the mmap sweep when its frame rate is between those measured    *)
(* there, for any points and whatever the rates are.                       *)
THEOREM ReferenceIsInRange == ExpSpec => []RefInRange
<1>1. ExpTypeInv => RefInRange
  <2> DEFINE view == View(summary, "sweep_mmap")
             fps == FrameRates(summary, view)
             mx == Rates(view)
             S == {g \in DOMAIN summary : g.kind = "sweep_mmap"}
             c == Cardinality(S)
  <2> SUFFICES ASSUME ExpTypeInv, summary # Missing, RefDrawn(summary),
                      NEW rfps \in Min(fps) .. Max(fps)
               PROVE  RefLoad(summary, rfps) \in Min(mx) .. Max(mx)
    BY DEF RefInRange
  <2>1. /\ S \in SUBSET Groups
        /\ \A g \in S : summary[g].stats.n \in Nat \ {0} /\ summary[g].stats.sum \in Nat
    BY DEF ExpTypeInv, SummaryOK
  <2>2. view \in [1 .. c -> S] /\ c \in Nat
    <3>1. c \in Nat /\ \E v \in [1 .. c -> S] :
                          \A i, j \in DOMAIN v : i < j => v[i].x < v[j].x
      BY <2>1, ViewListed
    <3>2. view = CHOOSE v \in [1 .. c -> S] :
                   \A i, j \in DOMAIN v : i < j => v[i].x < v[j].x
      BY DEF View
    <3> QED BY <3>1, <3>2
  <2>3. c \in Nat \ {0}
    <3>1. Len(view) >= 2
      BY DEF RefDrawn
    <3> HIDE DEF view, c
    <3>2. Len(view) = c
      BY <2>2
    <3> QED BY <2>2, <3>1, <3>2
  <2>4. \A i \in 1 .. c : view[i].x \in Nat
    BY <2>1, <2>2, GroupAssumption
  <2>5. DOMAIN view = 1 .. c
    BY <2>2
  <2>6. \A i \in 1 .. c :
          summary[view[i]].stats.sum \div summary[view[i]].stats.n \in Int
    BY <2>1, <2>2
  <2> DEFINE xs == [i \in 1 .. c |-> view[i].x]
             rs == [i \in 1 .. c |->
                      summary[view[i]].stats.sum \div summary[view[i]].stats.n]
  <2>7. /\ xs \in [1 .. c -> Int] /\ mx = {xs[i] : i \in 1 .. c}
        /\ rs \in [1 .. c -> Int] /\ fps = {rs[i] : i \in 1 .. c}
    <3> HIDE DEF view, c
    <3>1. xs \in [1 .. c -> Int]
      BY <2>4
    <3>2. rs \in [1 .. c -> Int]
      BY <2>6
    <3>3. mx = {xs[i] : i \in 1 .. c}
      BY <2>5 DEF Rates
    <3>4. fps = {rs[i] : i \in 1 .. c}
      BY <2>5 DEF FrameRates
    <3> QED BY <3>1, <3>2, <3>3, <3>4
  <2> HIDE DEF view, c, S, xs, rs, mx, fps
  <2>8. Min(mx) \in Int /\ Max(mx) \in Int /\ Min(mx) <= Max(mx)
    <3>1. /\ Min(mx) \in Int /\ Max(mx) \in Int
          /\ \A i \in 1 .. c : Min(mx) <= xs[i] /\ xs[i] <= Max(mx)
      BY <2>3, <2>7, Extremes
    <3>2. 1 \in 1 .. c
      BY <2>3
    <3>3. xs[1] \in Int
      BY <2>7, <3>2
    <3>4. Min(mx) <= xs[1] /\ xs[1] <= Max(mx)
      BY <3>1, <3>2
    <3> QED BY <3>1, <3>3, <3>4
  <2>9. Min(fps) \in Int /\ Max(fps) \in Int
    BY <2>3, <2>7, Extremes
  <2>10. RefLoad(summary, rfps) =
           IF Max(fps) = Min(fps) THEN Min(mx)
           ELSE Min(mx) + ((rfps - Min(fps)) * (Max(mx) - Min(mx)))
                            \div (Max(fps) - Min(fps))
    BY DEF RefLoad, view, fps, mx
  <2>11. CASE Max(fps) = Min(fps)
    BY <2>8, <2>10, <2>11
  <2>12. CASE Max(fps) # Min(fps)
    <3> DEFINE a == rfps - Min(fps)
               d == Max(fps) - Min(fps)
               w == Max(mx) - Min(mx)
    <3>1. a \in Nat /\ d \in Nat \ {0} /\ a <= d /\ w \in Nat
      BY <2>8, <2>9, <2>12
    <3>2. RefLoad(summary, rfps) = Min(mx) + (a * w) \div d
      BY <2>10, <2>12
    <3>3. (a * w) \div d \in 0 .. w
      <4> HIDE DEF a, d, w
      <4> QED BY <3>1, PartOfRange
    <3> HIDE DEF a, d
    <3> QED BY <2>8, <3>2, <3>3
  <2> QED BY <2>11, <2>12
<1> QED BY <1>1, TypeInvariant, PTL
=============================================================================
