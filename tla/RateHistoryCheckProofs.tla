----------------------- MODULE RateHistoryCheckProofs -----------------------
(* Theorems about RateHistoryCheck for any rates, deposit, clock and size  *)
(* of the ring.                                                            *)
EXTENDS RateHistoryCheck, RateHistoryProofs

(* What the rates of the seconds before t come to.                         *)
SumTo(log, t) == Total(log, 2 .. t)

LEMMA SumStarts == \A log : SumTo(log, 1) = 0
  <1>1. 2 .. 1 = {}  OBVIOUS
  <1> QED  BY <1>1, TotalEmpty DEF SumTo

LEMMA SumIsNat ==
    ASSUME NEW log \in Seq(Nat), NEW t \in 1 .. Len(log)
    PROVE  SumTo(log, t) \in Nat
  <1>1. IsFiniteSet(2 .. t)  BY FS_Interval
  <1>2. \A i \in 2 .. t : log[i] \in Nat  OBVIOUS
  <1> QED  BY <1>1, <1>2, TotalType DEF SumTo

LEMMA SumSteps ==
    ASSUME NEW log \in Seq(Nat), NEW t \in 1 .. Len(log), t + 1 <= Len(log)
    PROVE  SumTo(log, t + 1) = SumTo(log, t) + log[t + 1]
  <1> DEFINE S == 2 .. t
  <1>1. IsFiniteSet(S)  BY FS_Interval
  <1>2. S \union {t + 1} = 2 .. t + 1  OBVIOUS
  <1>3. t + 1 \notin S  OBVIOUS
  <1>4. \A x \in S \union {t + 1} : log[x] \in Nat  OBVIOUS
  <1> HIDE DEF S
  <1>5. Total(log, S \union {t + 1}) = log[t + 1] + Total(log, S)
    BY <1>1, <1>3, <1>4, TotalAdd
  <1>6. log[t + 1] \in Nat /\ SumTo(log, t) \in Nat
    BY <1>4, SumIsNat
  <1>7. SumTo(log, t) = Total(log, S)  BY DEF SumTo, S
  <1>8. SumTo(log, t + 1) = Total(log, S \union {t + 1})
    BY <1>2 DEF SumTo
  <1> QED  BY <1>5, <1>6, <1>7, <1>8

LEMMA SumKeeps ==
    ASSUME NEW log \in Seq(Nat), NEW r \in Nat, NEW t \in 1 .. Len(log)
    PROVE  SumTo(Append(log, r), t) = SumTo(log, t)
  <1>1. IsFiniteSet(2 .. t)  BY FS_Interval
  <1>2. \A x \in 2 .. t : Append(log, r)[x] = log[x]  OBVIOUS
  <1> QED  BY <1>1, <1>2, TotalAgrees DEF SumTo

LEMMA SumGrows ==
    ASSUME NEW log \in Seq(Nat), NEW b \in 1 .. Len(log),
           NEW c \in b .. Len(log)
    PROVE  SumTo(log, b) <= SumTo(log, c)
  <1> DEFINE T == {k \in Nat : b + k <= Len(log) =>
                      SumTo(log, b) <= SumTo(log, b + k)}
  <1>1. T \subseteq Nat  OBVIOUS
  <1>2. SumTo(log, b) \in Nat  BY SumIsNat
  <1>3. 0 \in T
    <2>1. b + 0 = b  OBVIOUS
    <2> QED  BY <1>2, <2>1
  <1>4. ASSUME NEW k \in T PROVE k + 1 \in T
    <2> SUFFICES ASSUME b + (k + 1) <= Len(log)
                 PROVE  SumTo(log, b) <= SumTo(log, b + (k + 1))
      OBVIOUS
    <2>1. k \in Nat /\ b + (k + 1) = (b + k) + 1
          /\ b + k \in 1 .. Len(log) /\ (b + k) + 1 <= Len(log)
      OBVIOUS
    <2>2. SumTo(log, b) <= SumTo(log, b + k)  BY <2>1
    <2>3. log[(b + k) + 1] \in Nat  BY <2>1
    <2>4. SumTo(log, (b + k) + 1) = SumTo(log, b + k) + log[(b + k) + 1]
      BY <2>1, SumSteps
    <2>5. SumTo(log, b + k) \in Nat  BY <2>1, SumIsNat
    <2> HIDE DEF T
    <2>6. \A x, y, z \in Nat : x <= y => x <= y + z  OBVIOUS
    <2>7. SumTo(log, b) <= SumTo(log, b + k) + log[(b + k) + 1]
      BY <1>2, <2>2, <2>3, <2>5, <2>6
    <2> QED  BY <2>1, <2>4, <2>7
  <1> HIDE DEF T
  <1>5. \A k \in Nat : k \in T  BY <1>1, <1>3, <1>4, Induction
  <1> DEFINE m == c - b
  <1>6. m \in Nat /\ b + m = c /\ c <= Len(log)  OBVIOUS
  <1> HIDE DEF m
  <1>7. m \in T  BY <1>5, <1>6
  <1> QED  BY <1>6, <1>7 DEF T

(* While the rate is the same, every second adds it.                       *)
LEMMA SumOfSame ==
    ASSUME NEW log \in Seq(Nat), NEW r \in Nat,
           NEW b \in 1 .. Len(log), NEW c \in b .. Len(log),
           \A s \in b .. c - 1 : log[s + 1] = r
    PROVE  SumTo(log, c) = SumTo(log, b) + r * (c - b)
  <1> DEFINE T == {k \in Nat : b + k <= c =>
                      SumTo(log, b + k) = SumTo(log, b) + r * k}
  <1>1. T \subseteq Nat  OBVIOUS
  <1>2. SumTo(log, b) \in Nat  BY SumIsNat
  <1>3. 0 \in T
    <2>1. b + 0 = b /\ r * 0 = 0  OBVIOUS
    <2> QED  BY <1>2, <2>1
  <1>4. ASSUME NEW k \in T PROVE k + 1 \in T
    <2> SUFFICES ASSUME b + (k + 1) <= c
                 PROVE  SumTo(log, b + (k + 1)) = SumTo(log, b) + r * (k + 1)
      OBVIOUS
    <2>1. k \in Nat /\ b + k \in b .. c - 1 /\ b + (k + 1) = (b + k) + 1
          /\ b + k \in 1 .. Len(log) /\ (b + k) + 1 <= Len(log)
      OBVIOUS
    <2>2. SumTo(log, b + k) = SumTo(log, b) + r * k  BY <2>1
    <2>3. log[(b + k) + 1] = r  BY <2>1
    <2>4. SumTo(log, (b + k) + 1) = SumTo(log, b + k) + r
      BY <2>1, <2>3, SumSteps
    <2>5. r * (k + 1) = r * k + r /\ r * k \in Nat  BY <2>1
    <2> HIDE DEF T
    <2> QED  BY <1>2, <2>1, <2>2, <2>4, <2>5
  <1> HIDE DEF T
  <1>5. \A k \in Nat : k \in T  BY <1>1, <1>3, <1>4, Induction
  <1> DEFINE m == c - b
  <1>6. m \in Nat /\ b + m = c  OBVIOUS
  <1> HIDE DEF m
  <1>7. m \in T  BY <1>5, <1>6
  <1>8. SumTo(log, b + m) = SumTo(log, b) + r * m  BY <1>6, <1>7 DEF T
  <1> QED  BY <1>6, <1>8 DEF m

-----------------------------------------------------------------------------
Starts(p, k) == Timeline(p)[k].changed_at

StrictlyInOrder(p) ==
    \A i, j \in 1 .. p.rate_history.len + 1 : i < j => Starts(p, i) < Starts(p, j)

(* The log has in each second the rate of the timeline's entry for it.     *)
LogAgrees(p, log, t) ==
    \A k \in 1 .. p.rate_history.len + 1 : \A s \in Starts(p, k) .. t - 1 :
        (k <= p.rate_history.len => s < Starts(p, k + 1))
            => log[s + 1] = Timeline(p)[k].rate_bps
LEMMA StartsAre ==
    ASSUME NEW p, RatesTyped(p)
    PROVE  LET n == p.rate_history.len
           IN  /\ n \in Nat
               /\ \A k \in 1 .. n + 1 : Starts(p, k) \in Nat
               /\ \A k \in 1 .. n + 1 : Timeline(p)[k] \in RateHistoryEntry
               /\ Starts(p, n + 1) = CurrentRateStart(p)
               /\ Timeline(p)[n + 1].rate_bps = p.rate_bps
  <1> DEFINE n == p.rate_history.len
  <1>1. /\ n \in Nat
        /\ Timeline(p)[n + 1] = Current(p)
        /\ \A i \in 1 .. n + 1 : Timeline(p)[i] \in RateHistoryEntry
    BY TimelineType
  <1> HIDE DEF n
  <1>2. \A k \in 1 .. n + 1 : Starts(p, k) \in Nat
    BY <1>1 DEF Starts, RateHistoryEntry
  <1>3. Starts(p, n + 1) = CurrentRateStart(p)
        /\ Timeline(p)[n + 1].rate_bps = p.rate_bps
    BY <1>1 DEF Starts, Current
  <1> QED  BY <1>1, <1>2, <1>3 DEF n

LEMMA StrictIsInOrder ==
    ASSUME NEW p, RatesTyped(p), StrictlyInOrder(p)
    PROVE  InOrder(Timeline(p))
  <1> DEFINE n == p.rate_history.len
  <1>1. n \in Nat /\ DOMAIN Timeline(p) = 1 .. n + 1  BY TimelineType
  <1>2. \A k \in 1 .. n + 1 : Starts(p, k) \in Nat  BY StartsAre
  <1>3. \A i, j \in 1 .. n + 1 : i < j => Starts(p, i) < Starts(p, j)
    BY DEF StrictlyInOrder
  <1> HIDE DEF n
  <1>4. \A i, j \in 1 .. n + 1 : i <= j => Starts(p, i) <= Starts(p, j)
    <2> SUFFICES ASSUME NEW i \in 1 .. n + 1, NEW j \in 1 .. n + 1, i <= j
                 PROVE  Starts(p, i) <= Starts(p, j)
      OBVIOUS
    <2>1. CASE i = j  BY <1>2, <2>1
    <2>2. CASE i < j  BY <1>2, <1>3, <2>2
    <2> QED  BY <1>1, <2>1, <2>2
  <1> QED  BY <1>1, <1>4 DEF InOrder, Starts

(* The rate found for a time the ring reaches back to is that of the entry *)
(* in force.                                                               *)
InForce(p, t, m) ==
    /\ m \in 1 .. p.rate_history.len + 1
    /\ Starts(p, m) <= t
    /\ m <= p.rate_history.len => t < Starts(p, m + 1)

LEMMA ResolvedInForce ==
    ASSUME NEW p, RatesTyped(p), StrictlyInOrder(p), NEW t \in Nat,
           Starts(p, 1) <= t
    PROVE  \E m \in 1 .. p.rate_history.len + 1 :
              /\ InForce(p, t, m)
              /\ ResolveRateAt(p, t) = Timeline(p)[m].rate_bps
  <1> DEFINE n    == p.rate_history.len
             past == Chronicle(p.rate_history)
  <1>1. /\ n \in Nat
        /\ \A k \in 1 .. n + 1 : Starts(p, k) \in Nat
        /\ Starts(p, n + 1) = CurrentRateStart(p)
        /\ Timeline(p)[n + 1].rate_bps = p.rate_bps
    BY StartsAre
  <1>2. \A i \in 1 .. n : Timeline(p)[i] = past[i]  BY TimelineType
  <1>3. InOrder(Timeline(p))  BY StrictIsInOrder
  <1>4. CASE t >= CurrentRateStart(p)
    <2>1. ResolveRateAt(p, t) = p.rate_bps  BY <1>4 DEF ResolveRateAt
    <2>2. InForce(p, t, n + 1)  BY <1>1, <1>4 DEF InForce
    <2> HIDE DEF n
    <2>3. n + 1 \in 1 .. n + 1  BY <1>1
    <2> QED  BY <1>1, <2>1, <2>2, <2>3 DEF n
  <1>5. CASE t < CurrentRateStart(p)
    <2>1. n >= 1  BY <1>1, <1>5
    <2>2. PICK m \in 1 .. n : RateIndex(p, t, m)
      BY <1>3, <2>1, RateIndexExists
    <2>3. ResolveRateAt(p, t) = past[m].rate_bps
      BY <1>3, <1>5, <2>2, ResolvedIs
    <2>4. /\ m = 1 \/ past[m].changed_at <= t
          /\ \A j \in 1 .. n : j > m => past[j].changed_at > t
      BY <2>2 DEF RateIndex
    <2> HIDE DEF n, past
    <2>5. m \in 1 .. n + 1 /\ m \in Nat  BY <1>1
    <2>6. Starts(p, m) <= t  BY <1>2, <2>4 DEF Starts
    <2>7. t < Starts(p, m + 1)
      <3>1. CASE m = n  BY <1>1, <1>5, <3>1
      <3>2. CASE m < n
        <4>1. m + 1 \in 1 .. n /\ m + 1 > m /\ m + 1 \in 1 .. n + 1
          BY <1>1, <3>2
        <4>2. past[m + 1].changed_at > t  BY <2>4, <4>1
        <4>3. Starts(p, m + 1) = past[m + 1].changed_at
          BY <1>2, <4>1 DEF Starts
        <4> QED  BY <1>1, <4>1, <4>2, <4>3
      <3> QED  BY <1>1, <3>1, <3>2
    <2>8. ResolveRateAt(p, t) = Timeline(p)[m].rate_bps  BY <1>2, <2>3
    <2>9. InForce(p, t, m)  BY <2>5, <2>6, <2>7 DEF InForce, n
    <2> QED  BY <2>5, <2>8, <2>9 DEF n
  <1> QED  BY <1>1, <1>4, <1>5
-----------------------------------------------------------------------------
(* Rounding one segment down loses less than one unit.                     *)
Within(got, exact, roundings) ==
    /\ YieldDenom * got <= exact
    /\ exact <= YieldDenom * got + (YieldDenom - 1) * roundings

LEMMA AccruedWithin ==
    ASSUME NEW a \in Nat, NEW r \in Nat, NEW d \in Nat
    PROVE  Within(CalculateAccruedYield(a, r, d), a * (r * d), 1)
  <1> DEFINE q == (a * r * d) \div YieldDenom
             m == (a * r * d) % YieldDenom
  <1>1. YieldDenom \in Nat \ {0} /\ a * r * d \in Nat
    BY RateHistoryAssumption
  <1>2. /\ q \in Nat /\ m \in 0 .. YieldDenom - 1
        /\ a * r * d = YieldDenom * q + m
    BY <1>1
  <1>3. a * (r * d) = a * r * d  OBVIOUS
  <1>4. CalculateAccruedYield(a, r, d) = q  BY DEF CalculateAccruedYield
  <1> HIDE DEF q, m
  <1>5. YieldDenom * q \in Nat /\ (YieldDenom - 1) * 1 = YieldDenom - 1
    BY <1>1, <1>2
  <1> QED  BY <1>1, <1>2, <1>3, <1>4, <1>5 DEF Within

LEMMA WithinAdds ==
    ASSUME NEW e \in Nat, NEW x \in Nat, NEW c \in Nat, Within(e, x, c),
           NEW f \in Nat, NEW y \in Nat, NEW d \in Nat, Within(f, y, d)
    PROVE  Within(e + f, x + y, c + d)
  <1>1. YieldDenom \in Nat \ {0}  BY RateHistoryAssumption
  <1>2. /\ YieldDenom * (e + f) = YieldDenom * e + YieldDenom * f
        /\ (YieldDenom - 1) * (c + d)
             = (YieldDenom - 1) * c + (YieldDenom - 1) * d
        /\ YieldDenom * e \in Nat /\ YieldDenom * f \in Nat
        /\ (YieldDenom - 1) * c \in Nat /\ (YieldDenom - 1) * d \in Nat
    BY <1>1
  <1> QED  BY <1>2 DEF Within

(* The changes among the first k that fall inside the window.              *)
Inside(p, since, t, k) ==
    {s \in since + 1 .. t - 1 : \E j \in 1 .. k : s = Starts(p, j)}

(* What the first k entries have made of the window: a segment that runs   *)
(* to the next entry, and in its account the yield of what is before it.   *)
SoFar(p, log, a, since, t, k, seg) ==
    /\ seg \in Segment
    /\ seg.start \in since .. t
    /\ k <= p.rate_history.len => seg.start < Starts(p, k + 1)
    /\ \A s \in seg.start .. t - 1 :
          (k <= p.rate_history.len => s < Starts(p, k + 1))
              => log[s + 1] = seg.rate
    /\ Within(seg.earned, a * (SumTo(log, seg.start) - SumTo(log, since)),
              Cardinality(Inside(p, since, t, k)))

(* The log and the timeline of a pool at time t, for a deposit credited at *)
(* since.                                                                  *)
Recorded(p, log, since, t) ==
    /\ RatesTyped(p)
    /\ StrictlyInOrder(p)
    /\ log \in Seq(Nat) /\ t = Len(log)
    /\ since \in 1 .. t
    /\ Starts(p, 1) <= since
    /\ LogAgrees(p, log, t)

LEMMA InsideIsFinite ==
    ASSUME NEW p, NEW since \in Nat, NEW t \in Nat, NEW k
    PROVE  /\ IsFiniteSet(Inside(p, since, t, k))
           /\ Cardinality(Inside(p, since, t, k)) \in Nat
  <1>1. IsFiniteSet(since + 1 .. t - 1)  BY FS_Interval
  <1>2. Inside(p, since, t, k) \in SUBSET (since + 1 .. t - 1)  BY DEF Inside
  <1>3. IsFiniteSet(Inside(p, since, t, k))  BY <1>1, <1>2, FS_Subset
  <1> QED  BY <1>3, FS_CardinalityType

LEMMA SoFarStarts ==
    ASSUME NEW p, NEW log, NEW a \in Nat, NEW since, NEW t,
           Recorded(p, log, since, t), NEW m, InForce(p, since, m),
           NEW seg, seg.start = since, seg.earned = 0, seg \in Segment,
           seg.rate = Timeline(p)[m].rate_bps
    PROVE  SoFar(p, log, a, since, t, m, seg)
  <1> DEFINE n == p.rate_history.len
  <1>1. /\ n \in Nat /\ \A k \in 1 .. n + 1 : Starts(p, k) \in Nat
    BY StartsAre DEF Recorded
  <1>2. /\ m \in 1 .. n + 1 /\ Starts(p, m) <= since
        /\ m <= n => since < Starts(p, m + 1)
    BY DEF InForce
  <1>3. /\ log \in Seq(Nat) /\ t = Len(log) /\ since \in 1 .. t
        /\ \A i, j \in 1 .. n + 1 : i < j => Starts(p, i) < Starts(p, j)
    BY DEF Recorded, StrictlyInOrder
  <1>4. \A s \in Starts(p, m) .. t - 1 :
           (m <= n => s < Starts(p, m + 1)) => log[s + 1] = seg.rate
    BY <1>2 DEF Recorded, LogAgrees
  <1> HIDE DEF n
  <1>5. \A s \in since .. t - 1 : s \in Starts(p, m) .. t - 1
    BY <1>1, <1>2, <1>3
  <1>6. Inside(p, since, t, m) = {}
    <2> SUFFICES ASSUME NEW s \in since + 1 .. t - 1, NEW j \in 1 .. m,
                        s = Starts(p, j)
                 PROVE  FALSE
      BY DEF Inside
    <2>1. j \in 1 .. n + 1 /\ (j = m \/ j < m)  BY <1>1, <1>2
    <2>2. Starts(p, j) <= Starts(p, m)  BY <1>1, <1>2, <1>3, <2>1
    <2> QED  BY <1>1, <1>2, <1>3, <2>1, <2>2
  <1>7. Cardinality(Inside(p, since, t, m)) = 0  BY <1>6, FS_EmptySet
  <1>8. SumTo(log, since) \in Nat  BY <1>3, SumIsNat
  <1>9. a * (SumTo(log, since) - SumTo(log, since)) = 0  BY <1>8
  <1>10. Within(0, 0, 0)
    <2>1. YieldDenom \in Nat \ {0}  BY RateHistoryAssumption
    <2>2. YieldDenom * 0 = 0 /\ (YieldDenom - 1) * 0 = 0  BY <2>1
    <2> QED  BY <2>2 DEF Within
  <1>11. since \in since .. t  BY <1>3
  <1>12. \A s \in since .. t - 1 :
            (m <= n => s < Starts(p, m + 1)) => log[s + 1] = seg.rate
    BY <1>4, <1>5
  <1> QED
    BY <1>2, <1>7, <1>9, <1>10, <1>11, <1>12 DEF SoFar, n
(* One entry more.                                                         *)
LEMMA SoFarCuts ==
    ASSUME NEW p, NEW log, NEW a \in Nat, NEW since, NEW t,
           Recorded(p, log, since, t), CurrentRateStart(p) <= t,
           NEW k \in 1 .. p.rate_history.len, NEW seg,
           SoFar(p, log, a, since, t, k, seg)
    PROVE  SoFar(p, log, a, since, t, k + 1,
                 Cut(a, t, seg, Timeline(p)[k + 1]))
  <1> DEFINE n     == p.rate_history.len
             entry == Timeline(p)[k + 1]
             at    == Starts(p, k + 1)
             new   == Cut(a, t, seg, entry)
             sum   == SumTo(log, seg.start) - SumTo(log, since)
             cuts  == Cardinality(Inside(p, since, t, k))
  <1>1. /\ n \in Nat
        /\ \A i \in 1 .. n + 1 : Starts(p, i) \in Nat
        /\ \A i \in 1 .. n + 1 : Timeline(p)[i] \in RateHistoryEntry
    BY StartsAre DEF Recorded
  <1>2. /\ log \in Seq(Nat) /\ t = Len(log) /\ since \in 1 .. t
        /\ \A i, j \in 1 .. n + 1 : i < j => Starts(p, i) < Starts(p, j)
    BY DEF Recorded, StrictlyInOrder
  <1>3. LogAgrees(p, log, t)  BY DEF Recorded
  <1>4. /\ seg \in Segment
        /\ seg.start \in since .. t
        /\ k <= n => seg.start < Starts(p, k + 1)
        /\ \A s \in seg.start .. t - 1 :
              (k <= n => s < Starts(p, k + 1)) => log[s + 1] = seg.rate
        /\ Within(seg.earned, a * sum, cuts)
    BY DEF SoFar
  <1>5. k + 1 \in 1 .. n + 1 /\ k \in Nat /\ k <= n  BY <1>1
  <1>6. entry \in RateHistoryEntry /\ at \in Nat /\ entry.changed_at = at
        /\ seg.start < at
    BY <1>1, <1>4, <1>5 DEF Starts
  <1>7. k + 1 <= n => at < Starts(p, (k + 1) + 1)
    <2> SUFFICES ASSUME k + 1 <= n PROVE at < Starts(p, (k + 1) + 1)
      OBVIOUS
    <2>1. (k + 1) + 1 \in 1 .. n + 1 /\ k + 1 < (k + 1) + 1  BY <1>1, <1>5
    <2> QED  BY <1>2, <1>5, <2>1
  <1>8. /\ seg.start \in Nat /\ seg.rate \in Nat /\ seg.earned \in Nat
        /\ seg.start \in 1 .. Len(log) /\ t \in Nat /\ since \in Nat
        /\ since <= seg.start /\ seg.start <= t
    BY <1>2, <1>4 DEF Segment
  <1>9. cuts \in Nat  BY <1>8, InsideIsFinite
  <1>10. sum \in Nat
    <2>1. SumTo(log, since) <= SumTo(log, seg.start)
          /\ SumTo(log, since) \in Nat /\ SumTo(log, seg.start) \in Nat
      BY <1>2, <1>8, SumGrows, SumIsNat
    <2> QED  BY <2>1
  <1>11. CASE at < t
    <2> DEFINE d    == at - seg.start
               more == CalculateAccruedYield(a, seg.rate, d)
    <2>1. d \in Nat /\ at \in 1 .. Len(log) /\ at \in seg.start .. Len(log)
      <3>1. seg.start >= 1 /\ t = Len(log)  BY <1>2, <1>8
      <3>2. at \in 1 .. t /\ at \in seg.start .. t
        <4> HIDE DEF at
        <4> QED  BY <1>6, <1>8, <1>11, <3>1
      <3>3. at - seg.start \in Nat
        <4> HIDE DEF at
        <4> QED  BY <1>6, <1>8
      <3> QED  BY <3>1, <3>2, <3>3
    <2>2. new = [start |-> at, rate |-> entry.rate_bps,
                 earned |-> seg.earned + more]
      BY <1>6, <1>11 DEF Cut
    <2>3. new \in Segment
      <3>1. seg.start <= t  BY <1>8
      <3> HIDE DEF entry, new
      <3> QED  BY <1>4, <1>6, <1>8, <3>1, CutType DEF new
    <2>4. \A s \in seg.start .. at - 1 : log[s + 1] = seg.rate
      <3>1. \A s \in seg.start .. at - 1 : s \in seg.start .. t - 1 /\ s < at
        BY <1>6, <1>8, <1>11
      <3> QED  BY <1>4, <3>1
    <2>5. SumTo(log, at) = SumTo(log, seg.start) + seg.rate * d
      BY <1>2, <1>8, <2>1, <2>4, SumOfSame
    <2>6. Within(more, a * (seg.rate * d), 1)
      BY <1>8, <2>1, AccruedWithin
    <2>7. more \in Nat  BY <1>8, <2>1, AccruedIsNat
    <2>8. seg.rate * d \in Nat  BY <1>8, <2>1
    <2> DEFINE gain == seg.rate * d
    <2>9. Within(seg.earned + more, a * sum + a * gain, cuts + 1)
      <3>1. a * sum \in Nat /\ a * gain \in Nat  BY <1>10, <2>8
      <3> HIDE DEF sum, gain, more, cuts
      <3> QED
        BY <1>4, <1>8, <1>9, <2>6, <2>7, <3>1, WithinAdds DEF gain
    <2>10. a * (SumTo(log, at) - SumTo(log, since)) = a * sum + a * gain
      <3>1. SumTo(log, at) - SumTo(log, since) = sum + gain
        <4>1. SumTo(log, since) \in Nat /\ SumTo(log, seg.start) \in Nat
          BY <1>2, <1>8, SumIsNat
        <4> QED  BY <2>5, <2>8, <4>1
      <3> HIDE DEF sum, gain
      <3>2. a * (sum + gain) = a * sum + a * gain
        BY <1>10, <2>8 DEF gain
      <3> QED  BY <3>1, <3>2
    <2>11. Cardinality(Inside(p, since, t, k + 1)) = cuts + 1
      <3>1. Inside(p, since, t, k + 1) = Inside(p, since, t, k) \union {at}
        <4>1. at \in since + 1 .. t - 1  BY <1>6, <1>8, <1>11
        <4>2. \A j \in 1 .. k + 1 : j \in 1 .. k \/ j = k + 1  BY <1>5
        <4>3. \A j \in 1 .. k : j \in 1 .. k + 1  BY <1>5
        <4> QED  BY <1>5, <4>1, <4>2, <4>3 DEF Inside
      <3>2. at \notin Inside(p, since, t, k)
        <4> SUFFICES ASSUME NEW j \in 1 .. k, at = Starts(p, j) PROVE FALSE
          BY DEF Inside
        <4>1. j \in 1 .. n + 1 /\ j < k + 1  BY <1>1, <1>5
        <4>2. Starts(p, j) < at  BY <1>2, <1>5, <4>1
        <4> QED  BY <1>6, <4>2
      <3>3. IsFiniteSet(Inside(p, since, t, k))  BY <1>8, InsideIsFinite
      <3> QED  BY <3>1, <3>2, <3>3, FS_AddElement
    <2>12. \A s \in at .. t - 1 :
              (k + 1 <= n => s < Starts(p, (k + 1) + 1))
                  => log[s + 1] = entry.rate_bps
      BY <1>3, <1>5 DEF LogAgrees
    <2>13. new.start = at /\ new.rate = entry.rate_bps
           /\ new.earned = seg.earned + more
      BY <2>2
    <2>14. at \in since .. t  BY <1>6, <1>8, <1>11
    <2> HIDE DEF new, at, more, gain, sum, cuts, n, entry
    <2> QED
      BY <1>7, <2>3, <2>9, <2>10, <2>11, <2>12, <2>13, <2>14
         DEF SoFar, n, new, entry
  <1>12. CASE at >= t
    <2>1. new = seg  BY <1>6, <1>8, <1>12, LateCut
    <2>2. Inside(p, since, t, k + 1) = Inside(p, since, t, k)
      <3>1. \A j \in 1 .. k + 1 : j \in 1 .. k \/ j = k + 1  BY <1>5
      <3>2. \A j \in 1 .. k : j \in 1 .. k + 1  BY <1>5
      <3>3. at \notin since + 1 .. t - 1  BY <1>6, <1>8, <1>12
      <3> QED  BY <3>1, <3>2, <3>3 DEF Inside
    <2>3. k + 1 <= n => seg.start < Starts(p, (k + 1) + 1)
      <3> SUFFICES ASSUME k + 1 <= n
                   PROVE  seg.start < Starts(p, (k + 1) + 1)
        OBVIOUS
      <3>1. (k + 1) + 1 \in 1 .. n + 1  BY <1>1, <1>5
      <3>2. Starts(p, (k + 1) + 1) \in Nat  BY <1>1, <3>1
      <3> QED  BY <1>6, <1>7, <1>8, <3>2
    <2>4. \A s \in seg.start .. t - 1 : log[s + 1] = seg.rate
      <3>1. \A s \in seg.start .. t - 1 : s < at  BY <1>6, <1>8, <1>12
      <3> QED  BY <1>4, <3>1
    <2> HIDE DEF new, at, sum, cuts, n, entry
    <2> QED
      BY <1>4, <2>1, <2>2, <2>3, <2>4 DEF SoFar, n, new, entry, sum, cuts
  <1> QED  BY <1>6, <1>8, <1>11, <1>12
(* The yield computed for a window is, up to one rounding per segment,     *)
(* what the rates of the log come to second by second.                     *)
LEMMA EarnedAsLogged ==
    ASSUME NEW p, NEW log, NEW a \in Nat, NEW since, NEW t,
           Recorded(p, log, since, t), CurrentRateStart(p) <= t
    PROVE  LET n == p.rate_history.len
           IN  /\ EarnedYield(p, a, since, t) \in Nat
               /\ a * (SumTo(log, t) - SumTo(log, since)) \in Nat
               /\ Within(EarnedYield(p, a, since, t),
                         a * (SumTo(log, t) - SumTo(log, since)),
                         Cardinality(Inside(p, since, t, n + 1)) + 1)
  <1> DEFINE n    == p.rate_history.len
             base == Opening(p, since)
  <1>1. /\ n \in Nat
        /\ \A k \in 1 .. n + 1 : Starts(p, k) \in Nat
        /\ \A k \in 1 .. n + 1 : Timeline(p)[k] \in RateHistoryEntry
    BY StartsAre DEF Recorded
  <1>2. /\ RatesTyped(p) /\ StrictlyInOrder(p)
        /\ log \in Seq(Nat) /\ t = Len(log) /\ since \in 1 .. t
        /\ Starts(p, 1) <= since
        /\ \A i, j \in 1 .. n + 1 : i < j => Starts(p, i) < Starts(p, j)
    BY DEF Recorded, StrictlyInOrder
  <1>3. since \in Nat /\ t \in Nat /\ since <= t  BY <1>2
  <1>4. PICK m \in 1 .. n + 1 :
           /\ InForce(p, since, m)
           /\ ResolveRateAt(p, since) = Timeline(p)[m].rate_bps
    BY <1>2, <1>3, ResolvedInForce
  <1>5. /\ base \in Segment /\ base.start = since /\ base.earned = 0
        /\ base.rate = Timeline(p)[m].rate_bps
    BY <1>2, <1>3, <1>4, OpeningType DEF Opening
  <1>6. PICK v : /\ IsCuts(a, t, base, Timeline(p), n + 1, v)
                 /\ Cuts(a, t, base, Timeline(p)) = v[n + 1]
    BY <1>2, TimelineCuts
  <1>7. /\ v[0] = base
        /\ \A k \in 1 .. n + 1 : v[k] = Cut(a, t, v[k - 1], Timeline(p)[k])
    BY <1>6 DEF IsCuts
  <1>8. EarnedYield(p, a, since, t) = Closing(a, t, v[n + 1])
    BY <1>6, EarnedYieldIs
  <1> HIDE DEF n, base
  <1>9. v[m] = base
    <2> DEFINE T == {k \in Nat : k <= m => v[k] = base}
    <2>1. T \subseteq Nat /\ 0 \in T  BY <1>7
    <2>2. ASSUME NEW k \in T PROVE k + 1 \in T
      <3> SUFFICES ASSUME k + 1 <= m PROVE v[k + 1] = base
        OBVIOUS
      <3>1. k \in Nat /\ k + 1 \in 1 .. n + 1 /\ (k + 1) - 1 = k
        BY <1>1
      <3>2. v[k] = base  BY <1>1, <3>1
      <3>3. v[k + 1] = Cut(a, t, base, Timeline(p)[k + 1])
        BY <1>7, <3>1, <3>2
      <3>4. Starts(p, k + 1) <= Starts(p, m)
        <4>1. CASE k + 1 = m  BY <1>1, <4>1
        <4>2. CASE k + 1 < m  BY <1>1, <1>2, <3>1, <4>2
        <4> QED  BY <1>1, <3>1, <4>1, <4>2
      <3>5. Starts(p, k + 1) <= since /\ Starts(p, k + 1) \in Nat
        BY <1>1, <1>3, <1>4, <3>1, <3>4 DEF InForce
      <3> HIDE DEF T
      <3> QED  BY <1>3, <1>5, <3>3, <3>5, EarlyCut DEF Starts
    <2> HIDE DEF T
    <2>3. \A k \in Nat : k \in T  BY <2>1, <2>2, Induction
    <2>4. m \in Nat /\ m <= m  BY <1>1
    <2> QED  BY <2>3, <2>4 DEF T
  <1>10. SoFar(p, log, a, since, t, m, v[m])
    BY <1>4, <1>5, <1>9, SoFarStarts
  <1>11. SoFar(p, log, a, since, t, n + 1, v[n + 1])
    <2> DEFINE T == {k \in Nat : m + k <= n + 1 =>
                        SoFar(p, log, a, since, t, m + k, v[m + k])}
    <2>1. T \subseteq Nat  OBVIOUS
    <2>2. 0 \in T
      <3>1. m + 0 = m  BY <1>1
      <3> QED  BY <1>10, <3>1
    <2>3. ASSUME NEW k \in T PROVE k + 1 \in T
      <3> SUFFICES ASSUME m + (k + 1) <= n + 1
                   PROVE  SoFar(p, log, a, since, t, m + (k + 1),
                                v[m + (k + 1)])
        OBVIOUS
      <3> DEFINE i == m + k
      <3>1. /\ k \in Nat /\ i \in 1 .. n /\ m + (k + 1) = i + 1
            /\ i + 1 \in 1 .. n + 1 /\ (i + 1) - 1 = i
        BY <1>1
      <3>2. SoFar(p, log, a, since, t, i, v[i])  BY <1>1, <3>1
      <3> HIDE DEF T, i
      <3>3. v[i + 1] = Cut(a, t, v[i], Timeline(p)[i + 1])
        BY <1>7, <3>1
      <3>4. SoFar(p, log, a, since, t, i + 1,
                  Cut(a, t, v[i], Timeline(p)[i + 1]))
        BY <3>1, <3>2, SoFarCuts DEF n
      <3> QED  BY <3>1, <3>3, <3>4
    <2> HIDE DEF T
    <2>4. \A k \in Nat : k \in T  BY <2>1, <2>2, <2>3, Induction
    <2> DEFINE k == (n + 1) - m
    <2>5. k \in Nat /\ m + k = n + 1  BY <1>1
    <2> HIDE DEF k
    <2>6. k \in T  BY <2>4, <2>5
    <2> QED  BY <1>1, <2>5, <2>6 DEF T
  <1> DEFINE seg  == v[n + 1]
             cuts == Cardinality(Inside(p, since, t, n + 1))
             d    == t - seg.start
             more == CalculateAccruedYield(a, seg.rate, d)
             sum  == SumTo(log, seg.start) - SumTo(log, since)
             gain == seg.rate * d
  <1>12. /\ seg \in Segment /\ seg.start \in since .. t
         /\ \A s \in seg.start .. t - 1 : log[s + 1] = seg.rate
         /\ Within(seg.earned, a * sum, cuts)
    <2>1. ~(n + 1 <= n)  BY <1>1
    <2> QED  BY <1>11, <2>1 DEF SoFar, n
  <1>13. /\ seg.start \in Nat /\ seg.rate \in Nat /\ seg.earned \in Nat
         /\ seg.start \in 1 .. Len(log) /\ t \in seg.start .. Len(log)
         /\ seg.start \in since .. Len(log) /\ since \in 1 .. Len(log)
         /\ t \in 1 .. Len(log) /\ d \in Nat
    BY <1>2, <1>3, <1>12 DEF Segment
  <1> HIDE DEF seg
  <1>14. more \in Nat /\ gain \in Nat /\ cuts \in Nat
    <2>1. more \in Nat
      <3> HIDE DEF d
      <3> QED  BY <1>13, AccruedIsNat
    <2>2. gain \in Nat  BY <1>13
    <2>3. cuts \in Nat  BY <1>3, InsideIsFinite
    <2> QED  BY <2>1, <2>2, <2>3
  <1>15. /\ SumTo(log, since) \in Nat /\ SumTo(log, seg.start) \in Nat
         /\ SumTo(log, since) <= SumTo(log, seg.start)
    BY <1>2, <1>13, SumIsNat, SumGrows
  <1>16. SumTo(log, t) = SumTo(log, seg.start) + gain
    BY <1>2, <1>12, <1>13, SumOfSame
  <1>17. sum \in Nat  BY <1>15
  <1>18. Within(more, a * gain, 1)  BY <1>13, AccruedWithin
  <1>19. SumTo(log, t) - SumTo(log, since) = sum + gain
    BY <1>14, <1>15, <1>16
  <1>20. EarnedYield(p, a, since, t) = seg.earned + more
    BY <1>8 DEF Closing, seg
  <1> HIDE DEF more, gain, cuts, sum
  <1>21. a * sum \in Nat /\ a * gain \in Nat
         /\ a * (sum + gain) = a * sum + a * gain
    BY <1>14, <1>17
  <1>22. Within(seg.earned + more, a * sum + a * gain, cuts + 1)
    BY <1>12, <1>13, <1>14, <1>18, <1>21, WithinAdds
  <1>23. seg.earned + more \in Nat /\ a * sum + a * gain \in Nat
    <2>1. \A x, y \in Nat : x + y \in Nat  OBVIOUS
    <2>2. a * sum + a * gain \in Nat  BY <1>21, <2>1
    <2>3. seg.earned + more \in Nat  BY <1>13, <1>14, <2>1
    <2> QED  BY <2>2, <2>3
  <1> QED  BY <1>19, <1>20, <1>21, <1>22, <1>23 DEF cuts, n
-----------------------------------------------------------------------------
(* The inductive invariant: the timeline has a start for every rate still  *)
(* remembered, the log agrees with it, and what was credited so far is     *)
(* right up to its roundings.                                              *)
LogBooks ==
    /\ RingFills(pool.rate_history)
    /\ StrictlyInOrder(pool)
    /\ CurrentRateStart(pool) <= now
    /\ LogAgrees(pool, rateLog, now)
    /\ ~forgot => Starts(pool, 1) <= last

SyncBooks ==
    ~forgot => Within(credited, Amount * SumTo(rateLog, last), segments)

Books == TypeOK /\ LogBooks /\ SyncBooks

LEMMA TypesAre ==
    ASSUME TypeOK
    PROVE  /\ RatesTyped(pool)
           /\ now \in Nat /\ now >= 1 /\ now <= MaxTime
           /\ last \in 1 .. now /\ last \in Nat
           /\ credited \in Nat /\ segments \in Nat
           /\ rateLog \in Seq(Nat) /\ Len(rateLog) = now
           /\ Amount \in Nat
  <1>1. MaxTime \in Nat /\ Amount \in Nat  BY RateHistoryCheckAssumption
  <1> QED  BY <1>1 DEF TypeOK, RatesTyped

LEMMA SegmentsAre ==
    ASSUME TypeOK, NEW since \in Nat
    PROVE  LET n == pool.rate_history.len
           IN  SegmentsSince(since) =
                 1 + Cardinality(Inside(pool, since, now, n + 1))
  <1> DEFINE n == pool.rate_history.len
             past == Chronicle(pool.rate_history)
  <1>1. /\ n \in Nat
        /\ Starts(pool, n + 1) = CurrentRateStart(pool)
    BY TypesAre, StartsAre
  <1>2. \A i \in 1 .. n : Starts(pool, i) = past[i].changed_at
    BY TypesAre, TimelineType DEF Starts
  <1>3. Inside(pool, since, now, n + 1) =
          {s \in since + 1 .. now - 1 :
              s = CurrentRateStart(pool) \/
              \E i \in 1 .. n : past[i].changed_at = s}
    <2> HIDE DEF n, past
    <2>1. \A j \in 1 .. n + 1 : j \in 1 .. n \/ j = n + 1  BY <1>1
    <2>2. n + 1 \in 1 .. n + 1 /\ \A j \in 1 .. n : j \in 1 .. n + 1
      BY <1>1
    <2> QED  BY <1>1, <1>2, <2>1, <2>2 DEF Inside
  <1> QED  BY <1>3 DEF SegmentsSince

LEMMA InitBooks == Init => Books
  <1> SUFFICES ASSUME Init PROVE Books
    OBVIOUS
  <1> USE DEF Init
  <1>1. PICK r \in Rates :
           pool = [created_at |-> 1, rate_bps |-> r, rate_updated_at |-> 0,
                   rate_history |-> EmptyRing]
    OBVIOUS
  <1>2. HistSize \in Nat \ {0} /\ r \in Nat /\ MaxTime \in Nat \ {0}
    BY RateHistoryAssumption, RateHistoryCheckAssumption
  <1>3. EmptyRing \in RingType
    BY <1>2 DEF EmptyRing, RingType, RateHistoryEntry
  <1>4. TypeOK
    <2>1. <<0>> \in Seq(Nat) /\ Len(<<0>>) = 1  OBVIOUS
    <2>2. pool \in [created_at : Nat, rate_bps : Nat,
                   rate_updated_at : Nat, rate_history : RingType]
      <3> HIDE DEF Init
      <3> QED  BY <1>1, <1>2, <1>3
    <2>3. 1 \in 1 .. MaxTime /\ 1 \in 1 .. 1  BY <1>2
    <2> QED  BY <2>1, <2>2, <2>3 DEF TypeOK
  <1>5. CurrentRateStart(pool) = 1  BY <1>1 DEF CurrentRateStart
  <1>6. pool.rate_history.len = 0 /\ RingFills(pool.rate_history)
    BY <1>1 DEF EmptyRing, RingFills
  <1>7. Starts(pool, 1) = 1
    <2>1. Starts(pool, 0 + 1) = CurrentRateStart(pool)
      BY <1>4, <1>6, TypesAre, StartsAre
    <2> QED  BY <1>5, <2>1
  <1>8. StrictlyInOrder(pool)  BY <1>6 DEF StrictlyInOrder
  <1>9. LogAgrees(pool, rateLog, now)
    <2>1. \A k \in 1 .. 0 + 1 : Starts(pool, k) .. 1 - 1 = {}
      <3>1. \A k \in 1 .. 0 + 1 : k = 1  OBVIOUS
      <3> QED  BY <1>7, <3>1
    <2> QED  BY <1>6, <2>1 DEF LogAgrees
  <1>10. LogBooks  BY <1>5, <1>6, <1>7, <1>8, <1>9 DEF LogBooks
  <1>11. SyncBooks
    <2>1. Amount \in Nat /\ YieldDenom \in Nat \ {0}
      BY RateHistoryCheckAssumption, RateHistoryAssumption
    <2>2. Amount * SumTo(rateLog, last) = 0  BY <2>1, SumStarts
    <2>3. YieldDenom * 0 = 0 /\ (YieldDenom - 1) * 0 = 0  BY <2>1
    <2> QED  BY <2>2, <2>3 DEF SyncBooks, Within
  <1> QED  BY <1>4, <1>10, <1>11 DEF Books

LEMMA TickBooks ==
    ASSUME Books, Tick
    PROVE  Books'
  <1> DEFINE n == pool.rate_history.len
  <1>1. /\ now < MaxTime /\ now' = now + 1
        /\ rateLog' = Append(rateLog, pool.rate_bps)
        /\ UNCHANGED <<pool, last, credited, segments, forgot>>
    BY DEF Tick
  <1>2. /\ RatesTyped(pool)
        /\ now \in Nat /\ now >= 1 /\ now <= MaxTime
        /\ last \in 1 .. now
        /\ rateLog \in Seq(Nat) /\ Len(rateLog) = now
    BY TypesAre DEF Books
  <1>3. pool.rate_bps \in Nat /\ MaxTime \in Nat
    BY <1>2, RateHistoryCheckAssumption DEF RatesTyped
  <1>4. rateLog' \in Seq(Nat) /\ Len(rateLog') = now'  BY <1>1, <1>2, <1>3
  <1>5. TypeOK'
    <2>1. now' \in 1 .. MaxTime /\ last' \in 1 .. now'
      BY <1>1, <1>2, <1>3
    <2> QED  BY <1>1, <1>4, <2>1 DEF Books, TypeOK
  <1>6. /\ n \in Nat
        /\ \A k \in 1 .. n + 1 : Starts(pool, k) \in Nat
        /\ Starts(pool, n + 1) = CurrentRateStart(pool)
        /\ Timeline(pool)[n + 1].rate_bps = pool.rate_bps
    BY <1>2, StartsAre
  <1>7. /\ \A i, j \in 1 .. n + 1 : i < j => Starts(pool, i) < Starts(pool, j)
        /\ CurrentRateStart(pool) <= now
    BY DEF Books, LogBooks, StrictlyInOrder
  <1>8. ASSUME NEW k \in 1 .. n + 1, NEW s \in Starts(pool, k) .. now,
               k <= n => s < Starts(pool, k + 1)
        PROVE  rateLog'[s + 1] = Timeline(pool)[k].rate_bps
    <2>1. CASE s < now
      <3>1. s \in Starts(pool, k) .. now - 1 /\ s + 1 \in 1 .. Len(rateLog)
        BY <1>2, <1>6, <2>1
      <3>2. rateLog[s + 1] = Timeline(pool)[k].rate_bps
        BY <1>8, <3>1 DEF Books, LogBooks, LogAgrees
      <3> QED  BY <1>1, <1>2, <1>3, <3>1, <3>2
    <2>2. CASE s = now
      <3>1. k = n + 1
        <4> SUFFICES ASSUME k <= n PROVE FALSE
          BY <1>6
        <4>1. k + 1 \in 1 .. n + 1 /\ (k + 1 = n + 1 \/ k + 1 < n + 1)
              /\ n + 1 \in 1 .. n + 1
          BY <1>6
        <4>2. Starts(pool, k + 1) <= Starts(pool, n + 1)
          BY <1>6, <1>7, <4>1
        <4> QED  BY <1>2, <1>6, <1>7, <1>8, <2>2, <4>1, <4>2
      <3>2. rateLog'[now + 1] = pool.rate_bps  BY <1>1, <1>2, <1>3
      <3> QED  BY <1>6, <2>2, <3>1, <3>2
    <2> QED  BY <1>2, <1>6, <2>1, <2>2
  <1>9. LogAgrees(pool, rateLog', now')
    <2>1. now' - 1 = now  BY <1>1, <1>2
    <2> QED  BY <1>8, <2>1 DEF LogAgrees
  <1>10. LogBooks'
    <2>1. CurrentRateStart(pool) <= now'
      <3>1. CurrentRateStart(pool) \in Nat  BY <1>2, TimelineType
      <3> QED  BY <1>1, <1>2, <1>7, <3>1
    <2> QED  BY <1>1, <1>9, <2>1 DEF Books, LogBooks
  <1>11. SyncBooks'
    <2>1. SumTo(rateLog', last) = SumTo(rateLog, last)
      BY <1>1, <1>2, <1>3, SumKeeps
    <2> QED  BY <1>1, <2>1 DEF Books, SyncBooks
  <1> QED  BY <1>5, <1>10, <1>11 DEF Books
(* A change of the rate starts a new entry and keeps the others, but the   *)
(* oldest of a full ring.                                                  *)
LEMMA RatesChange ==
    ASSUME NEW p, RatesTyped(p), NEW q, RatesTyped(q), NEW rate,
           NEW t \in Nat, NewRate(q, p, rate, t),
           RingFills(p.rate_history), StrictlyInOrder(p),
           CurrentRateStart(p) < t, NEW log, LogAgrees(p, log, t)
    PROVE  /\ RingFills(q.rate_history)
           /\ StrictlyInOrder(q)
           /\ CurrentRateStart(q) = t
           /\ LogAgrees(q, log, t)
           /\ p.rate_history.len < HistSize => Starts(q, 1) = Starts(p, 1)
           /\ p.rate_history.len = HistSize => Starts(q, 1) = Starts(p, 2)
  <1> DEFINE n == p.rate_history.len
             m == q.rate_history.len
  <1>1. /\ n \in Nat /\ n <= HistSize /\ HistSize \in Nat \ {0}
        /\ \A k \in 1 .. n + 1 : Starts(p, k) \in Nat
        /\ Starts(p, n + 1) = CurrentRateStart(p)
    BY StartsAre, TimelineType, RateHistoryAssumption
  <1>2. \A i, j \in 1 .. n + 1 : i < j => Starts(p, i) < Starts(p, j)
    BY DEF StrictlyInOrder
  <1>3. t >= 1  BY <1>1, StartsAre
  <1>4. \A k \in 1 .. n + 1 : \A s \in Starts(p, k) .. t - 1 :
           (k <= n => s < Starts(p, k + 1))
               => log[s + 1] = Timeline(p)[k].rate_bps
    BY DEF LogAgrees
  <1>5. \A i \in 1 .. n + 1 : Starts(p, i) < t
    <2> TAKE i \in 1 .. n + 1
    <2> HIDE DEF n
    <2>1. n + 1 \in 1 .. n + 1 /\ (i = n + 1 \/ i < n + 1)  BY <1>1
    <2>2. Starts(p, i) <= Starts(p, n + 1)  BY <1>1, <1>2, <2>1
    <2> QED  BY <1>1, <2>1, <2>2
  <1>6. CASE n < HistSize
    <2>1. /\ m = n + 1 /\ RingFills(q.rate_history) /\ CurrentRateStart(q) = t
          /\ \A k \in 1 .. n + 1 : Timeline(q)[k] = Timeline(p)[k]
          /\ Timeline(q)[n + 2].changed_at = t
      BY <1>3, <1>6, TimelineGrows
    <2> HIDE DEF n, m
    <2>2. /\ \A k \in 1 .. n + 1 : Starts(q, k) = Starts(p, k)
          /\ Starts(q, n + 2) = t
      BY <2>1 DEF Starts
    <2>3. \A i \in 1 .. m + 1 : i \in 1 .. n + 1 \/ i = n + 2
      BY <1>1, <2>1
    <2>4. ASSUME NEW i \in 1 .. m + 1, NEW j \in 1 .. m + 1, i < j
          PROVE  Starts(q, i) < Starts(q, j)
      <3>1. i \in 1 .. n + 1  BY <1>1, <2>1, <2>4
      <3>2. CASE j \in 1 .. n + 1  BY <1>2, <2>2, <2>4, <3>1, <3>2
      <3>3. CASE j = n + 2  BY <1>5, <2>2, <3>1, <3>3
      <3> QED  BY <2>3, <3>2, <3>3
    <2>5. ASSUME NEW k \in 1 .. m + 1, NEW s \in Starts(q, k) .. t - 1,
                 k <= m => s < Starts(q, k + 1)
          PROVE  log[s + 1] = Timeline(q)[k].rate_bps
      <3>1. CASE k \in 1 .. n + 1
        <4>1. s \in Starts(p, k) .. t - 1  BY <2>2, <3>1
        <4>2. k <= n => s < Starts(p, k + 1)
          <5> SUFFICES ASSUME k <= n PROVE s < Starts(p, k + 1)
            OBVIOUS
          <5>1. k + 1 \in 1 .. n + 1 /\ k <= m  BY <1>1, <2>1, <3>1
          <5> QED  BY <2>2, <2>5, <5>1
        <4> QED  BY <1>4, <2>1, <3>1, <4>1, <4>2
      <3>2. CASE k = n + 2
        <4>1. s \in t .. t - 1  BY <2>2, <3>2
        <4> QED  BY <4>1
      <3> QED  BY <2>3, <3>1, <3>2
    <2>6. 1 \in 1 .. n + 1 /\ n # HistSize  BY <1>1, <1>6
    <2> QED
      BY <2>1, <2>2, <2>4, <2>5, <2>6 DEF StrictlyInOrder, LogAgrees, n, m
  <1>7. CASE n = HistSize
    <2>1. /\ m = n /\ CurrentRateStart(q) = t
          /\ \A k \in 1 .. n : Timeline(q)[k] = Timeline(p)[k + 1]
          /\ Timeline(q)[n + 1].changed_at = t
      BY <1>3, <1>7, TimelineShifts
    <2>2. RingFills(q.rate_history)  BY <1>1, <1>7, <2>1 DEF RingFills
    <2> HIDE DEF n, m
    <2>3. /\ \A k \in 1 .. n : Starts(q, k) = Starts(p, k + 1)
          /\ Starts(q, n + 1) = t
      BY <2>1 DEF Starts
    <2>4. \A i \in 1 .. n + 1 :
             (i \in 1 .. n /\ i + 1 \in 1 .. n + 1) \/ i = n + 1
      BY <1>1
    <2>5. ASSUME NEW i \in 1 .. n + 1, NEW j \in 1 .. n + 1, i < j
          PROVE  Starts(q, i) < Starts(q, j)
      <3>1. i \in 1 .. n /\ i + 1 \in 1 .. n + 1 /\ i + 1 < j + 1
        BY <1>1, <2>5
      <3>2. CASE j \in 1 .. n
        <4>1. j + 1 \in 1 .. n + 1  BY <1>1, <3>2
        <4> QED  BY <1>2, <2>3, <3>1, <3>2, <4>1
      <3>3. CASE j = n + 1  BY <1>5, <2>3, <3>1, <3>3
      <3> QED  BY <2>4, <3>2, <3>3
    <2>6. ASSUME NEW k \in 1 .. n + 1, NEW s \in Starts(q, k) .. t - 1,
                 k <= n => s < Starts(q, k + 1)
          PROVE  log[s + 1] = Timeline(q)[k].rate_bps
      <3>1. CASE k \in 1 .. n
        <4>1. k + 1 \in 1 .. n + 1 /\ s \in Starts(p, k + 1) .. t - 1
          BY <2>3, <2>4, <3>1
        <4>2. k + 1 <= n => s < Starts(p, (k + 1) + 1)
          <5> SUFFICES ASSUME k + 1 <= n PROVE s < Starts(p, (k + 1) + 1)
            OBVIOUS
          <5>1. k <= n /\ k + 1 \in 1 .. n  BY <1>1, <3>1
          <5> QED  BY <2>3, <2>6, <5>1
        <4>3. log[s + 1] = Timeline(p)[k + 1].rate_bps
          BY <1>4, <4>1, <4>2
        <4> QED  BY <2>1, <3>1, <4>3
      <3>2. CASE k = n + 1
        <4>1. s \in t .. t - 1  BY <2>3, <3>2
        <4> QED  BY <4>1
      <3> QED  BY <2>4, <3>1, <3>2
    <2>7. 1 \in 1 .. n /\ 1 + 1 = 2 /\ ~(n < HistSize)  BY <1>1, <1>7
    <2>8. Starts(q, 1) = Starts(p, 2)  BY <2>3, <2>7
    <2> QED
      BY <2>1, <2>2, <2>5, <2>6, <2>7, <2>8
         DEF StrictlyInOrder, LogAgrees, n, m
  <1> QED  BY <1>1, <1>6, <1>7
LEMMA ChangeIsNew ==
    ASSUME TypeOK, NEW r \in Rates, ChangeRate(r)
    PROVE  /\ NewRate(pool', pool, r, now)
           /\ pool' \in [created_at : Nat, rate_bps : Nat,
                         rate_updated_at : Nat, rate_history : RingType]
           /\ RatesTyped(pool')
  <1> DEFINE ring == PushRateHistory(pool.rate_history, Current(pool))
  <1>1. pool \in [created_at : Nat, rate_bps : Nat,
                  rate_updated_at : Nat, rate_history : RingType]
    BY DEF TypeOK
  <1>2. RatesTyped(pool) /\ now \in Nat  BY TypesAre
  <1>3. pool' = [pool EXCEPT !.rate_history = ring, !.rate_bps = r,
                             !.rate_updated_at = now]
    BY DEF ChangeRate, WithNewRate, Current
  <1>4. ring \in RingType
    <2>1. Current(pool) \in RateHistoryEntry  BY <1>2, TimelineType
    <2>2. pool.rate_history \in RingType  BY <1>1
    <2> QED  BY <2>1, <2>2, PushedRingType
  <1>5. r \in Nat  BY RateHistoryCheckAssumption
  <1> HIDE DEF ring
  <1>6. pool' \in [created_at : Nat, rate_bps : Nat,
                   rate_updated_at : Nat, rate_history : RingType]
    BY <1>1, <1>2, <1>3, <1>4, <1>5
  <1>7. RatesTyped(pool')  BY <1>6 DEF RatesTyped
  <1>8. NewRate(pool', pool, r, now)  BY <1>1, <1>3 DEF NewRate, ring
  <1> QED  BY <1>6, <1>7, <1>8

LEMMA ChangeBooks ==
    ASSUME Books, NEW r \in Rates, ChangeRate(r)
    PROVE  Books'
  <1> DEFINE n == pool.rate_history.len
  <1>1. /\ now > CurrentRateStart(pool)
        /\ forgot' = (forgot \/ Evicts)
        /\ UNCHANGED <<now, last, credited, rateLog, segments>>
    BY DEF ChangeRate
  <1>2. /\ NewRate(pool', pool, r, now)
        /\ pool' \in [created_at : Nat, rate_bps : Nat,
                      rate_updated_at : Nat, rate_history : RingType]
        /\ RatesTyped(pool')
    BY ChangeIsNew DEF Books
  <1>3. TypeOK /\ RatesTyped(pool) /\ now \in Nat /\ last \in Nat
    BY TypesAre DEF Books
  <1>4. /\ n \in Nat /\ n <= HistSize /\ HistSize \in Nat \ {0}
        /\ CurrentRateStart(pool) \in Nat
        /\ \A i \in 1 .. n + 1 : Starts(pool, i) \in Nat
        /\ Starts(pool, n + 1) = CurrentRateStart(pool)
    BY <1>3, TimelineType, StartsAre, RateHistoryAssumption
  <1>5. forgot' \in BOOLEAN  BY <1>1, <1>3 DEF TypeOK
  <1>6. TypeOK'
    BY <1>1, <1>2, <1>3, <1>5 DEF TypeOK
  <1>7. /\ RingFills(pool.rate_history) /\ StrictlyInOrder(pool)
        /\ LogAgrees(pool, rateLog, now)
        /\ ~forgot => Starts(pool, 1) <= last
    BY DEF Books, LogBooks
  <1>8. CurrentRateStart(pool) < now  BY <1>1, <1>3, <1>4
  <1>9. /\ RingFills(pool'.rate_history)
        /\ StrictlyInOrder(pool')
        /\ CurrentRateStart(pool') = now
        /\ LogAgrees(pool', rateLog, now)
        /\ n < HistSize => Starts(pool', 1) = Starts(pool, 1)
        /\ n = HistSize => Starts(pool', 1) = Starts(pool, 2)
    BY <1>2, <1>3, <1>7, <1>8, RatesChange
  <1>10. ASSUME ~forgot' PROVE Starts(pool', 1) <= last
    <2>1. ~forgot /\ ~Evicts  BY <1>1, <1>10
    <2>2. CASE n < HistSize  BY <1>7, <1>9, <2>1, <2>2
    <2>3. CASE n = HistSize
      <3>1. (IF HistSize > 1 THEN Chronicle(pool.rate_history)[2].changed_at
                             ELSE CurrentRateStart(pool)) = Starts(pool, 2)
        <4>1. CASE HistSize > 1
          <5>1. 2 \in 1 .. n  BY <1>4, <2>3, <4>1
          <5>2. Timeline(pool)[2] = Chronicle(pool.rate_history)[2]
            BY <1>3, <5>1, TimelineType
          <5> QED  BY <4>1, <5>2 DEF Starts
        <4>2. CASE ~(HistSize > 1)
          <5>1. n + 1 = 2  BY <1>4, <2>3, <4>2
          <5> QED  BY <1>4, <4>2, <5>1
        <4> QED  BY <4>1, <4>2
      <3>2. ~(last < Starts(pool, 2))  BY <2>1, <2>3, <3>1 DEF Evicts
      <3>3. Starts(pool, 2) \in Nat
        <4>1. 2 \in 1 .. n + 1  BY <1>4, <2>3
        <4> QED  BY <1>4, <4>1
      <3> QED  BY <1>3, <1>9, <2>3, <3>2, <3>3
    <2> QED  BY <1>4, <2>2, <2>3
  <1>11. LogBooks'
    <2>1. now <= now  BY <1>3
    <2> QED  BY <1>1, <1>9, <1>10, <2>1 DEF LogBooks
  <1>12. SyncBooks'
    <2>1. ~forgot' => ~forgot  BY <1>1
    <2> QED  BY <1>1, <2>1 DEF Books, SyncBooks
  <1> QED  BY <1>6, <1>11, <1>12 DEF Books

(* What is owed besides what was credited, compared with the log.          *)
LEMMA OwedWithin ==
    ASSUME Books
    PROVE  LET owed == EarnedYield(pool, Amount, last, now)
           IN  /\ owed \in Nat
               /\ SegmentsSince(last) \in Nat \ {0}
               /\ SumTo(rateLog, now) \in Nat
               /\ ~forgot => Within(credited + owed,
                                    Amount * SumTo(rateLog, now),
                                    segments + SegmentsSince(last))
  <1> DEFINE owed  == EarnedYield(pool, Amount, last, now)
             n     == pool.rate_history.len
             cuts  == Cardinality(Inside(pool, last, now, n + 1))
             until == SumTo(rateLog, last)
             gain  == SumTo(rateLog, now) - until
  <1>1. /\ RatesTyped(pool) /\ now \in Nat /\ now >= 1
        /\ last \in 1 .. now /\ last \in Nat
        /\ credited \in Nat /\ segments \in Nat
        /\ rateLog \in Seq(Nat) /\ Len(rateLog) = now /\ Amount \in Nat
    BY TypesAre DEF Books
  <1>2. last <= now /\ last \in 1 .. Len(rateLog) /\ now \in 1 .. Len(rateLog)
        /\ now \in last .. Len(rateLog)
    BY <1>1
  <1>3. owed \in Nat  BY <1>1, <1>2, EarnedIsNat
  <1>4. cuts \in Nat  BY <1>1, InsideIsFinite
  <1>5. SegmentsSince(last) = 1 + cuts  BY <1>1, SegmentsAre DEF Books
  <1>6. until \in Nat /\ SumTo(rateLog, now) \in Nat
        /\ until <= SumTo(rateLog, now)
    BY <1>1, <1>2, SumIsNat, SumGrows
  <1>7. gain \in Nat /\ SumTo(rateLog, now) = until + gain  BY <1>6
  <1>8. ASSUME ~forgot
        PROVE  Within(credited + owed, Amount * SumTo(rateLog, now),
                      segments + SegmentsSince(last))
    <2>1. /\ StrictlyInOrder(pool) /\ CurrentRateStart(pool) <= now
          /\ LogAgrees(pool, rateLog, now) /\ Starts(pool, 1) <= last
      BY <1>8 DEF Books, LogBooks
    <2>2. Recorded(pool, rateLog, last, now)
      BY <1>1, <2>1 DEF Recorded
    <2>3. Within(owed, Amount * gain, cuts + 1)
      BY <1>1, <2>1, <2>2, EarnedAsLogged
    <2>4. Within(credited, Amount * until, segments)
      BY <1>8 DEF Books, SyncBooks
    <2> HIDE DEF owed, cuts, until, gain, n
    <2>5. Amount * until \in Nat /\ Amount * gain \in Nat
          /\ Amount * (until + gain) = Amount * until + Amount * gain
      BY <1>1, <1>6, <1>7
    <2>6. cuts + 1 \in Nat  BY <1>4
    <2>7. Within(credited + owed, Amount * until + Amount * gain,
                 segments + (cuts + 1))
      BY <1>1, <1>3, <2>3, <2>4, <2>5, <2>6, WithinAdds
    <2>8. SegmentsSince(last) = cuts + 1  BY <1>4, <1>5
    <2> QED  BY <1>7, <2>5, <2>7, <2>8
  <1>9. SegmentsSince(last) \in Nat \ {0}  BY <1>4, <1>5
  <1> QED  BY <1>3, <1>6, <1>8, <1>9

LEMMA CreditBooks ==
    ASSUME Books, Sync
    PROVE  Books'
  <1>1. /\ credited' = credited + EarnedYield(pool, Amount, last, now)
        /\ segments' = segments + SegmentsSince(last)
        /\ last' = now
        /\ UNCHANGED <<now, pool, rateLog, forgot>>
    BY DEF Sync
  <1>2. /\ last \in 1 .. now /\ now \in Nat /\ now >= 1 /\ last \in Nat
        /\ credited \in Nat /\ segments \in Nat
    BY TypesAre DEF Books
  <1>3. /\ EarnedYield(pool, Amount, last, now) \in Nat
        /\ SegmentsSince(last) \in Nat
        /\ ~forgot => Within(credited + EarnedYield(pool, Amount, last, now),
                             Amount * SumTo(rateLog, now),
                             segments + SegmentsSince(last))
    BY OwedWithin
  <1>4. TypeOK'
    <2>1. credited' \in Nat /\ segments' \in Nat /\ last' \in 1 .. now
      BY <1>1, <1>2, <1>3
    <2> QED  BY <1>1, <2>1 DEF Books, TypeOK
  <1>5. LogBooks'
    <2>1. Starts(pool, 1) \in Nat
      <3>1. RatesTyped(pool)  BY TypesAre DEF Books
      <3>2. 1 \in 1 .. pool.rate_history.len + 1  BY <3>1, StartsAre
      <3> QED  BY <3>1, <3>2, StartsAre
    <2>2. Starts(pool, 1) <= last => Starts(pool, 1) <= now
      BY <1>2, <2>1
    <2> QED  BY <1>1, <2>2 DEF Books, LogBooks
  <1>6. SyncBooks'  BY <1>1, <1>3 DEF SyncBooks
  <1> QED  BY <1>4, <1>5, <1>6 DEF Books

LEMMA NextBooks == Books /\ [Next]_vars => Books'
  <1> SUFFICES ASSUME Books, [Next]_vars PROVE Books'
    OBVIOUS
  <1>1. CASE UNCHANGED vars
    BY <1>1 DEF vars, Books, TypeOK, LogBooks, SyncBooks
  <1>2. CASE Tick  BY <1>2, TickBooks
  <1>3. CASE Sync  BY <1>3, CreditBooks
  <1>4. CASE \E r \in Rates : ChangeRate(r)  BY <1>4, ChangeBooks
  <1> QED  BY <1>1, <1>2, <1>3, <1>4 DEF Next

(* The ring is a history of the rates that were in force: types, the order *)
(* of its times, its agreement with the log of every second, and what has  *)
(* been credited from it.                                                  *)
THEOREM RateHistoryInvariant == Spec => []Books
  BY InitBooks, NextBooks, PTL DEF Spec

(* For any deposit, any rates, any size of the ring and any times of the   *)
(* syncs: crediting lazily across rate changes pays what the rates in      *)
(* force paid second by second, less at most one unit per segment, as long *)
(* as the ring has not dropped a rate that was still needed.               *)
THEOREM YieldAlwaysMatchesRateLog == Spec => []YieldMatchesRateLog
  <1>1. Books => YieldMatchesRateLog
    <2> SUFFICES ASSUME Books, ~forgot PROVE YieldMatchesRateLog
      BY DEF YieldMatchesRateLog
    <2> DEFINE owed  == credited + EarnedYield(pool, Amount, last, now)
               exact == Amount * SumTo(rateLog, now)
               cuts  == segments + SegmentsSince(last)
    <2>1. /\ owed \in Nat /\ exact \in Nat /\ cuts \in Nat \ {0}
          /\ Within(owed, exact, cuts)
      <3>1. credited \in Nat /\ segments \in Nat /\ Amount \in Nat
        BY TypesAre DEF Books
      <3>2. /\ EarnedYield(pool, Amount, last, now) \in Nat
            /\ SegmentsSince(last) \in Nat \ {0}
            /\ SumTo(rateLog, now) \in Nat
            /\ Within(owed, exact, cuts)
        BY OwedWithin
      <3> QED  BY <3>1, <3>2
    <2>2. ExactUpTo(now) = exact  BY DEF ExactUpTo, SumTo, Total
    <2>3. owed + segments + SegmentsSince(last) = owed + cuts
      <3>1. credited \in Nat /\ segments \in Nat  BY TypesAre DEF Books
      <3>2. EarnedYield(pool, Amount, last, now) \in Nat
            /\ SegmentsSince(last) \in Nat
        BY OwedWithin
      <3> QED  BY <3>1, <3>2
    <2> HIDE DEF owed, exact, cuts
    <2>4. YieldDenom * owed <= exact /\ exact < YieldDenom * (owed + cuts)
      <3>1. YieldDenom \in Nat \ {0}  BY RateHistoryAssumption
      <3>2. /\ YieldDenom * (owed + cuts)
                 = YieldDenom * owed + YieldDenom * cuts
            /\ YieldDenom * cuts = (YieldDenom - 1) * cuts + cuts
            /\ YieldDenom * owed \in Nat /\ (YieldDenom - 1) * cuts \in Nat
        BY <2>1, <3>1
      <3> QED  BY <2>1, <3>1, <3>2 DEF Within
    <2> QED  BY <2>2, <2>3, <2>4 DEF YieldMatchesRateLog, owed
  <1> QED  BY <1>1, RateHistoryInvariant, PTL

(* Neither a change of the rate nor a sync alters what has been earned by  *)
(* then, unless the ring drops a rate still needed, for any deposit, rates *)
(* and size of the ring.                                                   *)
THEOREM ChangeIsNeverRetroactive == Spec => ChangeIsNotRetroactive
  <1> DEFINE Step == now' = now /\ ~forgot'
                       => EarnedYield(pool', Amount, last', now) + credited'
                            = EarnedYield(pool, Amount, last, now) + credited
  <1>1. ASSUME Books, [Next]_vars PROVE [Step]_vars
    <2> SUFFICES ASSUME now' = now, ~forgot', Next
                 PROVE  EarnedYield(pool', Amount, last', now) + credited'
                          = EarnedYield(pool, Amount, last, now) + credited
      BY <1>1
    <2>1. /\ RatesTyped(pool) /\ now \in Nat /\ now >= 1 /\ last \in 1 .. now
          /\ last \in Nat /\ credited \in Nat /\ Amount \in Nat /\ TypeOK
      BY <1>1, TypesAre DEF Books
    <2>2. ~Tick  BY <2>1 DEF Tick
    <2>3. CASE Sync
      <3>1. /\ credited' = credited + EarnedYield(pool, Amount, last, now)
            /\ last' = now /\ pool' = pool
        BY <2>3 DEF Sync
      <3>2. EarnedYield(pool, Amount, now, now) = 0
        BY <2>1, NothingEarnedAtOnce
      <3>3. EarnedYield(pool, Amount, last, now) \in Nat
        BY <1>1, OwedWithin
      <3> QED  BY <2>1, <3>1, <3>2, <3>3
    <2>4. ASSUME NEW r \in Rates, ChangeRate(r)
          PROVE  EarnedYield(pool', Amount, last', now) + credited'
                   = EarnedYield(pool, Amount, last, now) + credited
      <3>1. last' = last /\ credited' = credited  BY <2>4 DEF ChangeRate
      <3>2. NewRate(pool', pool, r, now) /\ RatesTyped(pool')
        BY <2>1, <2>4, ChangeIsNew
      <3>3. RatesInOrder(pool, now)
        <4>1. RingFills(pool.rate_history) /\ StrictlyInOrder(pool)
              /\ CurrentRateStart(pool) <= now
          BY <1>1 DEF Books, LogBooks
        <4> QED  BY <2>1, <4>1, StrictIsInOrder DEF RatesInOrder
      <3>4. Remembers(pool', last)
        <4>1. Starts(pool', 1) <= last
          BY <1>1, <2>4, <3>1, ChangeBooks DEF Books, LogBooks
        <4> SUFFICES ASSUME pool'.rate_history.len > 0
                     PROVE  Chronicle(pool'.rate_history)[1].changed_at <= last
          BY DEF Remembers
        <4>2. 1 \in 1 .. pool'.rate_history.len  BY <3>2, TimelineType
        <4>3. Timeline(pool')[1] = Chronicle(pool'.rate_history)[1]
          BY <3>2, <4>2, TimelineType
        <4> QED  BY <4>1, <4>3 DEF Starts
      <3>5. r \in Nat /\ last <= now  BY <2>1, RateHistoryCheckAssumption
      <3>6. EarnedYield(pool', Amount, last, now)
              = EarnedYield(pool, Amount, last, now)
        BY <2>1, <3>2, <3>3, <3>4, <3>5, EarnedStands
      <3> QED  BY <3>1, <3>6
    <2> QED  BY <2>2, <2>3, <2>4 DEF Next
  <1>2. Books /\ [Next]_vars => [Step]_vars  BY <1>1
  <1>3. Spec => [][Step]_vars  BY <1>2, RateHistoryInvariant, PTL DEF Spec
  <1> QED  BY <1>3 DEF ChangeIsNotRetroactive
=============================================================================
