------------------------- MODULE RateHistoryProofs -------------------------
(* Lemmas about the operators of RateHistory for rings of any size: what a *)
(* push does to the rates remembered, how the yield of a deposit is cut    *)
(* into segments, and that a change of the rate is not retroactive.        *)
EXTENDS RateHistory, SumProofs

(* What a deposit earns is a fold over the rates in the order of their     *)
(* times: the segments of EarnedYield, one entry after the other.          *)
Cut(amount, t, seg, entry) ==
    IF entry.changed_at > seg.start /\ entry.changed_at < t
    THEN [start  |-> entry.changed_at,
          rate   |-> entry.rate_bps,
          earned |-> seg.earned + CalculateAccruedYield(
                         amount, seg.rate, entry.changed_at - seg.start)]
    ELSE seg

Cuts(amount, t, base, s) ==
    FoldLeft(LAMBDA seg, entry : Cut(amount, t, seg, entry), base, s)

Current(p) == [changed_at |-> CurrentRateStart(p), rate_bps |-> p.rate_bps]

Timeline(p) == Append(Chronicle(p.rate_history), Current(p))

Opening(p, last) ==
    [start |-> last, rate |-> ResolveRateAt(p, last), earned |-> 0]

Closing(amount, t, seg) ==
    seg.earned + CalculateAccruedYield(amount, seg.rate, t - seg.start)

LEMMA EarnedYieldIs ==
    ASSUME NEW p, NEW amount, NEW last, NEW t
    PROVE  EarnedYield(p, amount, last, t) =
             Closing(amount, t, Cuts(amount, t, Opening(p, last), Timeline(p)))
  BY DEF EarnedYield, Closing, Cuts, Cut, Opening, Timeline, Current,
         FoldLeft, MapThenFoldSet

LEMMA MaxIs ==
    ASSUME NEW S, S \subseteq Int, NEW m \in S, \A y \in S : m >= y
    PROVE  Max(S) = m
  <1>1. \A x \in S : (\A y \in S : x >= y) => x = m  OBVIOUS
  <1> QED  BY <1>1 DEF Max

LEMMA MaxIn ==
    ASSUME NEW n \in Nat, NEW S, S \subseteq 1 .. n, S # {}
    PROVE  Max(S) \in S /\ \A y \in S : Max(S) >= y
  <1> DEFINE R == OpToRel(<, Nat)
             T == {k \in Nat : n - k \in S}
  <1>1. IsWellFoundedOn(R, Nat)  BY NatLessThanWellFounded
  <1>2. \A x, y \in Nat : x < y => <<x, y>> \in R
    BY DEF OpToRel
  <1> HIDE DEF R
  <1>3. PICK z \in S : TRUE  OBVIOUS
  <1>4. n - z \in T  BY <1>3
  <1>5. T \subseteq Nat /\ T # {}  BY <1>4
  <1> HIDE DEF T
  <1>6. PICK k \in T : \A y \in T : ~(<<y, k>> \in R)
    BY <1>1, <1>5, WFMin
  <1>7. k \in Nat /\ n - k \in S  BY <1>6 DEF T
  <1>8. ASSUME NEW y \in S PROVE n - k >= y
    <2>1. y \in Nat /\ n - y \in Nat /\ n - (n - y) = y  OBVIOUS
    <2>2. n - y \in T  BY <2>1 DEF T
    <2>3. ~(n - y < k)  BY <1>2, <1>6, <1>7, <2>1, <2>2
    <2> QED  BY <1>7, <2>1, <2>3
  <1>9. \E m \in S : \A y \in S : m >= y  BY <1>7, <1>8
  <1> QED  BY <1>9 DEF Max

NextCut(amount, t, base, s, g, S) ==
    IF S = {} THEN base
    ELSE Cut(amount, t, g[S \ {Max(S)}], s[Max(S)])

IsFold(amount, t, base, s, g) ==
    g = [S \in SUBSET DOMAIN s |-> NextCut(amount, t, base, s, g, S)]

LEMMA FoldExists ==
    ASSUME NEW amount, NEW t, NEW base, NEW s, NEW n \in Nat,
           DOMAIN s = 1 .. n
    PROVE  \E g : IsFold(amount, t, base, s, g)
  <1> DEFINE Step(g, S) == NextCut(amount, t, base, s, g, S)
             Good(k, g) == \A S \in SUBSET (1 .. k) : g[S] = Step(g, S)
             T == {k \in Nat : k <= n => \E g : Good(k, g)}
  <1>1. 0 \in T
    <2> DEFINE g == [S \in SUBSET (1 .. 0) |-> base]
    <2>1. Good(0, g)  BY DEF NextCut
    <2> QED  BY <2>1
  <1>2. ASSUME NEW k \in T PROVE k + 1 \in T
    <2> SUFFICES ASSUME k + 1 <= n PROVE \E g : Good(k + 1, g)
      OBVIOUS
    <2>a. k <= n  OBVIOUS
    <2>b. k <= n => \E g : Good(k, g)  OBVIOUS
    <2> HIDE DEF Good
    <2>1. PICK g : Good(k, g)  BY <2>a, <2>b
    <2> USE DEF Good
    <2> DEFINE m == k + 1
               h == [S \in SUBSET (1 .. m) |->
                        IF m \in S THEN Cut(amount, t, g[S \ {m}], s[m])
                                   ELSE g[S]]
    <2>2. ASSUME NEW S \in SUBSET (1 .. m) PROVE h[S] = Step(h, S)
      <3>1. CASE m \in S
        <4>1. Max(S) = m
          <5>1. S \subseteq Int /\ \A y \in S : m >= y  OBVIOUS
          <5> QED  BY <3>1, <5>1, MaxIs
        <4>2. S \ {m} \in SUBSET (1 .. m) /\ m \notin S \ {m}  OBVIOUS
        <4>3. h[S \ {m}] = g[S \ {m}]  BY <4>2
        <4>4. h[S] = Cut(amount, t, g[S \ {m}], s[m])  BY <3>1
        <4> QED  BY <3>1, <4>1, <4>3, <4>4 DEF NextCut
      <3>2. CASE m \notin S
        <4>1. S \in SUBSET (1 .. k)  BY <3>2
        <4>2. h[S] = g[S] /\ g[S] = Step(g, S)  BY <2>1, <3>2, <4>1
        <4>3. CASE S = {}  BY <4>2, <4>3 DEF NextCut
        <4>4. CASE S # {}
          <5>1. S \ {Max(S)} \in SUBSET (1 .. m) /\ m \notin S \ {Max(S)}
            BY <3>2
          <5>2. h[S \ {Max(S)}] = g[S \ {Max(S)}]  BY <5>1
          <5> QED  BY <4>2, <4>4, <5>2 DEF NextCut
        <4> QED  BY <4>3, <4>4
      <3> QED  BY <3>1, <3>2
    <2> HIDE DEF h
    <2>3. Good(k + 1, h)  BY <2>2
    <2> QED  BY <2>3
  <1>3. n \in T
    <2>1. T \subseteq Nat  OBVIOUS
    <2> HIDE DEF T
    <2>2. \A k \in Nat : k \in T  BY <1>1, <1>2, <2>1, Induction
    <2> QED  BY <2>2
  <1>4. PICK g : Good(n, g)  BY <1>3
  <1> DEFINE h == [S \in SUBSET (1 .. n) |-> g[S]]
  <1>5. ASSUME NEW S \in SUBSET (1 .. n) PROVE h[S] = Step(h, S)
    <2>1. h[S] = Step(g, S)  BY <1>4
    <2>2. S \ {Max(S)} \in SUBSET (1 .. n)  OBVIOUS
    <2>3. h[S \ {Max(S)}] = g[S \ {Max(S)}]  BY <2>2
    <2> QED  BY <2>1, <2>3 DEF NextCut
  <1>6. h = [S \in SUBSET (1 .. n) |-> Step(h, S)]
    <2>1. h = [S \in SUBSET (1 .. n) |-> h[S]]  OBVIOUS
    <2> HIDE DEF h, Step
    <2> QED  BY <1>5, <2>1
  <1> QED  BY <1>6 DEF IsFold

(* The fold goes through the entries one by one.                           *)
IsCuts(a, t, base, s, n, v) ==
    /\ v[0] = base
    /\ \A k \in 1 .. n : v[k] = Cut(a, t, v[k - 1], s[k])

LEMMA CutsAre ==
    ASSUME NEW amount, NEW t, NEW base, NEW s, NEW n \in Nat,
           DOMAIN s = 1 .. n
    PROVE  \E v : /\ IsCuts(amount, t, base, s, n, v)
                  /\ Cuts(amount, t, base, s) = v[n]
  <1> DEFINE g == CHOOSE h : IsFold(amount, t, base, s, h)
             v == [k \in 0 .. n |-> g[1 .. k]]
  <1>1. IsFold(amount, t, base, s, g)  BY FoldExists
  <1>2. Cuts(amount, t, base, s) = g[1 .. n]
    BY DEF Cuts, FoldLeft, MapThenFoldSet, IsFold, NextCut
  <1> HIDE DEF g
  <1>3. v[0] = base
    <2>1. 1 .. 0 = {} /\ {} \in SUBSET DOMAIN s  OBVIOUS
    <2>2. g[{}] = base  BY <1>1, <2>1 DEF IsFold, NextCut
    <2> QED  BY <2>1, <2>2
  <1>4. ASSUME NEW k \in 1 .. n
        PROVE  v[k] = Cut(amount, t, v[k - 1], s[k])
    <2> DEFINE S == 1 .. k
    <2>1. S \in SUBSET DOMAIN s /\ S # {} /\ k \in S
      <3>1. k \in S /\ S \subseteq 1 .. n  OBVIOUS
      <3> HIDE DEF S
      <3> QED  BY <3>1
    <2>2. Max(S) = k
      <3>1. S \subseteq Int /\ \A y \in S : k >= y  OBVIOUS
      <3> QED  BY <2>1, <3>1, MaxIs
    <2>3. S \ {k} = 1 .. (k - 1)  OBVIOUS
    <2>4. v[k - 1] = g[1 .. (k - 1)] /\ v[k] = g[S]  OBVIOUS
    <2> HIDE DEF S, v
    <2>5. g[S] = Cut(amount, t, g[S \ {k}], s[k])
      BY <1>1, <2>1, <2>2 DEF IsFold, NextCut
    <2> QED  BY <2>3, <2>4, <2>5
  <1>5. v[n] = g[1 .. n]  OBVIOUS
  <1> HIDE DEF v
  <1>6. IsCuts(amount, t, base, s, n, v)  BY <1>3, <1>4 DEF IsCuts
  <1> QED  BY <1>2, <1>5, <1>6

(* Types: a segment starts in the window and everything in it is a number. *)
Segment == [start : Nat, rate : Nat, earned : Nat]

LEMMA AccruedIsNat ==
    ASSUME NEW a \in Nat, NEW r \in Nat, NEW n \in Nat
    PROVE  CalculateAccruedYield(a, r, n) \in Nat
  <1>1. a * r * n \in Nat  OBVIOUS
  <1>2. YieldDenom \in Nat \ {0}  BY RateHistoryAssumption
  <1> QED  BY <1>1, <1>2 DEF CalculateAccruedYield

LEMMA NothingAccruedAtOnce ==
    ASSUME NEW a \in Nat, NEW r \in Nat
    PROVE  CalculateAccruedYield(a, r, 0) = 0
  <1>1. a * r * 0 = 0  OBVIOUS
  <1>2. YieldDenom \in Nat \ {0}  BY RateHistoryAssumption
  <1>3. 0 \div YieldDenom = 0  BY <1>2
  <1> QED  BY <1>1, <1>3 DEF CalculateAccruedYield

LEMMA CutType ==
    ASSUME NEW a \in Nat, NEW t \in Nat, NEW seg \in Segment, seg.start <= t,
           NEW entry \in RateHistoryEntry
    PROVE  /\ Cut(a, t, seg, entry) \in Segment
           /\ Cut(a, t, seg, entry).start <= t
  <1>1. CASE entry.changed_at > seg.start /\ entry.changed_at < t
    <2> DEFINE more == CalculateAccruedYield(a, seg.rate,
                                             entry.changed_at - seg.start)
               sum == seg.earned + more
    <2>1. /\ entry.changed_at \in Nat /\ entry.rate_bps \in Nat
          /\ seg.start \in Nat /\ seg.rate \in Nat /\ seg.earned \in Nat
      BY DEF Segment, RateHistoryEntry
    <2>2. entry.changed_at - seg.start \in Nat  BY <1>1, <2>1
    <2>3. more \in Nat  BY <2>1, <2>2, AccruedIsNat
    <2>4. sum \in Nat  BY <2>1, <2>3
    <2>5. Cut(a, t, seg, entry) = [start |-> entry.changed_at,
                                   rate |-> entry.rate_bps, earned |-> sum]
      BY <1>1 DEF Cut
    <2> HIDE DEF sum
    <2> QED  BY <1>1, <2>1, <2>4, <2>5 DEF Segment
  <1>2. CASE ~(entry.changed_at > seg.start /\ entry.changed_at < t)
    BY <1>2 DEF Cut
  <1> QED  BY <1>1, <1>2

LEMMA ChronicleType ==
    ASSUME NEW ring \in RingType
    PROVE  /\ ring.len \in 0 .. HistSize
           /\ DOMAIN Chronicle(ring) = 1 .. ring.len
           /\ Len(Chronicle(ring)) = ring.len
           /\ \A i \in 1 .. ring.len : Chronicle(ring)[i] \in RateHistoryEntry
           /\ Chronicle(ring) \in Seq(RateHistoryEntry)
  <1>1. HistSize \in Nat \ {0}  BY RateHistoryAssumption
  <1>2. /\ ring.len \in 0 .. HistSize /\ ring.head \in 0 .. HistSize - 1
        /\ ring.slot \in [0 .. HistSize - 1 -> RateHistoryEntry]
    BY DEF RingType
  <1>3. ASSUME NEW i \in 1 .. ring.len
        PROVE  RateHistoryEntryAt(ring, i - 1) \in RateHistoryEntry
    <2> DEFINE oldest == IF ring.len = HistSize THEN ring.head ELSE 0
    <2>1. oldest + (i - 1) \in Nat  BY <1>1, <1>2
    <2>2. (oldest + (i - 1)) % HistSize \in 0 .. HistSize - 1
      BY <1>1, <2>1
    <2> QED  BY <1>2, <2>2 DEF RateHistoryEntryAt
  <1>4. Chronicle(ring) \in [1 .. ring.len -> RateHistoryEntry]
    BY <1>3 DEF Chronicle
  <1>5. ring.len \in Nat  BY <1>1, <1>2
  <1> HIDE DEF RateHistoryEntry
  <1>6. Chronicle(ring) \in Seq(RateHistoryEntry)
    BY <1>4, <1>5, SMT
  <1>7. Len(Chronicle(ring)) = ring.len  BY <1>4, <1>5, <1>6
  <1> QED  BY <1>2, <1>4, <1>6, <1>7

(* What the operators of RateHistory read of a pool has its types.         *)
RatesTyped(p) ==
    /\ p.created_at \in Nat
    /\ p.rate_bps \in Nat
    /\ p.rate_updated_at \in Nat
    /\ p.rate_history \in RingType

LEMMA TimelineType ==
    ASSUME NEW p, RatesTyped(p)
    PROVE  LET n == p.rate_history.len
           IN  /\ n \in Nat /\ n <= HistSize
               /\ CurrentRateStart(p) \in Nat
               /\ Current(p) \in RateHistoryEntry
               /\ DOMAIN Timeline(p) = 1 .. n + 1
               /\ \A i \in 1 .. n :
                     Timeline(p)[i] = Chronicle(p.rate_history)[i]
               /\ Timeline(p)[n + 1] = Current(p)
               /\ \A i \in 1 .. n + 1 : Timeline(p)[i] \in RateHistoryEntry
  <1> DEFINE n == p.rate_history.len
             c == Chronicle(p.rate_history)
  <1>1. p.rate_history \in RingType /\ p.rate_bps \in Nat
        /\ p.created_at \in Nat /\ p.rate_updated_at \in Nat
    BY DEF RatesTyped
  <1>2. n \in Nat /\ n <= HistSize
    BY <1>1, ChronicleType, RateHistoryAssumption
  <1>3. CurrentRateStart(p) \in Nat  BY <1>1 DEF CurrentRateStart
  <1>4. Current(p) \in RateHistoryEntry
    BY <1>1, <1>3 DEF Current, RateHistoryEntry
  <1>5. c \in Seq(RateHistoryEntry) /\ Len(c) = n
    BY <1>1, ChronicleType
  <1> HIDE DEF c, RateHistoryEntry
  <1>6. /\ DOMAIN Append(c, Current(p)) = 1 .. n + 1
        /\ \A i \in 1 .. n : Append(c, Current(p))[i] = c[i]
        /\ Append(c, Current(p))[n + 1] = Current(p)
        /\ \A i \in 1 .. n : c[i] \in RateHistoryEntry
    BY <1>2, <1>4, <1>5
  <1>7. \A i \in 1 .. n + 1 : i \in 1 .. n \/ i = n + 1  BY <1>2
  <1> QED  BY <1>2, <1>3, <1>4, <1>6, <1>7 DEF Timeline, c

LEMMA ResolvedIsNat ==
    ASSUME NEW p, RatesTyped(p), NEW t \in Nat
    PROVE  ResolveRateAt(p, t) \in Nat
  <1> DEFINE past == Chronicle(p.rate_history)
             n == p.rate_history.len
             S == {i \in 1 .. Len(past) :
                      \A j \in 1 .. i : past[j].changed_at <= t} \cup {1}
  <1>1. p.rate_history \in RingType /\ p.rate_bps \in Nat
    BY DEF RatesTyped
  <1>2. /\ n \in Nat /\ Len(past) = n /\ past \in Seq(RateHistoryEntry)
        /\ \A i \in 1 .. n : past[i] \in RateHistoryEntry
    BY <1>1, ChronicleType, RateHistoryAssumption
  <1> HIDE DEF past, n
  <1>3. CASE t >= CurrentRateStart(p) \/ past = <<>>
    BY <1>1, <1>3 DEF ResolveRateAt, past
  <1>4. CASE ~(t >= CurrentRateStart(p) \/ past = <<>>)
    <2>1. n >= 1  BY <1>2, <1>4
    <2>2. S \subseteq 1 .. n /\ S # {}  BY <1>2, <2>1
    <2>3. ResolveRateAt(p, t) = past[Max(S)].rate_bps
      BY <1>4 DEF ResolveRateAt, past
    <2> HIDE DEF S
    <2>4. Max(S) \in 1 .. n  BY <1>2, <2>2, MaxIn
    <2>5. past[Max(S)] \in RateHistoryEntry  BY <1>2, <2>4
    <2> QED  BY <2>3, <2>5 DEF RateHistoryEntry
  <1> QED  BY <1>3, <1>4

LEMMA OpeningType ==
    ASSUME NEW p, RatesTyped(p), NEW last \in Nat
    PROVE  Opening(p, last) \in Segment
  BY ResolvedIsNat DEF Opening, Segment

LEMMA EarnedIsNat ==
    ASSUME NEW p, RatesTyped(p), NEW a \in Nat, NEW t \in Nat,
           NEW last \in Nat, last <= t
    PROVE  EarnedYield(p, a, last, t) \in Nat
  <1> DEFINE n == p.rate_history.len + 1
             s == Timeline(p)
             base == Opening(p, last)
  <1>1. /\ n \in Nat /\ DOMAIN s = 1 .. n
        /\ \A i \in 1 .. n : s[i] \in RateHistoryEntry
    BY TimelineType
  <1>2. base \in Segment /\ base.start <= t  BY OpeningType DEF Opening
  <1> HIDE DEF n, s, base
  <1>0. PICK v : IsCuts(a, t, base, s, n, v) /\ Cuts(a, t, base, s) = v[n]
    BY <1>1, CutsAre
  <1>3. /\ v[0] = base
        /\ \A k \in 1 .. n : v[k] = Cut(a, t, v[k - 1], s[k])
        /\ Cuts(a, t, base, s) = v[n]
    BY <1>0 DEF IsCuts
  <1> DEFINE T == {k \in Nat : k <= n => v[k] \in Segment /\ v[k].start <= t}
  <1>4. T \subseteq Nat /\ 0 \in T  BY <1>2, <1>3
  <1>5. ASSUME NEW k \in T PROVE k + 1 \in T
    <2> SUFFICES ASSUME k + 1 <= n
                 PROVE  v[k + 1] \in Segment /\ v[k + 1].start <= t
      OBVIOUS
    <2>1. k \in Nat /\ k + 1 \in 1 .. n /\ (k + 1) - 1 = k  BY <1>1
    <2>2. v[k] \in Segment /\ v[k].start <= t  BY <1>1, <2>1
    <2>3. v[k + 1] = Cut(a, t, v[k], s[k + 1])  BY <1>3, <2>1
    <2>4. s[k + 1] \in RateHistoryEntry  BY <1>1, <2>1
    <2> QED  BY <2>2, <2>3, <2>4, CutType
  <1> HIDE DEF T
  <1>6. \A k \in Nat : k \in T  BY <1>4, <1>5, Induction
  <1>7. v[n] \in Segment /\ v[n].start <= t  BY <1>1, <1>6 DEF T
  <1>8. /\ v[n].start \in Nat /\ v[n].rate \in Nat /\ v[n].earned \in Nat
        /\ t - v[n].start \in Nat
    BY <1>7 DEF Segment
  <1>9. EarnedYield(p, a, last, t) = Closing(a, t, v[n])
    BY <1>3, EarnedYieldIs DEF base, s
  <1>10. CalculateAccruedYield(a, v[n].rate, t - v[n].start) \in Nat
    BY <1>8, AccruedIsNat
  <1> QED  BY <1>8, <1>9, <1>10 DEF Closing

(* No time, no yield.                                                      *)
LEMMA NothingEarnedAtOnce ==
    ASSUME NEW p, RatesTyped(p), NEW a \in Nat, NEW t \in Nat
    PROVE  EarnedYield(p, a, t, t) = 0
  <1> DEFINE n == p.rate_history.len + 1
             s == Timeline(p)
             base == Opening(p, t)
  <1>1. /\ n \in Nat /\ DOMAIN s = 1 .. n
        /\ \A i \in 1 .. n : s[i] \in RateHistoryEntry
    BY TimelineType
  <1>2. base.start = t /\ base.rate \in Nat /\ base.earned = 0
    BY ResolvedIsNat DEF Opening
  <1> HIDE DEF n, s, base
  <1>0. PICK v : IsCuts(a, t, base, s, n, v) /\ Cuts(a, t, base, s) = v[n]
    BY <1>1, CutsAre
  <1>3. /\ v[0] = base
        /\ \A k \in 1 .. n : v[k] = Cut(a, t, v[k - 1], s[k])
        /\ Cuts(a, t, base, s) = v[n]
    BY <1>0 DEF IsCuts
  <1> DEFINE T == {k \in Nat : k <= n => v[k] = base}
  <1>4. T \subseteq Nat /\ 0 \in T  BY <1>3
  <1>5. ASSUME NEW k \in T PROVE k + 1 \in T
    <2> SUFFICES ASSUME k + 1 <= n PROVE v[k + 1] = base
      OBVIOUS
    <2>1. k \in Nat /\ k + 1 \in 1 .. n /\ (k + 1) - 1 = k  BY <1>1
    <2>2. v[k] = base  BY <1>1, <2>1
    <2>3. v[k + 1] = Cut(a, t, base, s[k + 1])  BY <1>3, <2>1, <2>2
    <2>4. s[k + 1].changed_at \in Nat  BY <1>1, <2>1 DEF RateHistoryEntry
    <2> QED  BY <1>2, <2>3, <2>4 DEF Cut
  <1> HIDE DEF T
  <1>6. \A k \in Nat : k \in T  BY <1>4, <1>5, Induction
  <1>7. v[n] = base  BY <1>1, <1>6 DEF T
  <1>8. EarnedYield(p, a, t, t) = Closing(a, t, base)
    BY <1>3, <1>7, EarnedYieldIs DEF base, s
  <1>9. t - t = 0  OBVIOUS
  <1> QED
    BY <1>2, <1>8, <1>9, NothingAccruedAtOnce DEF Closing

-----------------------------------------------------------------------------
(* A push on the ring.  Until the ring is full the next slot is the one    *)
(* after the last entry.                                                   *)
RingFills(ring) == ring.len < HistSize => ring.head = ring.len

LEMMA PushedRingType ==
    ASSUME NEW ring \in RingType, NEW entry \in RateHistoryEntry
    PROVE  PushRateHistory(ring, entry) \in RingType
  BY RateHistoryAssumption DEF PushRateHistory, RingType

LEMMA ModOnce ==
    ASSUME NEW h \in Nat \ {0}, NEW x \in 0 .. 2 * h - 1
    PROVE  x % h = IF x < h THEN x ELSE x - h
  <1> DEFINE q == x \div h
             r == x % h
  <1>1. q \in Nat /\ r \in 0 .. (h - 1) /\ x = h * q + r  OBVIOUS
  <1> HIDE DEF q, r
  <1>2. CASE q = 0
    <2>1. h * q = 0  BY <1>2
    <2>2. x = r  BY <1>1, <2>1
    <2> QED  BY <1>1, <2>2 DEF r
  <1>3. CASE q = 1
    <2>1. h * q = h  BY <1>3
    <2>2. x = h + r  BY <1>1, <2>1
    <2>3. ~(x < h) /\ r = x - h  BY <1>1, <2>2
    <2> QED  BY <2>3 DEF r
  <1>4. CASE q >= 2
    <2>1. h * q = 2 * h + h * (q - 2) /\ h * (q - 2) >= 0  BY <1>1, <1>4
    <2> QED  BY <1>1, <2>1
  <1> QED  BY <1>1, <1>2, <1>3, <1>4

LEMMA PushedNotFull ==
    ASSUME NEW ring \in RingType, RingFills(ring), ring.len < HistSize,
           NEW entry \in RateHistoryEntry
    PROVE  LET new == PushRateHistory(ring, entry)
           IN  /\ new.len = ring.len + 1
               /\ RingFills(new)
               /\ \A i \in 1 .. ring.len :
                     Chronicle(new)[i] = Chronicle(ring)[i]
               /\ Chronicle(new)[ring.len + 1] = entry
  <1> DEFINE new == PushRateHistory(ring, entry)
             h == HistSize
             n == ring.len
  <1>1. h \in Nat \ {0}  BY RateHistoryAssumption
  <1>2. /\ n \in Nat /\ n < h /\ ring.head = n
        /\ ring.slot \in [0 .. h - 1 -> RateHistoryEntry]
    BY <1>1 DEF RingType, RingFills
  <1>3. /\ new.len = n + 1
        /\ new.head = (n + 1) % h
        /\ new.slot = [ring.slot EXCEPT ![n] = entry]
    BY <1>2 DEF PushRateHistory
  <1>4. (n + 1) % h = IF n + 1 < h THEN n + 1 ELSE 0
    <2>1. n + 1 \in 0 .. 2 * h - 1 /\ (~(n + 1 < h) => (n + 1) - h = 0)
      BY <1>1, <1>2
    <2> QED  BY <1>1, <2>1, ModOnce
  <1>5. RingFills(new)  BY <1>3, <1>4 DEF RingFills
  <1>6. ASSUME NEW i \in 1 .. n + 1
        PROVE  Chronicle(new)[i] = new.slot[i - 1]
    <2>1. (0 + (i - 1)) % h = i - 1
      <3>1. i - 1 \in 0 .. 2 * h - 1 /\ i - 1 < h /\ 0 + (i - 1) = i - 1
        BY <1>1, <1>2
      <3> QED  BY <1>1, <3>1, ModOnce
    <2>2. (IF new.len = h THEN new.head ELSE 0) = 0
      BY <1>1, <1>2, <1>3, <1>4
    <2> QED  BY <1>3, <2>1, <2>2 DEF Chronicle, RateHistoryEntryAt
  <1>7. ASSUME NEW i \in 1 .. n
        PROVE  Chronicle(ring)[i] = ring.slot[i - 1]
    <2>1. (0 + (i - 1)) % h = i - 1
      <3>1. i - 1 \in 0 .. 2 * h - 1 /\ i - 1 < h /\ 0 + (i - 1) = i - 1
        BY <1>1, <1>2
      <3> QED  BY <1>1, <3>1, ModOnce
    <2>2. (IF ring.len = h THEN ring.head ELSE 0) = 0
      BY <1>1, <1>2
    <2> QED  BY <2>1, <2>2 DEF Chronicle, RateHistoryEntryAt
  <1> HIDE DEF new
  <1>8. ASSUME NEW i \in 1 .. n
        PROVE  Chronicle(new)[i] = Chronicle(ring)[i]
    <2>1. i \in 1 .. n + 1 /\ i - 1 # n /\ i - 1 \in 0 .. h - 1
      BY <1>1, <1>2
    <2>2. new.slot[i - 1] = ring.slot[i - 1]  BY <1>2, <1>3, <2>1
    <2> QED  BY <1>6, <1>7, <2>1, <2>2
  <1>9. Chronicle(new)[n + 1] = entry
    <2>1. n + 1 \in 1 .. n + 1 /\ (n + 1) - 1 = n /\ n \in 0 .. h - 1
      BY <1>1, <1>2
    <2>2. new.slot[n] = entry  BY <1>2, <1>3, <2>1
    <2> QED  BY <1>6, <2>1, <2>2
  <1> QED  BY <1>3, <1>5, <1>8, <1>9 DEF new

(* The oldest entry of a full ring goes.                                   *)
LEMMA PushedFull ==
    ASSUME NEW ring \in RingType, ring.len = HistSize,
           NEW entry \in RateHistoryEntry
    PROVE  LET new == PushRateHistory(ring, entry)
           IN  /\ new.len = HistSize
               /\ \A i \in 1 .. HistSize - 1 :
                     Chronicle(new)[i] = Chronicle(ring)[i + 1]
               /\ Chronicle(new)[HistSize] = entry
  <1> DEFINE new == PushRateHistory(ring, entry)
             h == HistSize
             m == ring.head
             At(k) == IF k < h THEN k ELSE k - h
  <1>1. h \in Nat \ {0}  BY RateHistoryAssumption
  <1>2. /\ m \in 0 .. h - 1
        /\ ring.slot \in [0 .. h - 1 -> RateHistoryEntry]
    BY <1>1 DEF RingType
  <1>3. /\ new.len = h
        /\ new.head = (m + 1) % h
        /\ new.slot = [ring.slot EXCEPT ![m] = entry]
    BY <1>1 DEF PushRateHistory
  <1>4. (m + 1) % h = At(m + 1)
    <2>1. m + 1 \in 0 .. 2 * h - 1  BY <1>1, <1>2
    <2> QED  BY <1>1, <2>1, ModOnce
  <1>5. ASSUME NEW i \in 1 .. h
        PROVE  Chronicle(new)[i] = new.slot[At(m + i)]
    <2> DEFINE x == At(m + 1) + (i - 1)
    <2>0. m \in Int /\ h \in Int /\ i \in Int /\ 0 <= m /\ m <= h - 1
            /\ 1 <= i /\ i <= h
      BY <1>1, <1>2
    <2>1. x \in 0 .. 2 * h - 1 /\ (IF x < h THEN x ELSE x - h) = At(m + i)
      <3>1. CASE m + 1 < h  BY <2>0, <3>1
      <3>2. CASE m + 1 >= h  BY <2>0, <3>2
      <3> QED  BY <2>0, <3>1, <3>2
    <2>2. x % h = At(m + i)  BY <1>1, <2>1, ModOnce
    <2> QED
      BY <1>3, <1>4, <2>2 DEF Chronicle, RateHistoryEntryAt
  <1>6. ASSUME NEW i \in 1 .. h
        PROVE  Chronicle(ring)[i] = ring.slot[At(m + (i - 1))]
    <2> DEFINE x == m + (i - 1)
    <2>1. x \in 0 .. 2 * h - 1  BY <1>1, <1>2
    <2>2. x % h = At(x)  BY <1>1, <2>1, ModOnce
    <2> QED  BY <2>2 DEF Chronicle, RateHistoryEntryAt
  <1> HIDE DEF new
  <1>7. ASSUME NEW i \in 1 .. h - 1
        PROVE  Chronicle(new)[i] = Chronicle(ring)[i + 1]
    <2>1. /\ i \in 1 .. h /\ i + 1 \in 1 .. h /\ (i + 1) - 1 = i
          /\ At(m + i) \in 0 .. h - 1 /\ At(m + i) # m
      BY <1>1, <1>2
    <2> HIDE DEF At
    <2>2. new.slot[At(m + i)] = ring.slot[At(m + i)]  BY <1>2, <1>3, <2>1
    <2>3. Chronicle(new)[i] = new.slot[At(m + i)]  BY <1>5, <2>1
    <2>4. Chronicle(ring)[i + 1] = ring.slot[At(m + i)]  BY <1>6, <2>1
    <2> QED  BY <2>2, <2>3, <2>4
  <1>8. Chronicle(new)[h] = entry
    <2>1. h \in 1 .. h /\ At(m + h) = m  BY <1>1, <1>2
    <2> HIDE DEF At
    <2>2. new.slot[m] = entry  BY <1>2, <1>3
    <2> QED  BY <1>5, <2>1, <2>2
  <1> QED  BY <1>3, <1>7, <1>8 DEF new

-----------------------------------------------------------------------------
(* A rate change moves the past of the current rate to the ring and        *)
(* changes nothing before the present.                                     *)
SameRates(q, p) ==
    /\ q.created_at = p.created_at
    /\ q.rate_bps = p.rate_bps
    /\ q.rate_updated_at = p.rate_updated_at
    /\ q.rate_history = p.rate_history

NewRate(q, p, rate, t) ==
    /\ q.created_at = p.created_at
    /\ q.rate_bps = rate
    /\ q.rate_updated_at = t
    /\ q.rate_history = PushRateHistory(p.rate_history, Current(p))

InOrder(s) ==
    \A i, j \in DOMAIN s : i <= j => s[i].changed_at <= s[j].changed_at

(* The books of rates: the ring fills up from its first slot, its entries  *)
(* are in the order of their times, and no rate starts in the future.      *)
RatesInOrder(p, t) ==
    /\ RingFills(p.rate_history)
    /\ InOrder(Timeline(p))
    /\ CurrentRateStart(p) <= t

LEMMA SameRatesEarn ==
    ASSUME NEW p, NEW q, SameRates(q, p), NEW a, NEW last, NEW t
    PROVE  EarnedYield(q, a, last, t) = EarnedYield(p, a, last, t)
  <1>1. CurrentRateStart(q) = CurrentRateStart(p)
    BY DEF SameRates, CurrentRateStart
  <1>2. Timeline(q) = Timeline(p)
    BY <1>1 DEF SameRates, Timeline, Current
  <1>3. ResolveRateAt(q, last) = ResolveRateAt(p, last)
    BY <1>1 DEF SameRates, ResolveRateAt
  <1>4. Opening(q, last) = Opening(p, last)  BY <1>3 DEF Opening
  <1> QED  BY <1>2, <1>4, EarnedYieldIs

(* The timeline of the pool after a change, whether the ring had room ...  *)
LEMMA TimelineGrows ==
    ASSUME NEW p, RatesTyped(p), NEW q, RatesTyped(q), NEW rate,
           NEW t \in Nat,
           NewRate(q, p, rate, t), RingFills(p.rate_history), t >= 1,
           p.rate_history.len < HistSize
    PROVE  LET n == p.rate_history.len
           IN  /\ q.rate_history.len = n + 1
               /\ RingFills(q.rate_history)
               /\ CurrentRateStart(q) = t
               /\ \A k \in 1 .. n + 1 : Timeline(q)[k] = Timeline(p)[k]
               /\ \A k \in 1 .. n + 1 :
                     Chronicle(q.rate_history)[k] = Timeline(p)[k]
               /\ Timeline(q)[n + 2].changed_at = t
  <1> DEFINE n == p.rate_history.len
             new == q.rate_history
  <1>1. p.rate_history \in RingType /\ Current(p) \in RateHistoryEntry
    BY TimelineType DEF RatesTyped
  <1>2. new = PushRateHistory(p.rate_history, Current(p))  BY DEF NewRate
  <1>3. /\ new.len = n + 1
        /\ RingFills(new)
        /\ \A i \in 1 .. n : Chronicle(new)[i] = Chronicle(p.rate_history)[i]
        /\ Chronicle(new)[n + 1] = Current(p)
    BY <1>1, <1>2, PushedNotFull
  <1>4. /\ n \in Nat
        /\ \A i \in 1 .. n : Timeline(p)[i] = Chronicle(p.rate_history)[i]
        /\ Timeline(p)[n + 1] = Current(p)
    BY TimelineType
  <1>5. /\ \A i \in 1 .. n + 1 : Timeline(q)[i] = Chronicle(new)[i]
        /\ Timeline(q)[(n + 1) + 1] = Current(q)
    BY <1>3, TimelineType
  <1>6. CurrentRateStart(q) = t  BY DEF NewRate, CurrentRateStart
  <1>7. Current(q).changed_at = t
    BY <1>6 DEF Current
  <1> HIDE DEF n, new
  <1>8. \A i \in 1 .. n + 1 : i \in 1 .. n \/ i = n + 1  BY <1>4
  <1>9. (n + 1) + 1 = n + 2  BY <1>4
  <1>10. \A k \in 1 .. n + 1 : Chronicle(new)[k] = Timeline(p)[k]
    BY <1>3, <1>4, <1>8
  <1> QED  BY <1>3, <1>5, <1>6, <1>7, <1>9, <1>10 DEF n, new

(* ... or was full, and lost its oldest entry.                             *)
LEMMA TimelineShifts ==
    ASSUME NEW p, RatesTyped(p), NEW q, RatesTyped(q), NEW rate,
           NEW t \in Nat,
           NewRate(q, p, rate, t), t >= 1,
           p.rate_history.len = HistSize
    PROVE  LET n == HistSize
           IN  /\ q.rate_history.len = n
               /\ CurrentRateStart(q) = t
               /\ \A k \in 1 .. n : Timeline(q)[k] = Timeline(p)[k + 1]
               /\ \A k \in 1 .. n :
                     Chronicle(q.rate_history)[k] = Timeline(p)[k + 1]
               /\ Timeline(q)[n + 1].changed_at = t
  <1> DEFINE n == HistSize
             new == q.rate_history
  <1>1. p.rate_history \in RingType /\ Current(p) \in RateHistoryEntry
    BY TimelineType DEF RatesTyped
  <1>2. new = PushRateHistory(p.rate_history, Current(p))  BY DEF NewRate
  <1>3. /\ new.len = n
        /\ \A i \in 1 .. n - 1 :
              Chronicle(new)[i] = Chronicle(p.rate_history)[i + 1]
        /\ Chronicle(new)[n] = Current(p)
    BY <1>1, <1>2, PushedFull
  <1>4. /\ n \in Nat \ {0}
        /\ \A i \in 1 .. n : Timeline(p)[i] = Chronicle(p.rate_history)[i]
        /\ Timeline(p)[n + 1] = Current(p)
    BY TimelineType, RateHistoryAssumption
  <1>5. /\ \A i \in 1 .. n : Timeline(q)[i] = Chronicle(new)[i]
        /\ Timeline(q)[n + 1] = Current(q)
    BY <1>3, TimelineType
  <1>6. CurrentRateStart(q) = t  BY DEF NewRate, CurrentRateStart
  <1>7. Current(q).changed_at = t
    BY <1>6 DEF Current
  <1> HIDE DEF n, new
  <1>8. \A i \in 1 .. n : (i \in 1 .. n - 1 /\ i + 1 \in 1 .. n) \/ i = n
    BY <1>4
  <1>10. \A k \in 1 .. n : Chronicle(new)[k] = Timeline(p)[k + 1]
    BY <1>3, <1>4, <1>8
  <1> QED  BY <1>3, <1>5, <1>6, <1>7, <1>10 DEF n, new

LEMMA RatesStayInOrder ==
    ASSUME NEW p, RatesTyped(p), NEW q, RatesTyped(q), NEW rate \in Nat,
           NEW t \in Nat, NewRate(q, p, rate, t), RatesInOrder(p, t), t >= 1
    PROVE  RatesInOrder(q, t)
  <1> DEFINE n == p.rate_history.len
             m == q.rate_history.len
  <1>1. /\ n \in Nat /\ n <= HistSize /\ HistSize \in Nat \ {0}
        /\ CurrentRateStart(p) <= t /\ CurrentRateStart(p) \in Nat
        /\ Current(p).changed_at = CurrentRateStart(p)
        /\ DOMAIN Timeline(p) = 1 .. n + 1
        /\ Timeline(p)[n + 1] = Current(p)
        /\ \A i \in 1 .. n + 1 : Timeline(p)[i].changed_at \in Nat
    BY TimelineType, RateHistoryAssumption
       DEF RatesInOrder, Current, RateHistoryEntry
  <1>2. \A i, j \in 1 .. n + 1 :
           i <= j => Timeline(p)[i].changed_at <= Timeline(p)[j].changed_at
    BY <1>1 DEF RatesInOrder, InOrder
  <1>3. \A i \in 1 .. n + 1 : Timeline(p)[i].changed_at <= t
    <2> TAKE i \in 1 .. n + 1
    <2>1. n + 1 \in 1 .. n + 1 /\ i <= n + 1  BY <1>1
    <2>2. Timeline(p)[i].changed_at <= Timeline(p)[n + 1].changed_at
      BY <1>2, <2>1
    <2> QED  BY <1>1, <2>2
  <1>4. m \in Nat /\ DOMAIN Timeline(q) = 1 .. m + 1  BY TimelineType
  <1>5. CASE n < HistSize
    <2>1. /\ m = n + 1 /\ RingFills(q.rate_history) /\ CurrentRateStart(q) = t
          /\ \A k \in 1 .. n + 1 : Timeline(q)[k] = Timeline(p)[k]
          /\ Timeline(q)[n + 2].changed_at = t
      BY <1>5, TimelineGrows DEF RatesInOrder
    <2> HIDE DEF n, m
    <2>2. \A i \in 1 .. m + 1 : i \in 1 .. n + 1 \/ i = n + 2  BY <1>1, <2>1
    <2>3. ASSUME NEW i \in 1 .. m + 1, NEW j \in 1 .. m + 1, i <= j
          PROVE  Timeline(q)[i].changed_at <= Timeline(q)[j].changed_at
      <3>1. CASE j \in 1 .. n + 1
        <4>1. i \in 1 .. n + 1  BY <1>1, <2>3, <3>1
        <4> QED  BY <1>2, <2>1, <2>3, <3>1, <4>1
      <3>2. CASE j = n + 2
        <4>1. CASE i \in 1 .. n + 1  BY <1>3, <2>1, <3>2, <4>1
        <4>2. CASE i = n + 2  BY <2>1, <3>2, <4>2
        <4> QED  BY <2>2, <4>1, <4>2
      <3> QED  BY <2>2, <3>1, <3>2
    <2> QED  BY <1>4, <2>1, <2>3 DEF RatesInOrder, InOrder
  <1>6. CASE n = HistSize
    <2>1. /\ m = n /\ CurrentRateStart(q) = t
          /\ \A k \in 1 .. n : Timeline(q)[k] = Timeline(p)[k + 1]
          /\ Timeline(q)[n + 1].changed_at = t
      BY <1>6, TimelineShifts
    <2>2. RingFills(q.rate_history)  BY <1>1, <1>6, <2>1 DEF RingFills
    <2> HIDE DEF n, m
    <2>3. \A i \in 1 .. n + 1 :
             (i \in 1 .. n /\ i + 1 \in 1 .. n + 1) \/ i = n + 1
      BY <1>1
    <2>4. ASSUME NEW i \in 1 .. n + 1, NEW j \in 1 .. n + 1, i <= j
          PROVE  Timeline(q)[i].changed_at <= Timeline(q)[j].changed_at
      <3>1. CASE j \in 1 .. n
        <4>1. i \in 1 .. n /\ i + 1 <= j + 1  BY <1>1, <2>4, <3>1
        <4>2. i + 1 \in 1 .. n + 1 /\ j + 1 \in 1 .. n + 1  BY <1>1, <3>1, <4>1
        <4> QED  BY <1>2, <2>1, <3>1, <4>1, <4>2
      <3>2. CASE j = n + 1
        <4>1. CASE i \in 1 .. n  BY <1>3, <2>1, <2>3, <3>2, <4>1
        <4>2. CASE i = n + 1  BY <2>1, <3>2, <4>2
        <4> QED  BY <2>3, <4>1, <4>2
      <3> QED  BY <2>3, <3>1, <3>2
    <2> QED  BY <1>4, <2>1, <2>2, <2>4 DEF RatesInOrder, InOrder
  <1> QED  BY <1>1, <1>5, <1>6

-----------------------------------------------------------------------------
(* The rate found for a time is that of one entry of the ring, the last    *)
(* that had started by then.                                               *)
RateIndex(p, t, m) ==
    LET past == Chronicle(p.rate_history)
        n    == p.rate_history.len
    IN  /\ m \in 1 .. n
        /\ m = 1 \/ past[m].changed_at <= t
        /\ \A j \in 1 .. n : j > m => past[j].changed_at > t

LEMMA PastInOrder ==
    ASSUME NEW p, RatesTyped(p), InOrder(Timeline(p))
    PROVE  LET past == Chronicle(p.rate_history)
               n    == p.rate_history.len
           IN  /\ n \in Nat /\ Len(past) = n
               /\ n >= 1 => past # <<>>
               /\ n = 0 => past = <<>>
               /\ \A i \in 1 .. n : past[i].changed_at \in Nat
               /\ \A i, j \in 1 .. n :
                     i <= j => past[i].changed_at <= past[j].changed_at
  <1> DEFINE past == Chronicle(p.rate_history)
             n    == p.rate_history.len
  <1>1. /\ n \in Nat /\ Len(past) = n /\ past \in Seq(RateHistoryEntry)
        /\ \A i \in 1 .. n : past[i] \in RateHistoryEntry
    BY ChronicleType, TimelineType DEF RatesTyped
  <1>2. /\ DOMAIN Timeline(p) = 1 .. n + 1
        /\ \A i \in 1 .. n : Timeline(p)[i] = past[i]
    BY TimelineType
  <1>3. \A i \in 1 .. n : i \in 1 .. n + 1  BY <1>1
  <1> HIDE DEF past, n
  <1>4. \A i \in 1 .. n : past[i].changed_at \in Nat
    BY <1>1 DEF RateHistoryEntry
  <1>5. \A i, j \in 1 .. n :
           i <= j => past[i].changed_at <= past[j].changed_at
    BY <1>2, <1>3 DEF InOrder
  <1>6. (n >= 1 => past # <<>>) /\ (n = 0 => past = <<>>)  BY <1>1
  <1> QED  BY <1>1, <1>4, <1>5, <1>6 DEF past, n

LEMMA RateIndexExists ==
    ASSUME NEW p, RatesTyped(p), InOrder(Timeline(p)), NEW t \in Nat,
           p.rate_history.len >= 1
    PROVE  \E m \in 1 .. p.rate_history.len : RateIndex(p, t, m)
  <1> DEFINE past == Chronicle(p.rate_history)
             n    == p.rate_history.len
             S    == {i \in 1 .. n : past[i].changed_at <= t} \cup {1}
  <1>1. n \in Nat /\ \A i \in 1 .. n : past[i].changed_at \in Nat
    BY PastInOrder
  <1>2. n >= 1  OBVIOUS
  <1> HIDE DEF past, n
  <1>3. S \subseteq 1 .. n /\ S # {}  BY <1>1, <1>2
  <1> DEFINE m == Max(S)
  <1>4. m \in S /\ \A y \in S : m >= y  BY <1>1, <1>3, MaxIn
  <1> HIDE DEF m
  <1>5. m \in 1 .. n  BY <1>3, <1>4
  <1>6. m = 1 \/ past[m].changed_at <= t  BY <1>4
  <1>7. \A j \in 1 .. n : j > m => past[j].changed_at > t
    <2> SUFFICES ASSUME NEW j \in 1 .. n, j > m
                 PROVE  past[j].changed_at > t
      OBVIOUS
    <2>1. j \notin S  BY <1>1, <1>4, <1>5
    <2>2. ~(past[j].changed_at <= t)  BY <2>1
    <2> QED  BY <1>1, <2>2
  <1>8. RateIndex(p, t, m)  BY <1>5, <1>6, <1>7 DEF RateIndex, past, n
  <1> QED  BY <1>5, <1>8 DEF n

LEMMA ResolvedIs ==
    ASSUME NEW p, RatesTyped(p), InOrder(Timeline(p)), NEW t \in Nat,
           t < CurrentRateStart(p), NEW m, RateIndex(p, t, m)
    PROVE  ResolveRateAt(p, t) = Chronicle(p.rate_history)[m].rate_bps
  <1> DEFINE past == Chronicle(p.rate_history)
             n    == p.rate_history.len
             S    == {i \in 1 .. Len(past) :
                         \A j \in 1 .. i : past[j].changed_at <= t} \cup {1}
  <1>1. /\ n \in Nat /\ Len(past) = n
        /\ n >= 1 => past # <<>>
        /\ \A i \in 1 .. n : past[i].changed_at \in Nat
        /\ \A i, j \in 1 .. n :
              i <= j => past[i].changed_at <= past[j].changed_at
    BY PastInOrder
  <1>2. /\ m \in 1 .. n
        /\ m = 1 \/ past[m].changed_at <= t
        /\ \A j \in 1 .. n : j > m => past[j].changed_at > t
    BY DEF RateIndex
  <1>3. ~(t >= CurrentRateStart(p))  BY TimelineType
  <1>4. ResolveRateAt(p, t) = past[Max(S)].rate_bps
    <2>1. past # <<>>  BY <1>1, <1>2
    <2> HIDE DEF n
    <2> QED  BY <1>3, <2>1 DEF ResolveRateAt
  <1> HIDE DEF past, n
  <1>5. m \in S
    <2>1. CASE m = 1  BY <2>1
    <2>2. CASE past[m].changed_at <= t
      <3>1. \A j \in 1 .. m :
               j \in 1 .. n /\ past[j].changed_at <= past[m].changed_at
        BY <1>1, <1>2
      <3>2. \A j \in 1 .. m : past[j].changed_at <= t
        BY <1>1, <1>2, <2>2, <3>1
      <3> QED  BY <1>1, <1>2, <3>2
    <2> QED  BY <1>2, <2>1, <2>2
  <1>6. \A y \in S : m >= y
    <2> SUFFICES ASSUME NEW y \in S, y > m PROVE FALSE
      BY <1>1, <1>2
    <2>1. y \in 1 .. n /\ y # 1  BY <1>1, <1>2
    <2>2. y \in 1 .. y /\ past[y].changed_at <= t  BY <1>1, <2>1
    <2>3. past[y].changed_at > t  BY <1>2, <2>1
    <2> QED  BY <1>1, <2>1, <2>2, <2>3
  <1>7. S \subseteq Int  BY <1>1
  <1> HIDE DEF S
  <1>8. Max(S) = m  BY <1>5, <1>6, <1>7, MaxIs
  <1> QED  BY <1>4, <1>8 DEF past

-----------------------------------------------------------------------------
(* The segments of a fold are determined by the entries.                   *)
LEMMA CutsUnique ==
    ASSUME NEW a, NEW t, NEW base, NEW s, NEW n \in Nat, NEW v, NEW w,
           IsCuts(a, t, base, s, n, v), IsCuts(a, t, base, s, n, w)
    PROVE  w[n] = v[n]
  <1> DEFINE T == {k \in Nat : k <= n => w[k] = v[k]}
  <1>1. T \subseteq Nat /\ 0 \in T  BY DEF IsCuts
  <1>2. ASSUME NEW k \in T PROVE k + 1 \in T
    <2> SUFFICES ASSUME k + 1 <= n PROVE w[k + 1] = v[k + 1]
      OBVIOUS
    <2>1. k \in Nat /\ k + 1 \in 1 .. n /\ (k + 1) - 1 = k  OBVIOUS
    <2>2. w[k] = v[k]  BY <2>1
    <2>3. /\ w[k + 1] = Cut(a, t, w[k], s[k + 1])
          /\ v[k + 1] = Cut(a, t, v[k], s[k + 1])
      BY <2>1 DEF IsCuts
    <2> QED  BY <2>2, <2>3
  <1> HIDE DEF T
  <1>3. \A k \in Nat : k \in T  BY <1>1, <1>2, Induction
  <1> QED  BY <1>3 DEF T

LEMMA TimelineCuts ==
    ASSUME NEW p, RatesTyped(p), NEW a, NEW t, NEW base
    PROVE  LET n == p.rate_history.len + 1
           IN  \E v : /\ IsCuts(a, t, base, Timeline(p), n, v)
                      /\ Cuts(a, t, base, Timeline(p)) = v[n]
  <1> DEFINE n == p.rate_history.len + 1
  <1>1. n \in Nat /\ DOMAIN Timeline(p) = 1 .. n  BY TimelineType
  <1> HIDE DEF n
  <1> QED  BY <1>1, CutsAre DEF n

LEMMA LateCut ==
    ASSUME NEW a, NEW t \in Nat, NEW seg, NEW entry,
           entry.changed_at \in Nat, entry.changed_at >= t
    PROVE  Cut(a, t, seg, entry) = seg
  BY DEF Cut

LEMMA EarlyCut ==
    ASSUME NEW a, NEW t, NEW seg, NEW entry,
           entry.changed_at \in Nat, seg.start \in Nat,
           entry.changed_at <= seg.start
    PROVE  Cut(a, t, seg, entry) = seg
  BY DEF Cut

LEMMA SecondCut ==
    ASSUME NEW a, NEW t, NEW seg, NEW entry, entry.changed_at \in Nat
    PROVE  LET cut == Cut(a, t, seg, entry)
           IN  Cut(a, t, cut, entry) = cut
  <1>1. CASE entry.changed_at > seg.start /\ entry.changed_at < t
    <2>1. Cut(a, t, seg, entry).start = entry.changed_at  BY <1>1 DEF Cut
    <2>2. ~(entry.changed_at > Cut(a, t, seg, entry).start)  BY <2>1
    <2> QED  BY <2>2 DEF Cut
  <1>2. CASE ~(entry.changed_at > seg.start /\ entry.changed_at < t)
    <2>1. Cut(a, t, seg, entry) = seg  BY <1>2 DEF Cut
    <2> QED  BY <2>1
  <1> QED  BY <1>1, <1>2

-----------------------------------------------------------------------------
(* What was earned before a rate change is earned after it, whether the    *)
(* ring had room for the change, ...                                       *)
LEMMA EarnedAsGrown ==
    ASSUME NEW p, RatesTyped(p), NEW q, RatesTyped(q), NEW rate \in Nat,
           NEW t \in Nat, NewRate(q, p, rate, t), RatesInOrder(p, t), t >= 1,
           NEW a, NEW last \in Nat, last < t,
           p.rate_history.len < HistSize
    PROVE  EarnedYield(q, a, last, t) = EarnedYield(p, a, last, t)
  <1> DEFINE n == p.rate_history.len
  <1>1. /\ q.rate_history.len = n + 1
        /\ CurrentRateStart(q) = t
        /\ \A k \in 1 .. n + 1 : Timeline(q)[k] = Timeline(p)[k]
        /\ \A k \in 1 .. n + 1 : Chronicle(q.rate_history)[k] = Timeline(p)[k]
        /\ Timeline(q)[n + 2].changed_at = t
    BY TimelineGrows DEF RatesInOrder
  <1>2. /\ n \in Nat
        /\ CurrentRateStart(p) \in Nat
        /\ \A k \in 1 .. n : Timeline(p)[k] = Chronicle(p.rate_history)[k]
        /\ Timeline(p)[n + 1] = Current(p)
        /\ Current(p).changed_at = CurrentRateStart(p)
        /\ Current(p).rate_bps = p.rate_bps
    BY TimelineType DEF Current
  <1>3. InOrder(Timeline(p)) /\ InOrder(Timeline(q))
    BY RatesStayInOrder DEF RatesInOrder
  <1>4. \A k \in 1 .. n + 1 : k \in 1 .. n \/ k = n + 1  BY <1>2
  <1>5. ResolveRateAt(q, last) = ResolveRateAt(p, last)
    <2>1. CASE last >= CurrentRateStart(p)
      <3>1. RateIndex(q, last, n + 1)
        <4>1. Chronicle(q.rate_history)[n + 1].changed_at <= last
          BY <1>1, <1>2, <2>1
        <4>2. n + 1 \in 1 .. n + 1 /\ \A j \in 1 .. n + 1 : ~(j > n + 1)
          BY <1>2
        <4> QED  BY <1>1, <4>1, <4>2 DEF RateIndex
      <3>2. ResolveRateAt(q, last) = Chronicle(q.rate_history)[n + 1].rate_bps
        BY <1>1, <1>3, <3>1, ResolvedIs
      <3>3. ResolveRateAt(p, last) = p.rate_bps  BY <2>1 DEF ResolveRateAt
      <3> QED  BY <1>1, <1>2, <3>2, <3>3
    <2>2. CASE last < CurrentRateStart(p) /\ n = 0
      <3>1. RateIndex(q, last, 1)
        BY <1>1, <1>2, <2>2 DEF RateIndex
      <3>2. ResolveRateAt(q, last) = Chronicle(q.rate_history)[1].rate_bps
        BY <1>1, <1>3, <3>1, ResolvedIs
      <3>3. ResolveRateAt(p, last) = p.rate_bps
        <4>1. Chronicle(p.rate_history) = <<>>  BY <1>3, <2>2, PastInOrder
        <4> QED  BY <4>1 DEF ResolveRateAt
      <3>4. 1 \in 1 .. n + 1 /\ n + 1 = 1  BY <2>2
      <3> QED  BY <1>1, <1>2, <3>2, <3>3, <3>4
    <2>3. CASE last < CurrentRateStart(p) /\ n >= 1
      <3>1. PICK m \in 1 .. n : RateIndex(p, last, m)
        BY <1>3, <2>3, RateIndexExists
      <3>2. m \in 1 .. n + 1
            /\ Chronicle(q.rate_history)[m] = Chronicle(p.rate_history)[m]
        BY <1>1, <1>2, <3>1
      <3>3. RateIndex(q, last, m)
        <4>1. m = 1 \/ Chronicle(q.rate_history)[m].changed_at <= last
          BY <3>1, <3>2 DEF RateIndex
        <4>2. ASSUME NEW j \in 1 .. n + 1, j > m
              PROVE  Chronicle(q.rate_history)[j].changed_at > last
          <5>1. CASE j \in 1 .. n
            <6>1. Chronicle(q.rate_history)[j] = Chronicle(p.rate_history)[j]
              BY <1>1, <1>2, <5>1
            <6>2. Chronicle(p.rate_history)[j].changed_at > last
              BY <3>1, <4>2, <5>1 DEF RateIndex
            <6> QED  BY <6>1, <6>2
          <5>2. CASE j = n + 1
            <6>1. Chronicle(q.rate_history)[j].changed_at = CurrentRateStart(p)
              BY <1>1, <1>2, <5>2
            <6> QED  BY <1>2, <2>3, <6>1
          <5> QED  BY <1>4, <5>1, <5>2
        <4> QED  BY <1>1, <3>2, <4>1, <4>2 DEF RateIndex
      <3>4. /\ ResolveRateAt(q, last) = Chronicle(q.rate_history)[m].rate_bps
            /\ ResolveRateAt(p, last) = Chronicle(p.rate_history)[m].rate_bps
        BY <1>1, <1>3, <2>3, <3>1, <3>3, ResolvedIs
      <3> QED  BY <3>2, <3>4
    <2> QED  BY <1>2, <2>1, <2>2, <2>3
  <1> DEFINE base == Opening(p, last)
             sp == Timeline(p)
             sq == Timeline(q)
  <1>6. Opening(q, last) = base  BY <1>5 DEF Opening
  <1>7. PICK v : IsCuts(a, t, base, sp, n + 1, v)
                 /\ Cuts(a, t, base, sp) = v[n + 1]
    BY TimelineCuts
  <1>8. PICK w : IsCuts(a, t, base, sq, n + 2, w)
                 /\ Cuts(a, t, base, sq) = w[n + 2]
    <2>1. q.rate_history.len + 1 = n + 2  BY <1>1, <1>2
    <2> QED  BY <2>1, TimelineCuts
  <1>9. \A k \in 1 .. n + 1 : sq[k] = sp[k]  BY <1>1, <1>2
  <1> HIDE DEF base, n, sp, sq
  <1>10. w[n + 1] = v[n + 1]
    <2>1. IsCuts(a, t, base, sq, n + 1, v)  BY <1>7, <1>9 DEF IsCuts
    <2>2. n + 1 \in Nat /\ \A k \in 1 .. n + 1 : k \in 1 .. n + 2  BY <1>2
    <2>3. IsCuts(a, t, base, sq, n + 1, w)  BY <1>8, <2>2 DEF IsCuts
    <2> QED  BY <2>1, <2>2, <2>3, CutsUnique
  <1>11. w[n + 2] = w[n + 1]
    <2>1. n + 2 \in 1 .. n + 2 /\ (n + 2) - 1 = n + 1  BY <1>2
    <2>2. w[n + 2] = Cut(a, t, w[n + 1], sq[n + 2])
      BY <1>8, <2>1 DEF IsCuts
    <2>3. sq[n + 2].changed_at = t  BY <1>1 DEF n, sq
    <2> QED  BY <2>2, <2>3, LateCut
  <1>12. Cuts(a, t, base, sq) = Cuts(a, t, base, sp)
    BY <1>7, <1>8, <1>10, <1>11
  <1> QED  BY <1>6, <1>12, EarnedYieldIs DEF base, sp, sq

(* ... or dropped a rate that had ended by last ...                        *)
LEMMA EarnedAsShifted ==
    ASSUME NEW p, RatesTyped(p), NEW q, RatesTyped(q), NEW rate \in Nat,
           NEW t \in Nat, NewRate(q, p, rate, t), RatesInOrder(p, t), t >= 1,
           NEW a, NEW last \in Nat, last < t,
           p.rate_history.len = HistSize, Remembers(q, last)
    PROVE  EarnedYield(q, a, last, t) = EarnedYield(p, a, last, t)
  <1> DEFINE n == HistSize
  <1>1. /\ q.rate_history.len = n
        /\ CurrentRateStart(q) = t
        /\ \A k \in 1 .. n : Timeline(q)[k] = Timeline(p)[k + 1]
        /\ \A k \in 1 .. n :
              Chronicle(q.rate_history)[k] = Timeline(p)[k + 1]
        /\ Timeline(q)[n + 1].changed_at = t
    BY TimelineShifts
  <1>2. /\ n \in Nat \ {0}
        /\ CurrentRateStart(p) \in Nat
        /\ \A k \in 1 .. n : Timeline(p)[k] = Chronicle(p.rate_history)[k]
        /\ Timeline(p)[n + 1] = Current(p)
        /\ Current(p).changed_at = CurrentRateStart(p)
        /\ Current(p).rate_bps = p.rate_bps
        /\ DOMAIN Timeline(p) = 1 .. n + 1
        /\ \A k \in 1 .. n + 1 : Timeline(p)[k].changed_at \in Nat
    BY TimelineType, RateHistoryAssumption DEF Current, RateHistoryEntry
  <1>3. InOrder(Timeline(p)) /\ InOrder(Timeline(q))
    BY RatesStayInOrder DEF RatesInOrder
  <1>4. /\ 1 \in 1 .. n /\ 2 \in 1 .. n + 1 /\ 1 \in 1 .. n + 1
        /\ \A k \in 1 .. n : k \in 1 .. n - 1 \/ k = n
        /\ \A k \in 1 .. n - 1 : k \in 1 .. n /\ k + 1 \in 1 .. n
    BY <1>2
  <1>5. Timeline(p)[2].changed_at <= last
    <2>1. Chronicle(q.rate_history)[1].changed_at <= last
      BY <1>1, <1>2 DEF Remembers
    <2> QED  BY <1>1, <1>4, <2>1
  <1>6. Timeline(p)[1].changed_at <= last
    <2>1. Timeline(p)[1].changed_at <= Timeline(p)[2].changed_at
      BY <1>2, <1>3, <1>4 DEF InOrder
    <2> QED  BY <1>2, <1>4, <1>5, <2>1
  <1>7. ResolveRateAt(q, last) = ResolveRateAt(p, last)
    <2>1. CASE last >= CurrentRateStart(p)
      <3>1. RateIndex(q, last, n)
        <4>1. Chronicle(q.rate_history)[n].changed_at <= last
          BY <1>1, <1>2, <2>1
        <4>2. n \in 1 .. n /\ \A j \in 1 .. n : ~(j > n)  BY <1>2
        <4> QED  BY <1>1, <4>1, <4>2 DEF RateIndex
      <3>2. ResolveRateAt(q, last) = Chronicle(q.rate_history)[n].rate_bps
        BY <1>1, <1>3, <3>1, ResolvedIs
      <3>3. ResolveRateAt(p, last) = p.rate_bps  BY <2>1 DEF ResolveRateAt
      <3>4. n \in 1 .. n  BY <1>2
      <3> QED  BY <1>1, <1>2, <3>2, <3>3, <3>4
    <2>2. CASE last < CurrentRateStart(p)
      <3>1. PICK m \in 1 .. n : RateIndex(p, last, m)
        <4>1. p.rate_history.len = n /\ p.rate_history.len >= 1  BY <1>2
        <4> HIDE DEF n
        <4> QED  BY <1>3, <4>1, RateIndexExists
      <3>2. n >= 2
        <4>1. Timeline(p)[n + 1].changed_at > last  BY <1>2, <2>2
        <4>2. n + 1 # 2  BY <1>2, <1>4, <1>5, <4>1
        <4> QED  BY <1>2, <4>2
      <3>3. m >= 2
        <4> SUFFICES ASSUME m = 1 PROVE FALSE  BY <1>2, <3>1
        <4>1. 2 \in 1 .. n /\ 2 > m  BY <1>2, <3>2
        <4>2. Chronicle(p.rate_history)[2].changed_at > last
          BY <3>1, <4>1 DEF RateIndex
        <4>3. Timeline(p)[2].changed_at > last  BY <1>2, <4>1, <4>2
        <4> QED  BY <1>2, <1>4, <1>5, <4>3
      <3>4. m - 1 \in 1 .. n /\ (m - 1) + 1 = m  BY <1>2, <3>1, <3>3
      <3>5. Chronicle(q.rate_history)[m - 1] = Chronicle(p.rate_history)[m]
        BY <1>1, <1>2, <3>1, <3>4
      <3>6. RateIndex(q, last, m - 1)
        <4>1. Chronicle(q.rate_history)[m - 1].changed_at <= last
          BY <3>1, <3>3, <3>5 DEF RateIndex
        <4>2. ASSUME NEW j \in 1 .. n, j > m - 1
              PROVE  Chronicle(q.rate_history)[j].changed_at > last
          <5>1. CASE j \in 1 .. n - 1
            <6>1. j + 1 \in 1 .. n /\ j + 1 > m  BY <1>2, <3>1, <4>2, <5>1
            <6>2. Chronicle(q.rate_history)[j]
                    = Chronicle(p.rate_history)[j + 1]
              BY <1>1, <1>2, <6>1
            <6>3. Chronicle(p.rate_history)[j + 1].changed_at > last
              BY <3>1, <6>1 DEF RateIndex
            <6> QED  BY <6>2, <6>3
          <5>2. CASE j = n
            <6>1. Chronicle(q.rate_history)[j].changed_at = CurrentRateStart(p)
              BY <1>1, <1>2, <5>2
            <6> QED  BY <1>2, <2>2, <6>1
          <5> QED  BY <1>4, <5>1, <5>2
        <4> QED  BY <1>1, <3>4, <4>1, <4>2 DEF RateIndex
      <3>7. ResolveRateAt(q, last) = Chronicle(q.rate_history)[m - 1].rate_bps
        BY <1>1, <1>3, <3>6, ResolvedIs
      <3>8. ResolveRateAt(p, last) = Chronicle(p.rate_history)[m].rate_bps
        BY <1>3, <2>2, <3>1, ResolvedIs
      <3> QED  BY <3>5, <3>7, <3>8
    <2> QED  BY <1>2, <2>1, <2>2
  <1> DEFINE base == Opening(p, last)
             sp == Timeline(p)
             sq == Timeline(q)
  <1>8. Opening(q, last) = base /\ base.start = last  BY <1>7 DEF Opening
  <1>9. PICK v : IsCuts(a, t, base, sp, n + 1, v)
                 /\ Cuts(a, t, base, sp) = v[n + 1]
    BY TimelineCuts
  <1>10. PICK w : IsCuts(a, t, base, sq, n + 1, w)
                  /\ Cuts(a, t, base, sq) = w[n + 1]
    BY <1>1, TimelineCuts
  <1> HIDE DEF base, n
  <1>11. v[1] = base
    <2>1. 1 \in 1 .. n + 1 /\ 1 - 1 = 0  BY <1>2
    <2>2. v[1] = Cut(a, t, base, sp[1])  BY <1>9, <2>1 DEF IsCuts
    <2>3. sp[1].changed_at \in Nat  BY <1>2, <1>4
    <2> QED  BY <1>6, <1>8, <2>2, <2>3, EarlyCut
  <1>12. \A k \in 1 .. n : sq[k] = sp[k + 1]  BY <1>1 DEF n
  <1> HIDE DEF sp, sq
  <1>13. w[n] = v[n + 1]
    <2> DEFINE u == [k \in 0 .. n |-> v[k + 1]]
    <2>1. IsCuts(a, t, base, sq, n, u)
      <3>1. u[0] = base
        <4>1. 0 \in 0 .. n /\ 0 + 1 = 1  BY <1>2
        <4> QED  BY <1>11, <4>1
      <3>2. ASSUME NEW k \in 1 .. n
            PROVE  u[k] = Cut(a, t, u[k - 1], sq[k])
        <4>1. /\ k \in 0 .. n /\ k - 1 \in 0 .. n /\ k + 1 \in 1 .. n + 1
              /\ (k - 1) + 1 = k /\ (k + 1) - 1 = k
          BY <1>2
        <4>2. v[k + 1] = Cut(a, t, v[k], sp[k + 1])
          BY <1>9, <4>1 DEF IsCuts
        <4> QED  BY <1>12, <4>1, <4>2
      <3> HIDE DEF u
      <3> QED  BY <3>1, <3>2 DEF IsCuts
    <2>2. u[n] = v[n + 1] /\ n \in Nat  BY <1>2
    <2> HIDE DEF u
    <2>3. \A k \in 1 .. n : k \in 1 .. n + 1  BY <1>2
    <2>4. IsCuts(a, t, base, sq, n, w)  BY <1>10, <2>3 DEF IsCuts
    <2> QED  BY <2>1, <2>2, <2>4, CutsUnique
  <1>14. w[n + 1] = w[n]
    <2>1. n + 1 \in 1 .. n + 1 /\ (n + 1) - 1 = n  BY <1>2
    <2>2. w[n + 1] = Cut(a, t, w[n], sq[n + 1])  BY <1>10, <2>1 DEF IsCuts
    <2>3. sq[n + 1].changed_at = t  BY <1>1 DEF n, sq
    <2> QED  BY <2>2, <2>3, LateCut
  <1>15. Cuts(a, t, base, sq) = Cuts(a, t, base, sp)
    BY <1>9, <1>10, <1>13, <1>14
  <1> QED  BY <1>8, <1>15, EarnedYieldIs DEF base, sp, sq

(* ... or dropped a copy of the rate it added.                             *)
LEMMA EarnedAsRepeated ==
    ASSUME NEW p, RatesTyped(p), NEW q, RatesTyped(q), NEW rate \in Nat,
           NEW t \in Nat, NewRate(q, p, rate, t), RatesInOrder(p, t), t >= 1,
           NEW a, NEW last \in Nat, last < t,
           p.rate_history.len = HistSize, q.rate_history = p.rate_history
    PROVE  EarnedYield(q, a, last, t) = EarnedYield(p, a, last, t)
  <1> DEFINE n == HistSize
  <1>1. /\ q.rate_history.len = n
        /\ CurrentRateStart(q) = t
        /\ \A k \in 1 .. n : Timeline(q)[k] = Timeline(p)[k + 1]
        /\ \A k \in 1 .. n :
              Chronicle(q.rate_history)[k] = Timeline(p)[k + 1]
        /\ Timeline(q)[n + 1].changed_at = t
    BY TimelineShifts
  <1>2. /\ n \in Nat \ {0}
        /\ \A k \in 1 .. n : Timeline(p)[k] = Chronicle(p.rate_history)[k]
        /\ Timeline(p)[n + 1] = Current(p)
        /\ Current(p).rate_bps = p.rate_bps
        /\ \A k \in 1 .. n + 1 : Timeline(p)[k].changed_at \in Nat
        /\ CurrentRateStart(p) \in Nat
    BY TimelineType, RateHistoryAssumption DEF Current, RateHistoryEntry
  <1>3. InOrder(Timeline(p)) /\ InOrder(Timeline(q))
    BY RatesStayInOrder DEF RatesInOrder
  <1>4. \A k \in 1 .. n : Timeline(p)[k] = Timeline(p)[k + 1]
    BY <1>1, <1>2
  <1> HIDE DEF n
  <1>5. \A k \in 0 .. n : Timeline(p)[(n + 1) - k] = Current(p)
    <2> DEFINE T == {k \in Nat :
                       k <= n => Timeline(p)[(n + 1) - k] = Current(p)}
    <2>1. T \subseteq Nat /\ 0 \in T
      <3>1. (n + 1) - 0 = n + 1  BY <1>2
      <3> QED  BY <1>2, <3>1
    <2>2. ASSUME NEW k \in T PROVE k + 1 \in T
      <3> SUFFICES ASSUME k + 1 <= n
                   PROVE  Timeline(p)[(n + 1) - (k + 1)] = Current(p)
        OBVIOUS
      <3>1. /\ (n + 1) - (k + 1) \in 1 .. n /\ k <= n
            /\ ((n + 1) - (k + 1)) + 1 = (n + 1) - k
        BY <1>2
      <3>2. Timeline(p)[(n + 1) - k] = Current(p)  BY <3>1
      <3> QED  BY <1>4, <3>1, <3>2
    <2> HIDE DEF T
    <2>3. \A k \in Nat : k \in T  BY <2>1, <2>2, Induction
    <2> QED  BY <2>3 DEF T
  <1>6. \A k \in 1 .. n : Chronicle(p.rate_history)[k].rate_bps = p.rate_bps
    <2> TAKE k \in 1 .. n
    <2>1. (n + 1) - k \in 0 .. n /\ (n + 1) - ((n + 1) - k) = k  BY <1>2
    <2>2. Timeline(p)[k] = Current(p)  BY <1>5, <2>1
    <2> QED  BY <1>2, <2>2
  <1>7. ResolveRateAt(p, last) = p.rate_bps
    <2>1. CASE last >= CurrentRateStart(p)  BY <2>1 DEF ResolveRateAt
    <2>2. CASE last < CurrentRateStart(p)
      <3>1. p.rate_history.len = n /\ p.rate_history.len >= 1
        BY <1>2 DEF n
      <3>2. PICK m \in 1 .. n : RateIndex(p, last, m)
        BY <1>3, <3>1, RateIndexExists
      <3> QED  BY <1>3, <1>6, <2>2, <3>2, ResolvedIs
    <2> QED  BY <1>2, <2>1, <2>2
  <1>8. ResolveRateAt(q, last) = p.rate_bps
    <2>1. q.rate_history.len = n /\ q.rate_history.len >= 1
      BY <1>1, <1>2
    <2>2. PICK m \in 1 .. n : RateIndex(q, last, m)
      BY <1>3, <2>1, RateIndexExists
    <2>3. last < CurrentRateStart(q)  BY <1>1
    <2> QED  BY <1>3, <1>6, <2>2, <2>3, ResolvedIs
  <1> DEFINE base == Opening(p, last)
             sp == Timeline(p)
             sq == Timeline(q)
  <1>9. Opening(q, last) = base  BY <1>7, <1>8 DEF Opening
  <1>10. PICK v : IsCuts(a, t, base, sp, n + 1, v)
                  /\ Cuts(a, t, base, sp) = v[n + 1]
    BY TimelineCuts DEF n
  <1>11. PICK w : IsCuts(a, t, base, sq, n + 1, w)
                  /\ Cuts(a, t, base, sq) = w[n + 1]
    BY <1>1, TimelineCuts
  <1> HIDE DEF base, sp, sq
  <1>12. w[n] = v[n]
    <2>1. \A k \in 1 .. n : k \in 1 .. n + 1 /\ sq[k] = sp[k]
      BY <1>1, <1>2, <1>4 DEF n, sp, sq
    <2>2. IsCuts(a, t, base, sq, n, v)  BY <1>10, <2>1 DEF IsCuts
    <2>3. IsCuts(a, t, base, sq, n, w)  BY <1>11, <2>1 DEF IsCuts
    <2>4. n \in Nat  BY <1>2
    <2> QED  BY <2>2, <2>3, <2>4, CutsUnique
  <1>13. n + 1 \in 1 .. n + 1 /\ (n + 1) - 1 = n /\ n \in 1 .. n
         /\ n \in 1 .. n + 1
    BY <1>2
  <1>14. w[n + 1] = w[n]
    <2>1. w[n + 1] = Cut(a, t, w[n], sq[n + 1])  BY <1>11, <1>13 DEF IsCuts
    <2>2. sq[n + 1].changed_at = t  BY <1>1 DEF n, sq
    <2> QED  BY <2>1, <2>2, LateCut
  <1>15. v[n + 1] = v[n]
    <2>1. v[n + 1] = Cut(a, t, v[n], sp[n + 1])  BY <1>10, <1>13 DEF IsCuts
    <2>2. v[n] = Cut(a, t, v[n - 1], sp[n])  BY <1>10, <1>13 DEF IsCuts
    <2>3. sp[n + 1] = sp[n]  BY <1>4, <1>13 DEF sp
    <2>4. sp[n].changed_at \in Nat  BY <1>2, <1>13 DEF sp
    <2> QED  BY <2>1, <2>2, <2>3, <2>4, SecondCut
  <1>16. Cuts(a, t, base, sq) = Cuts(a, t, base, sp)
    BY <1>10, <1>11, <1>12, <1>14, <1>15
  <1> QED  BY <1>9, <1>16, EarnedYieldIs DEF base, sp, sq

(* A change of the rate is not retroactive: as long as the ring remembers  *)
(* the rate in force at last, or comes out as it was, the yield earned     *)
(* from last until the change is the same before and after it.             *)
LEMMA EarnedStands ==
    ASSUME NEW p, RatesTyped(p), NEW q, RatesTyped(q), NEW rate \in Nat,
           NEW t \in Nat, NewRate(q, p, rate, t), RatesInOrder(p, t), t >= 1,
           NEW a \in Nat, NEW last \in Nat, last <= t,
           Remembers(q, last) \/ q.rate_history = p.rate_history
    PROVE  EarnedYield(q, a, last, t) = EarnedYield(p, a, last, t)
  <1>1. CASE last = t  BY <1>1, NothingEarnedAtOnce
  <1>2. CASE last < t /\ p.rate_history.len < HistSize
    BY <1>2, EarnedAsGrown
  <1>3. CASE last < t /\ p.rate_history.len = HistSize
    BY <1>3, EarnedAsShifted, EarnedAsRepeated
  <1>4. p.rate_history.len \in Nat /\ p.rate_history.len <= HistSize
        /\ HistSize \in Nat
    BY TimelineType, RateHistoryAssumption
  <1> QED  BY <1>1, <1>2, <1>3, <1>4
=============================================================================
