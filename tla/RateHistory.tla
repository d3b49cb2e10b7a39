---------------------------- MODULE RateHistory ----------------------------
(***************************************************************************)
(* The rate history of a lending pool and the yield a deposit earns from   *)
(* it: pure operators, used by the pool's state machine (Pool) and checked *)
(* against an independent per-second definition (RateHistoryCheck).        *)
(*                                                                         *)
(* A pool keeps its current rate and, in a ring of HistSize slots, the     *)
(* rates it had before, each with the time from which that rate applied.   *)
(* A deposit is credited lazily: at each operation the time since its last *)
(* update is cut at the rate changes, and each segment earns               *)
(*   amount * rate * seconds \div YieldDenom       (rounded down).         *)
(*                                                                         *)
(* Definitions named Faulty... are never used: each is the definition      *)
(* after it with a plausible bug, there to see that a property notices.    *)
(***************************************************************************)
EXTENDS Naturals, Sequences, SequencesExt

CONSTANTS
    HistSize,     \* RATE_HISTORY_SIZE, 7 in the code
    YieldDenom    \* BPS_DENOMINATOR * SECONDS_PER_YEAR

ASSUME RateHistoryAssumption ==
    /\ HistSize \in Nat \ {0}
    /\ YieldDenom \in Nat \ {0}

(* The ring: rate_history, rate_history_len and rate_history_head.         *)
RateHistoryEntry == [changed_at : Nat, rate_bps : Nat]

RingType == [len  : 0 .. HistSize,
             head : 0 .. HistSize - 1,
             slot : [0 .. HistSize - 1 -> RateHistoryEntry]]

EmptyRing == [len  |-> 0,
              head |-> 0,
              slot |-> [i \in 0 .. HistSize - 1 |->
                           [changed_at |-> 0, rate_bps |-> 0]]]

(* Writes at head and advances it; the oldest entry is lost once full.     *)
PushRateHistory(ring, entry) ==
    [len  |-> IF ring.len < HistSize THEN ring.len + 1 ELSE ring.len,
     head |-> (ring.head + 1) % HistSize,
     slot |-> [ring.slot EXCEPT ![ring.head] = entry]]

(* The entry at a chronological index, 0 being the oldest one kept.        *)
RateHistoryEntryAt(ring, i) ==
    LET oldest == IF ring.len = HistSize THEN ring.head ELSE 0
    IN  ring.slot[(oldest + i) % HistSize]

Chronicle(ring) == [i \in 1 .. ring.len |-> RateHistoryEntryAt(ring, i - 1)]

-----------------------------------------------------------------------------
(* The operators below read a pool p through the fields created_at,        *)
(* rate_bps, rate_updated_at and rate_history.                             *)

CurrentRateStart(p) ==
    IF p.rate_updated_at > 0 THEN p.rate_updated_at ELSE p.created_at

FaultyResolveRateAt(p, t) ==  \* a rate is found one second late
    LET past    == Chronicle(p.rate_history)
        started == {i \in 1 .. Len(past) :
                       \A j \in 1 .. i : past[j].changed_at < t}
    IN  IF t >= CurrentRateStart(p) \/ past = <<>>
        THEN p.rate_bps
        ELSE past[Max(started \cup {1})].rate_bps

(* The rate in force at time t, as far as the ring remembers: the last     *)
(* entry of the leading run of entries that started by t, the oldest entry *)
(* when t is before all of them.                                           *)
ResolveRateAt(p, t) ==
    LET past    == Chronicle(p.rate_history)
        started == {i \in 1 .. Len(past) :
                       \A j \in 1 .. i : past[j].changed_at <= t}
    IN  IF t >= CurrentRateStart(p) \/ past = <<>>
        THEN p.rate_bps
        ELSE past[Max(started \cup {1})].rate_bps

CalculateAccruedYield(amount, rate, seconds) ==
    (amount * rate * seconds) \div YieldDenom

(* What amount earns between last and t.  The segments are cut at every    *)
(* remembered change, and at the start of the current rate, that falls     *)
(* strictly inside the window; entries are in the order of their times, so *)
(* skipping those past t is the loop's break.                              *)
EarnedYield(p, amount, last, t) ==
    LET current == [changed_at |-> CurrentRateStart(p), rate_bps |-> p.rate_bps]
        Cut(seg, entry) ==
            IF entry.changed_at > seg.start /\ entry.changed_at < t
            THEN [start  |-> entry.changed_at,
                  rate   |-> entry.rate_bps,
                  earned |-> seg.earned + CalculateAccruedYield(
                                 amount, seg.rate, entry.changed_at - seg.start)]
            ELSE seg
        final == FoldLeft(Cut,
                          [start  |-> last,
                           rate   |-> ResolveRateAt(p, last),
                           earned |-> 0],
                          Append(Chronicle(p.rate_history), current))
    IN  final.earned + CalculateAccruedYield(amount, final.rate, t - final.start)

FaultyWithNewRate(p, rate, t) ==  \* the outgoing rate is not remembered
    [p EXCEPT !.rate_bps = rate, !.rate_updated_at = t]

(* The bookkeeping of a rate change at time t: the outgoing rate goes to   *)
(* the ring with the time from which it applied.                           *)
WithNewRate(p, rate, t) ==
    [p EXCEPT !.rate_history = PushRateHistory(@,
                  [changed_at |-> CurrentRateStart(p), rate_bps |-> p.rate_bps]),
              !.rate_bps = rate,
              !.rate_updated_at = t]

(* The ring reaches back to time t.                                        *)
Remembers(p, t) ==
    p.rate_history.len > 0 => Chronicle(p.rate_history)[1].changed_at <= t
=============================================================================
