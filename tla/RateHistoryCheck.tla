-------------------------- MODULE RateHistoryCheck --------------------------
(***************************************************************************)
(* A pool whose rate changes and one deposit whose yield is credited now   *)
(* and then, next to a log of the rate that was really in force in every   *)
(* second.  It compares the piecewise computation over the ring with a     *)
(* sum over the log.                                                       *)
(***************************************************************************)
EXTENDS RateHistory

CONSTANTS
    Rates,     \* the rates an operator may set
    Amount,    \* the deposit
    MaxTime    \* bound on the clock

ASSUME RateHistoryCheckAssumption ==
    /\ Rates \subseteq Nat
    /\ Amount \in Nat
    /\ MaxTime \in Nat \ {0}

VARIABLES
    now,       \* the clock
    pool,      \* created_at, rate_bps, rate_updated_at, rate_history
    last,      \* last_yield_update of the deposit
    credited,  \* yield credited by the syncs so far
    rateLog,   \* history variable: rateLog[s] is the rate during second s
    segments,  \* history variable: rounded segments behind credited
    forgot     \* history variable: an eviction lost a rate a sync needed

vars == <<now, pool, last, credited, rateLog, segments, forgot>>

Init ==
    /\ now = 1
    /\ \E r \in Rates :
          pool = [created_at |-> 1, rate_bps |-> r, rate_updated_at |-> 0,
                  rate_history |-> EmptyRing]
    /\ last = 1
    /\ credited = 0
    /\ rateLog = <<0>>    \* second 0 is before the pool exists
    /\ segments = 0
    /\ forgot = FALSE

(* The oldest entry goes away while the deposit still needs its interval.  *)
Evicts == LET past == Chronicle(pool.rate_history)
              next == IF HistSize > 1 THEN past[2].changed_at
                                      ELSE CurrentRateStart(pool)
          IN  pool.rate_history.len = HistSize /\ last < next

(* A change reaches the pool through a timelock of POOL_CHANGE_TIMELOCK    *)
(* seconds (apply_pool_changes), so never in the second of the one before  *)
(* or of the pool's creation: in that second the segment loop would stop   *)
(* at the older of two entries with the same time.                         *)
ChangeRate(r) ==
    /\ now > CurrentRateStart(pool)
    /\ pool' = WithNewRate(pool, r, now)
    /\ forgot' = (forgot \/ Evicts)
    /\ UNCHANGED <<now, last, credited, rateLog, segments>>

Tick ==
    /\ now < MaxTime
    /\ now' = now + 1
    /\ rateLog' = Append(rateLog, pool.rate_bps)
    /\ UNCHANGED <<pool, last, credited, segments, forgot>>

(* Rate changes strictly inside the window each cost one rounding.         *)
SegmentsSince(t) ==
    1 + Cardinality({s \in t + 1 .. now - 1 :
            s = CurrentRateStart(pool) \/
            \E i \in 1 .. pool.rate_history.len :
                Chronicle(pool.rate_history)[i].changed_at = s})

Sync ==
    /\ now > last
    /\ credited' = credited + EarnedYield(pool, Amount, last, now)
    /\ segments' = segments + SegmentsSince(last)
    /\ last' = now
    /\ UNCHANGED <<now, pool, rateLog, forgot>>

Next == Tick \/ Sync \/ \E r \in Rates : ChangeRate(r)

Spec == Init /\ [][Next]_vars

-----------------------------------------------------------------------------
(* rateLog is a sequence, so second s is at index s + 1: what the rates of *)
(* the seconds before t come to.                                           *)
ExactUpTo(t) == Amount * MapThenSumSet(LAMBDA i : rateLog[i], 2 .. t)

TypeOK ==
    /\ now \in 1 .. MaxTime
    /\ last \in 1 .. now
    /\ credited \in Nat
    /\ segments \in Nat
    /\ forgot \in BOOLEAN
    /\ rateLog \in Seq(Nat) /\ Len(rateLog) = now
    /\ pool \in [created_at      : Nat,
                 rate_bps        : Nat,
                 rate_updated_at : Nat,
                 rate_history    : RingType]

(* As long as the ring has not dropped a rate the deposit still needed,    *)
(* crediting lazily, at any moments and across any rate changes, pays the  *)
(* yield the rates really in force would have paid second by second, less  *)
(* at most one unit of rounding per segment, and never more than it        *)
(* (accrue_deposit_yield with push_rate_history and                        *)
(* resolve_rate_at_timestamp).                                             *)
YieldMatchesRateLog ==
    ~forgot =>
        LET owed  == credited + EarnedYield(pool, Amount, last, now)
            exact == ExactUpTo(now)
        IN  /\ YieldDenom * owed <= exact
            /\ exact < YieldDenom * (owed + segments + SegmentsSince(last))

(* Neither a rate change nor a sync alters what a deposit has earned by    *)
(* then: unless an eviction drops a rate it still needed, the yield        *)
(* credited and owed is the same before and after apply_pool_changes.      *)
ChangeIsNotRetroactive ==
    [][ now' = now /\ ~forgot'
          => EarnedYield(pool', Amount, last', now) + credited'
                 = EarnedYield(pool, Amount, last, now) + credited ]_vars
=============================================================================
