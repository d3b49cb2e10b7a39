-------------------------------- MODULE Pool --------------------------------
(***************************************************************************)
(* One lending pool: its depositors, its vault, its timelocked terms and   *)
(* the principal it has out in debt contracts (instructions/pools.rs,      *)
(* state/pools.rs, contexts/pools.rs).                                     *)
(*                                                                         *)
(* An instruction either runs to its end or leaves every account as it     *)
(* was, so each one is a single action whose conjuncts are its checks.     *)
(* checked_add and friends are checks too: Fits(x) says that x is a u64.   *)
(* What the pool's borrowers do is the second half of the module: it       *)
(* changes the pool only through the escrow and the vault.                 *)
(*                                                                         *)
(* Left out: names, keys and mints (one pool, one mint, the right accounts *)
(* are always passed), events, and the fields nothing reads back           *)
(* (prev_rate_bps, deposit_timestamp, withdrawal_requested_at and the      *)
(* depositors' lifetime totals).                                           *)
(*                                                                         *)
(* Definitions named Faulty... are never used: each is the definition      *)
(* after it with a plausible bug, there to see that a property notices.    *)
(***************************************************************************)
EXTENDS RateHistory, FiniteSets

CONSTANTS
    Depositors,
    Terms,            \* the terms create_pool may be called with
    Changes,          \* the changes an operator may propose
    ContractTerms,    \* the debt contracts a pool may deploy to
    Amounts,          \* the amounts an instruction may be called with
    DepositFees,      \* values of State.pool_deposit_fee_bps
    YieldFees,        \* values of State.pool_yield_fee_bps
    Preferences,      \* values passed to set_yield_preference
    FeeDenom,         \* TENTHS_OF_BPS_DENOMINATOR
    Timelock,         \* POOL_CHANGE_TIMELOCK_SECONDS
    IdleExpiry,       \* POOL_IDLE_EXPIRY_SECONDS
    U64Max,           \* 2^64 - 1 in the code
    Keep,             \* an absent field of a change: None
    NoChange,         \* no PendingPoolChange account
    MaxTime,          \* bound on the clock
    MaxInterest       \* bound on what borrowers pay in beyond the loan

VARIABLES
    now,              \* Clock::unix_timestamp
    isPaused,         \* State.is_paused
    operatorAuth,     \* the operator's OperatorAuth account exists
    pool,             \* PoolState
    position,         \* PoolDeposit of each depositor
    pendingChange,    \* PendingPoolChange
    vault,            \* balance of the pool's vault token account
    loans,            \* the pool's principal and interest outside the vault
    flows             \* history variable: totals that crossed the vault

vars == <<now, isPaused, operatorAuth, pool, position, pendingChange,
          vault, loans, flows>>

-----------------------------------------------------------------------------
Fits(x) == x \in 0 .. U64Max

SaturatingSub(a, b) == IF a >= b THEN a - b ELSE 0

Least(a, b) == IF a <= b THEN a ELSE b

(* calculate_fee_tenths_bps: a share of amount, rounded down.              *)
Fee(amount, tenths_bps) == (amount * tenths_bps) \div FeeDenom

TermFields == {"rate_bps", "capacity", "minimum_deposit", "allowed_loan_type",
               "min_ltv_bps", "max_term_days", "withdrawal_queue_enabled"}

NoPool == [status |-> "Uncreated", rate_bps |-> 0, capacity |-> 0,
           minimum_deposit |-> 0, allowed_loan_type |-> "Both",
           min_ltv_bps |-> 0, max_term_days |-> 0,
           withdrawal_queue_enabled |-> FALSE, current_total_deposits |-> 0,
           current_utilized |-> 0, total_yield_distributed |-> 0,
           created_at |-> 0, num_depositors |-> 0, rate_updated_at |-> 0,
           idle_since |-> 0, total_pending_yield |-> 0,
           pending_withdrawal_requests |-> 0, rate_history |-> EmptyRing]

NoPosition == [exists |-> FALSE, deposit_amount |-> 0, accrued_yield |-> 0,
               last_yield_update |-> 0, withdrawal_requested |-> FALSE,
               withdrawal_requested_amount |-> 0,
               yield_preference |-> "Compound", deferred_yield |-> 0]

(* PoolDeposit::initialize *)
FreshPosition(t) ==
    [NoPosition EXCEPT !.exists = TRUE, !.last_yield_update = t]

(* The pool account exists; closing it is final, because create_pool       *)
(* would have to initialise a vault that is already there.                 *)
PoolExists == pool.status \in {"Active", "Paused"}

AvailableLiquidity(p) == p.current_total_deposits - p.current_utilized

FaultyRefreshIdleSince(p, t) ==  \* a pool in use keeps its stamp
    [p EXCEPT !.idle_since = IF @ = 0 THEN t ELSE @]

RefreshIdleSince(p, t) ==
    [p EXCEPT !.idle_since =
        IF p.current_total_deposits = 0 /\ p.current_utilized = 0
        THEN IF @ = 0 THEN t ELSE @
        ELSE 0]

-----------------------------------------------------------------------------
(* accrue_deposit_yield: yield is credited only as far as free deposits    *)
(* not already promised as yield can back it; the rest is deferred.  The   *)
(* result is the pool and the position after it.                           *)
OwedYield(p, d, t) ==
    d.deferred_yield + EarnedYield(p, d.deposit_amount, d.last_yield_update, t)

FaultyCreditedYield(p, d, t) ==  \* yield already promised is not set aside
    Least(OwedYield(p, d, t), AvailableLiquidity(p))

CreditedYield(p, d, t) ==
    Least(OwedYield(p, d, t),
          SaturatingSub(AvailableLiquidity(p), p.total_pending_yield))

AccrualFits(p, d, t) ==
    LET credited == CreditedYield(p, d, t)
    IN  t >= d.last_yield_update =>
            /\ Fits(OwedYield(p, d, t))
            /\ Fits(AvailableLiquidity(p))
            /\ Fits(credited)
            /\ Fits(d.accrued_yield + credited)
            /\ Fits(p.total_pending_yield + credited)

AccruedPool(p, d, t) ==
    IF t < d.last_yield_update THEN p
    ELSE [p EXCEPT !.total_pending_yield = @ + CreditedYield(p, d, t)]

FaultyAccruedPosition(p, d, t) ==  \* what is not credited is forgotten
    IF t < d.last_yield_update THEN d
    ELSE [d EXCEPT !.accrued_yield = @ + CreditedYield(p, d, t),
                   !.deferred_yield = 0,
                   !.last_yield_update = t]

AccruedPosition(p, d, t) ==
    LET credited == CreditedYield(p, d, t)
    IN  IF t < d.last_yield_update THEN d
        ELSE [d EXCEPT !.accrued_yield = @ + credited,
                       !.deferred_yield = OwedYield(p, d, t) - credited,
                       !.last_yield_update = t]

-----------------------------------------------------------------------------
(* The withdrawal queue.                                                   *)

FaultyPoolWithoutRequest(p, d) == p  \* the counter is not decremented

PoolWithoutRequest(p, d) ==
    [p EXCEPT !.pending_withdrawal_requests =
        IF d.withdrawal_requested /\ @ > 0 THEN @ - 1 ELSE @]

PositionWithoutRequest(d) ==
    [d EXCEPT !.withdrawal_requested = FALSE,
              !.withdrawal_requested_amount = 0]

(* queue_withdrawal_request, from the pool p and the position as accrued.  *)
QueueRequest(d, p, pos, amount) ==
    /\ ~pos.withdrawal_requested
    /\ Fits(p.pending_withdrawal_requests + 1)
    /\ pool' = [p EXCEPT !.pending_withdrawal_requests = @ + 1]
    /\ position' = [position EXCEPT ![d] =
                       [pos EXCEPT !.withdrawal_requested = TRUE,
                                   !.withdrawal_requested_amount = amount]]
    /\ UNCHANGED <<now, isPaused, operatorAuth, pendingChange, vault, loans, flows>>

(* What withdraw_from_pool, process_pool_withdrawal and                    *)
(* operator_return_deposit do once they have decided to pay amount out.    *)
PayPrincipal(d, p, pos, amount) ==
    LET paid == [p EXCEPT !.current_total_deposits = @ - amount]
        last == amount = pos.deposit_amount
    IN  /\ amount <= vault
        /\ last => p.num_depositors > 0
        /\ vault' = vault - amount
        /\ pool' = [PoolWithoutRequest(RefreshIdleSince(paid, now), pos)
                       EXCEPT !.num_depositors = IF last THEN @ - 1 ELSE @]
        /\ position' = [position EXCEPT ![d] =
               PositionWithoutRequest([pos EXCEPT !.deposit_amount = @ - amount])]
        /\ UNCHANGED <<now, isPaused, operatorAuth, pendingChange, loans, flows>>

-----------------------------------------------------------------------------
(* Operator accounts and the life of the pool.                             *)

AuthorizePoolOperator ==
    /\ ~operatorAuth
    /\ operatorAuth' = TRUE
    /\ UNCHANGED <<now, isPaused, pool, position, pendingChange, vault, loans, flows>>

(* The account goes away, and with it the right to create a pool; a pool   *)
(* that exists keeps its operator.                                         *)
RevokePoolOperator ==
    /\ operatorAuth
    /\ operatorAuth' = FALSE
    /\ UNCHANGED <<now, isPaused, pool, position, pendingChange, vault, loans, flows>>

CreatePool(terms) ==
    /\ pool.status = "Uncreated"
    /\ operatorAuth
    /\ pool' = [NoPool EXCEPT
                   !.status                   = "Active",
                   !.created_at               = now,
                   !.idle_since               = now,
                   !.rate_bps                 = terms.rate_bps,
                   !.capacity                 = terms.capacity,
                   !.minimum_deposit          = terms.minimum_deposit,
                   !.allowed_loan_type        = terms.allowed_loan_type,
                   !.min_ltv_bps              = terms.min_ltv_bps,
                   !.max_term_days            = terms.max_term_days,
                   !.withdrawal_queue_enabled = terms.withdrawal_queue_enabled]
    /\ UNCHANGED <<now, isPaused, operatorAuth, position, pendingChange, vault, loans, flows>>

PausePool ==
    /\ pool.status = "Active"
    /\ pool' = [pool EXCEPT !.status = "Paused"]
    /\ UNCHANGED <<now, isPaused, operatorAuth, position, pendingChange, vault, loans, flows>>

ResumePool ==
    /\ pool.status = "Paused"
    /\ pool' = [pool EXCEPT !.status = "Active"]
    /\ UNCHANGED <<now, isPaused, operatorAuth, position, pendingChange, vault, loans, flows>>

(* Neither the vault nor the yield still owed is looked at.                *)
ClosePool ==
    /\ PoolExists
    /\ pool.current_total_deposits = 0
    /\ pool.current_utilized = 0
    /\ pool' = [pool EXCEPT !.status = "Closed"]
    /\ UNCHANGED <<now, isPaused, operatorAuth, position, pendingChange, vault, loans, flows>>

(* The bot closes a pool that has been idle, with or without naming the    *)
(* pending change, which goes away with the pool when it is named.         *)
ExpireIdlePool ==
    /\ PoolExists
    /\ pool.current_utilized = 0
    /\ pool.current_total_deposits = 0
    /\ pool.idle_since > 0
    /\ now >= pool.idle_since + IdleExpiry
    /\ vault = 0
    /\ pool' = [pool EXCEPT !.status = "Closed"]
    /\ pendingChange' \in {pendingChange, NoChange}
    /\ UNCHANGED <<now, isPaused, operatorAuth, position, vault, loans, flows>>

-----------------------------------------------------------------------------
(* Timelocked changes.  There is one PendingPoolChange account per pool.   *)

FaultyProposePoolChanges(change) ==  \* a pending proposal is replaced
    /\ pool.status = "Active"
    /\ \E f \in TermFields : change[f] # Keep
    /\ pendingChange' = [proposed_at  |-> now,
                         effective_at |-> now + Timelock,
                         change       |-> change]
    /\ UNCHANGED <<now, isPaused, operatorAuth, pool, position, vault, loans, flows>>

ProposePoolChanges(change) ==
    /\ pool.status = "Active"
    /\ pendingChange = NoChange
    /\ \E f \in TermFields : change[f] # Keep
    /\ pendingChange' = [proposed_at  |-> now,
                         effective_at |-> now + Timelock,
                         change       |-> change]
    /\ UNCHANGED <<now, isPaused, operatorAuth, pool, position, vault, loans, flows>>

FaultyChangeIsCompatible(change) ==  \* queued requests are not looked at
    change.capacity # Keep => change.capacity >= pool.current_total_deposits

(* validate_pool_change_compatibility *)
ChangeIsCompatible(change) ==
    /\ change.capacity # Keep => change.capacity >= pool.current_total_deposits
    /\ change.withdrawal_queue_enabled = FALSE =>
           pool.pending_withdrawal_requests = 0

PoolWithChange(p, change) ==
    LET rated == IF change.rate_bps = Keep THEN p
                 ELSE WithNewRate(p, change.rate_bps, now)
        New(f) == IF change[f] = Keep THEN p[f] ELSE change[f]
    IN  [rated EXCEPT
            !.capacity                 = New("capacity"),
            !.minimum_deposit          = New("minimum_deposit"),
            !.allowed_loan_type        = New("allowed_loan_type"),
            !.min_ltv_bps              = New("min_ltv_bps"),
            !.max_term_days            = New("max_term_days"),
            !.withdrawal_queue_enabled = New("withdrawal_queue_enabled")]

ApplyPoolChanges ==
    /\ PoolExists
    /\ pendingChange # NoChange
    /\ now >= pendingChange.effective_at
    /\ ChangeIsCompatible(pendingChange.change)
    /\ pool' = PoolWithChange(pool, pendingChange.change)
    /\ pendingChange' = NoChange
    /\ UNCHANGED <<now, isPaused, operatorAuth, position, vault, loans, flows>>

(* Needs no pool account: it also frees the proposal of a closed pool.     *)
CancelPoolChanges ==
    /\ pendingChange # NoChange
    /\ pendingChange' = NoChange
    /\ UNCHANGED <<now, isPaused, operatorAuth, pool, position, vault, loans, flows>>

-----------------------------------------------------------------------------
(* Deposits and withdrawals.                                               *)

DepositToPool(d, amount, feeRate) ==
    LET before == IF position[d].exists THEN position[d] ELSE FreshPosition(now)
        p      == AccruedPool(pool, before, now)
        pos    == AccruedPosition(pool, before, now)
        net    == amount - Fee(amount, feeRate)
        funded == [p EXCEPT !.current_total_deposits = @ + net]
    IN  /\ amount > 0
        /\ ~isPaused
        /\ pool.status = "Active"
        /\ amount >= pool.minimum_deposit
        /\ Fits(net)
        /\ pool.capacity > 0 =>
               pool.current_total_deposits + net <= pool.capacity
        /\ AccrualFits(pool, before, now)
        /\ Fits(pool.current_total_deposits + net)
        /\ Fits(pos.deposit_amount + net)
        /\ Fits(vault + net)
        /\ vault' = vault + net
        /\ pool' = [PoolWithoutRequest(RefreshIdleSince(funded, now), pos)
                       EXCEPT !.num_depositors =
                           IF pos.deposit_amount = 0 THEN @ + 1 ELSE @]
        /\ position' = [position EXCEPT ![d] =
               PositionWithoutRequest([pos EXCEPT !.deposit_amount = @ + net])]
        /\ UNCHANGED <<now, isPaused, operatorAuth, pendingChange, loans, flows>>

FaultyWithdrawFromPool(d, amount) ==  \* the deposit is not looked at
    LET p   == AccruedPool(pool, position[d], now)
        pos == AccruedPosition(pool, position[d], now)
    IN  /\ PoolExists
        /\ position[d].exists
        /\ amount > 0
        /\ amount <= AvailableLiquidity(p)
        /\ PayPrincipal(d, p, pos, amount)

(* Open in every state of the pool: paid out at once when enough is free,  *)
(* queued when not and the pool has a queue, refused otherwise.            *)
WithdrawFromPool(d, amount) ==
    LET p   == AccruedPool(pool, position[d], now)
        pos == AccruedPosition(pool, position[d], now)
    IN  /\ PoolExists
        /\ position[d].exists
        /\ amount > 0
        /\ amount <= position[d].deposit_amount
        /\ AccrualFits(pool, position[d], now)
        /\ Fits(AvailableLiquidity(p))
        /\ \/ /\ amount <= AvailableLiquidity(p)
              /\ PayPrincipal(d, p, pos, amount)
           \/ /\ amount > AvailableLiquidity(p)
              /\ p.withdrawal_queue_enabled
              /\ QueueRequest(d, p, pos, amount)

RequestPoolWithdrawal(d, amount) ==
    /\ PoolExists
    /\ position[d].exists
    /\ amount > 0
    /\ amount <= position[d].deposit_amount
    /\ pool.withdrawal_queue_enabled
    /\ QueueRequest(d, pool, position[d], amount)

(* By the operator or the bot.                                             *)
ProcessPoolWithdrawal(d) ==
    LET p      == AccruedPool(pool, position[d], now)
        pos    == AccruedPosition(pool, position[d], now)
        amount == position[d].withdrawal_requested_amount
    IN  /\ PoolExists
        /\ position[d].exists
        /\ position[d].withdrawal_requested
        /\ amount > 0
        /\ amount <= position[d].deposit_amount
        /\ AccrualFits(pool, position[d], now)
        /\ Fits(AvailableLiquidity(p))
        /\ amount <= AvailableLiquidity(p)
        /\ PayPrincipal(d, p, pos, amount)

OperatorReturnDeposit(d) ==
    LET p      == AccruedPool(pool, position[d], now)
        pos    == AccruedPosition(pool, position[d], now)
        amount == Least(Least(pos.deposit_amount, AvailableLiquidity(p)), vault)
    IN  /\ pool.status = "Paused"
        /\ position[d].exists
        /\ position[d].deposit_amount > 0
        /\ AccrualFits(pool, position[d], now)
        /\ Fits(AvailableLiquidity(p))
        /\ amount > 0
        /\ PayPrincipal(d, p, pos, amount)

-----------------------------------------------------------------------------
(* Yield.  The bot may act for a depositor, as the depositor prefers.      *)

SetYieldPreference(d, preference) ==
    /\ PoolExists
    /\ position[d].exists
    /\ position' = [position EXCEPT ![d].yield_preference = preference]
    /\ UNCHANGED <<now, isPaused, operatorAuth, pool, pendingChange, vault, loans, flows>>

MayClaimYield(d, byBot) == byBot => position[d].yield_preference = "Claim"

MayCompoundYield(d, byBot) == byBot => position[d].yield_preference = "Compound"

FaultyClaimPoolYield(d, byBot, feeRate) ==  \* the fee comes on top
    LET p     == AccruedPool(pool, position[d], now)
        pos   == AccruedPosition(pool, position[d], now)
        yield == pos.accrued_yield
        fee   == Fee(yield, feeRate)
    IN  /\ PoolExists
        /\ position[d].exists
        /\ MayClaimYield(d, byBot)
        /\ yield > 0
        /\ AvailableLiquidity(p) >= yield
        /\ vault >= yield + fee
        /\ vault' = vault - yield - fee
        /\ pool' = [p EXCEPT !.total_pending_yield = @ - yield,
                             !.total_yield_distributed = @ + yield - fee]
        /\ position' = [position EXCEPT ![d] = [pos EXCEPT !.accrued_yield = 0]]
        /\ flows' = [flows EXCEPT !.yieldFees = @ + fee]
        /\ UNCHANGED <<now, isPaused, operatorAuth, pendingChange, loans>>

(* claim_pool_yield and bot_claim_pool_yield *)
ClaimPoolYield(d, byBot, feeRate) ==
    LET p     == AccruedPool(pool, position[d], now)
        pos   == AccruedPosition(pool, position[d], now)
        yield == pos.accrued_yield
        net   == yield - Fee(yield, feeRate)
    IN  /\ PoolExists
        /\ position[d].exists
        /\ MayClaimYield(d, byBot)
        /\ AccrualFits(pool, position[d], now)
        /\ yield > 0
        /\ Fits(AvailableLiquidity(p))
        /\ AvailableLiquidity(p) >= yield
        /\ vault >= yield
        /\ Fits(net)
        /\ Fits(p.total_pending_yield - yield)
        /\ Fits(p.total_yield_distributed + net)
        /\ vault' = vault - yield
        /\ pool' = [p EXCEPT !.total_pending_yield = @ - yield,
                             !.total_yield_distributed = @ + net]
        /\ position' = [position EXCEPT ![d] = [pos EXCEPT !.accrued_yield = 0]]
        /\ flows' = [flows EXCEPT !.yieldFees = @ + (yield - net)]
        /\ UNCHANGED <<now, isPaused, operatorAuth, pendingChange, loans>>

FaultyCompoundPoolYield(d, byBot, feeRate) ==  \* the total is not raised
    LET p     == AccruedPool(pool, position[d], now)
        pos   == AccruedPosition(pool, position[d], now)
        yield == pos.accrued_yield
        fee   == Fee(yield, feeRate)
    IN  /\ PoolExists
        /\ position[d].exists
        /\ MayCompoundYield(d, byBot)
        /\ yield > 0
        /\ vault >= fee
        /\ vault' = vault - fee
        /\ pool' = [p EXCEPT !.total_pending_yield = @ - yield,
                             !.total_yield_distributed = @ + yield - fee]
        /\ position' = [position EXCEPT ![d] =
               [pos EXCEPT !.deposit_amount = @ + yield - fee, !.accrued_yield = 0]]
        /\ flows' = [flows EXCEPT !.yieldFees = @ + fee]
        /\ UNCHANGED <<now, isPaused, operatorAuth, pendingChange, loans>>

(* Only the fee leaves the vault; the rest becomes part of the deposit,    *)
(* past the capacity if need be.                                           *)
CompoundPoolYield(d, byBot, feeRate) ==
    LET p     == AccruedPool(pool, position[d], now)
        pos   == AccruedPosition(pool, position[d], now)
        yield == pos.accrued_yield
        fee   == Fee(yield, feeRate)
        net   == yield - fee
    IN  /\ PoolExists
        /\ position[d].exists
        /\ MayCompoundYield(d, byBot)
        /\ AccrualFits(pool, position[d], now)
        /\ yield > 0
        /\ Fits(net)
        /\ vault >= fee
        /\ Fits(pos.deposit_amount + net)
        /\ Fits(p.current_total_deposits + net)
        /\ Fits(p.total_pending_yield - yield)
        /\ Fits(p.total_yield_distributed + net)
        /\ vault' = vault - fee
        /\ pool' = [p EXCEPT !.current_total_deposits = @ + net,
                             !.total_pending_yield = @ - yield,
                             !.total_yield_distributed = @ + net]
        /\ position' = [position EXCEPT ![d] =
               [pos EXCEPT !.deposit_amount = @ + net, !.accrued_yield = 0]]
        /\ flows' = [flows EXCEPT !.yieldFees = @ + fee]
        /\ UNCHANGED <<now, isPaused, operatorAuth, pendingChange, loans>>

-----------------------------------------------------------------------------
(* Lending.                                                                *)

DeploymentAllowed(p, contract) ==
    /\ p.allowed_loan_type \in {"Both", contract.loan_type}
    /\ p.min_ltv_bps > 0 => contract.ltv_floor_bps >= p.min_ltv_bps
    /\ p.max_term_days > 0 =>
           contract.term_days > 0 /\ contract.term_days <= p.max_term_days

FaultyPoolDeployToContract(amount, contract) ==  \* only the vault is looked at
    /\ amount > 0
    /\ ~isPaused
    /\ pool.status = "Active"
    /\ amount <= vault
    /\ DeploymentAllowed(pool, contract)
    /\ vault' = vault - amount
    /\ pool' = [pool EXCEPT !.current_utilized = @ + amount]
    /\ loans' = [loans EXCEPT !.lent = @ + amount]
    /\ UNCHANGED <<now, isPaused, operatorAuth, position, pendingChange, flows>>

PoolDeployToContract(amount, contract) ==
    /\ amount > 0
    /\ ~isPaused
    /\ pool.status = "Active"
    /\ Fits(AvailableLiquidity(pool))
    /\ amount <= AvailableLiquidity(pool)
    /\ amount <= vault
    /\ DeploymentAllowed(pool, contract)
    /\ Fits(pool.current_utilized + amount)
    /\ vault' = vault - amount
    /\ pool' = [pool EXCEPT !.current_utilized = @ + amount]
    /\ loans' = [loans EXCEPT !.lent = @ + amount]
    /\ UNCHANGED <<now, isPaused, operatorAuth, position, pendingChange, flows>>

FaultyPoolClaimFromEscrow(principal, interest) ==  \* interest is taken for principal
    LET total    == principal + interest
        utilized == pool.current_utilized - total
    IN  /\ PoolExists
        /\ total > 0
        /\ Fits(vault + total)
        /\ Fits(utilized)
        /\ vault' = vault + total
        /\ pool' = RefreshIdleSince(
                       [pool EXCEPT !.current_utilized = utilized], now)
        /\ loans' = [loans EXCEPT !.escrowPrincipal = @ - principal,
                                  !.escrowInterest = @ - interest]
        /\ flows' = [flows EXCEPT !.interestIn = @ + interest]
        /\ UNCHANGED <<now, isPaused, operatorAuth, position, pendingChange>>

(* By the operator or the bot, all that is in the escrow of one contract.  *)
(* A contract may have credited more as principal than the pool lent it,   *)
(* and then the subtraction from the utilisation may be refused.           *)
PoolClaimFromEscrow(principal, interest) ==
    LET total    == principal + interest
        utilized == pool.current_utilized - principal
    IN  /\ PoolExists
        /\ total > 0
        /\ Fits(vault + total)
        /\ Fits(utilized)
        /\ vault' = vault + total
        /\ pool' = RefreshIdleSince(
                       [pool EXCEPT !.current_utilized = utilized], now)
        /\ loans' = [loans EXCEPT !.escrowPrincipal = @ - principal,
                                  !.escrowInterest = @ - interest]
        /\ flows' = [flows EXCEPT !.interestIn = @ + interest]
        /\ UNCHANGED <<now, isPaused, operatorAuth, position, pendingChange>>

-----------------------------------------------------------------------------
(* What reaches the pool from outside: the debt contracts it has funded,   *)
(* the platform and the clock.                                             *)

PaidBeyondLoan == flows.interestIn + loans.escrowInterest + loans.surplus

(* A contract credits the pool's LenderEscrow with principal.  The part    *)
(* back of it is principal the pool lent; what is over is interest a       *)
(* contract has added to its balance, or its share of a liquidation, and   *)
(* is credited as available_principal all the same.  (What                 *)
(* update_lender_escrow credits a second time brings no tokens, and makes  *)
(* the claim's transfer fail; it is left out.)                             *)
ContractRepaysPrincipal(amount, back) ==
    /\ amount > 0
    /\ loans.lent > 0
    /\ back \in 0 .. Least(amount, loans.lent)
    /\ PaidBeyondLoan + (amount - back) <= MaxInterest
    /\ loans' = [loans EXCEPT !.lent = @ - back,
                              !.escrowPrincipal = @ + amount,
                              !.surplus = @ + (amount - back)]
    /\ UNCHANGED <<now, isPaused, operatorAuth, pool, position, pendingChange, vault, flows>>

ContractPaysInterest(amount) ==
    /\ amount > 0
    /\ loans.lent > 0
    /\ PaidBeyondLoan + amount <= MaxInterest
    /\ loans' = [loans EXCEPT !.escrowInterest = @ + amount]
    /\ UNCHANGED <<now, isPaused, operatorAuth, pool, position, pendingChange, vault, flows>>

(* A liquidation left part of the debt uncovered: the contract is final    *)
(* and the rest of the pool's principal will never come back.              *)
ContractDefaults(amount) ==
    /\ amount \in 1 .. loans.lent
    /\ loans' = [loans EXCEPT !.lent = @ - amount,
                              !.writtenOff = @ + amount]
    /\ UNCHANGED <<now, isPaused, operatorAuth, pool, position, pendingChange, vault, flows>>

(* A listing the pool had funded was cancelled, and the bot refunds the    *)
(* contribution: straight to the vault, without touching the pool account. *)
BotRefundExpiredLender(amount) ==
    /\ amount \in 1 .. loans.lent
    /\ Fits(vault + amount)
    /\ vault' = vault + amount
    /\ loans' = [loans EXCEPT !.lent = @ - amount]
    /\ flows' = [flows EXCEPT !.refundedIn = @ + amount]
    /\ UNCHANGED <<now, isPaused, operatorAuth, pool, position, pendingChange>>

SetPlatformPaused ==
    /\ isPaused' = ~isPaused
    /\ UNCHANGED <<now, operatorAuth, pool, position, pendingChange, vault, loans, flows>>

Tick ==
    /\ now < MaxTime
    /\ now' = now + 1
    /\ UNCHANGED <<isPaused, operatorAuth, pool, position, pendingChange, vault, loans, flows>>

-----------------------------------------------------------------------------
Init ==
    /\ now = 1
    /\ isPaused = FALSE
    /\ operatorAuth = FALSE
    /\ pool = NoPool
    /\ position = [d \in Depositors |-> NoPosition]
    /\ pendingChange = NoChange
    /\ vault = 0
    /\ loans = [lent |-> 0, escrowPrincipal |-> 0, escrowInterest |-> 0,
                writtenOff |-> 0, surplus |-> 0]
    /\ flows = [interestIn |-> 0, refundedIn |-> 0, yieldFees |-> 0]

OperatorStep ==
    \/ AuthorizePoolOperator \/ RevokePoolOperator
    \/ \E terms \in Terms : CreatePool(terms)
    \/ PausePool \/ ResumePool \/ ClosePool \/ ExpireIdlePool
    \/ \E change \in Changes : ProposePoolChanges(change)
    \/ ApplyPoolChanges \/ CancelPoolChanges
    \/ \E amount \in Amounts, contract \in ContractTerms :
           PoolDeployToContract(amount, contract)
    \/ \E principal \in 0 .. loans.escrowPrincipal,
          interest \in 0 .. loans.escrowInterest :
           PoolClaimFromEscrow(principal, interest)

DepositorStep(d) ==
    \/ \E amount \in Amounts :
           \/ \E feeRate \in DepositFees : DepositToPool(d, amount, feeRate)
           \/ WithdrawFromPool(d, amount)
           \/ RequestPoolWithdrawal(d, amount)
    \/ ProcessPoolWithdrawal(d)
    \/ OperatorReturnDeposit(d)
    \/ \E preference \in Preferences : SetYieldPreference(d, preference)
    \/ \E byBot \in BOOLEAN, feeRate \in YieldFees :
           \/ ClaimPoolYield(d, byBot, feeRate)
           \/ CompoundPoolYield(d, byBot, feeRate)

OutsideStep ==
    \/ \E amount \in Amounts :
           \/ \E back \in 0 .. amount : ContractRepaysPrincipal(amount, back)
           \/ ContractPaysInterest(amount)
           \/ ContractDefaults(amount)
           \/ BotRefundExpiredLender(amount)
    \/ SetPlatformPaused
    \/ Tick

Next ==
    \/ OperatorStep
    \/ \E d \in Depositors : DepositorStep(d)
    \/ OutsideStep

Spec == Init /\ [][Next]_vars

-----------------------------------------------------------------------------
(* Types.                                                                  *)

U64 == 0 .. U64Max

PoolType ==
    [status : {"Uncreated", "Active", "Paused", "Closed"},
     rate_bps : Nat,
     capacity : Nat,
     minimum_deposit : Nat,
     allowed_loan_type : {"Both", "Demand", "Committed"},
     min_ltv_bps : Nat,
     max_term_days : Nat,
     withdrawal_queue_enabled : BOOLEAN,
     current_total_deposits : U64,
     current_utilized : U64,
     total_yield_distributed : U64,
     created_at : Nat,
     num_depositors : Nat,
     rate_updated_at : Nat,
     idle_since : Nat,
     total_pending_yield : U64,
     pending_withdrawal_requests : U64,
     rate_history : RingType]

PositionType ==
    [exists : BOOLEAN,
     deposit_amount : U64,
     accrued_yield : U64,
     last_yield_update : Nat,
     withdrawal_requested : BOOLEAN,
     withdrawal_requested_amount : U64,
     yield_preference : {"Compound", "Claim"},
     deferred_yield : U64]

TermsType ==
    [rate_bps : Nat, capacity : Nat, minimum_deposit : Nat,
     allowed_loan_type : {"Both", "Demand", "Committed"},
     min_ltv_bps : Nat, max_term_days : Nat,
     withdrawal_queue_enabled : BOOLEAN]

ChangeType ==
    [rate_bps : Nat \cup {Keep}, capacity : Nat \cup {Keep},
     minimum_deposit : Nat \cup {Keep},
     allowed_loan_type : {"Both", "Demand", "Committed", Keep},
     min_ltv_bps : Nat \cup {Keep}, max_term_days : Nat \cup {Keep},
     withdrawal_queue_enabled : BOOLEAN \cup {Keep}]

PendingChangeType ==
    [proposed_at : Nat, effective_at : Nat, change : ChangeType]

ASSUME PoolAssumption ==
    /\ IsFiniteSet(Depositors)
    /\ Terms \subseteq TermsType
    /\ Changes \subseteq ChangeType
    /\ Amounts \subseteq Nat
    /\ DepositFees \subseteq 0 .. FeeDenom - 1
    /\ YieldFees \subseteq Nat
    /\ Preferences \subseteq {"Compound", "Claim"}
    /\ FeeDenom \in Nat \ {0}
    /\ Timelock \in Nat
    /\ IdleExpiry \in Nat
    /\ U64Max \in Nat
    /\ MaxTime \in Nat
    /\ MaxInterest \in Nat

LoansType ==
    [lent : Nat, escrowPrincipal : Nat, escrowInterest : Nat,
     writtenOff : Nat, surplus : Nat]

TypeOK ==
    /\ now \in Nat
    /\ isPaused \in BOOLEAN
    /\ operatorAuth \in BOOLEAN
    /\ pool \in PoolType
    /\ position \in [Depositors -> PositionType]
    /\ pendingChange \in PendingChangeType \cup {NoChange}
    /\ vault \in U64
    /\ loans \in LoansType
    /\ flows \in [interestIn : Nat, refundedIn : Nat, yieldFees : Int]

-----------------------------------------------------------------------------
(* Safety.                                                                 *)

(* The principal out on loan never exceeds the deposits, so the checked    *)
(* subtraction deposits - utilized every accrual starts with cannot fail   *)
(* and lock the pool.                                                      *)
UtilizedWithinDeposits == pool.current_utilized <= pool.current_total_deposits

(* The pool's two running totals are the sums over its depositors:         *)
(* deposits, withdrawals, returns and compounding keep the one, accrual,   *)
(* claims and compounding the other.                                       *)
TotalsAreSums ==
    /\ pool.current_total_deposits =
           MapThenSumSet(LAMBDA d : position[d].deposit_amount, Depositors)
    /\ pool.total_pending_yield =
           MapThenSumSet(LAMBDA d : position[d].accrued_yield, Depositors)

Queued == {d \in Depositors : position[d].withdrawal_requested}

(* The counter of queued withdrawals is exact: what guards disabling the   *)
(* queue against the requests that are really there.                       *)
QueueCountExact == pool.pending_withdrawal_requests = Cardinality(Queued)

(* A queued withdrawal can still be processed one day: the queue has not   *)
(* been disabled under it, and nothing the depositor or the operator did   *)
(* since left less in the deposit than was asked for.                      *)
QueueNeverStranded ==
    \A d \in Queued :
        /\ pool.withdrawal_queue_enabled
        /\ position[d].withdrawal_requested_amount
               \in 1 .. position[d].deposit_amount

(* The books and the vault agree: what is in the token account is what is  *)
(* deposited and not lent, plus what came in outside of deposits, less     *)
(* what went out as yield and fees.                                        *)
VaultMatchesBooks ==
    vault = AvailableLiquidity(pool)
            + flows.interestIn + flows.refundedIn
            - flows.yieldFees - pool.total_yield_distributed

(* The utilisation is exactly the principal that has not passed through    *)
(* pool_claim_from_escrow: still lent, waiting in the escrows, lost in a   *)
(* default or refunded past the pool's books, less what contracts have     *)
(* credited as principal beyond what was lent.  So the claim may be        *)
(* refused (its checked_sub, pools.rs:1816-1820) only for that surplus,    *)
(* and not while as much is still out, lost or refunded.                   *)
UtilizedIsOutside ==
    pool.current_utilized + loans.surplus =
        loans.lent + loans.escrowPrincipal
        + loans.writtenOff + flows.refundedIn

PoolIsEmpty(p) == p.current_total_deposits = 0 /\ p.current_utilized = 0

(* The instruction that empties the pool starts its idle clock at that     *)
(* instant: expire_idle_pool never counts time the pool was in use.        *)
IdleClockStartsAtEmpty ==
    [][ PoolExists /\ ~PoolIsEmpty(pool) /\ PoolIsEmpty(pool')
            => pool'.idle_since = now ]_vars

(* Yield is credited only against liquidity: an instruction that raises    *)
(* the pending yield raises it no further than the liquidity it found.     *)
CreditedYieldIsBacked ==
    [][ pool'.total_pending_yield > pool.total_pending_yield
            => pool'.total_pending_yield <= AvailableLiquidity(pool) ]_vars

(* Everything a depositor has earned so far and not been paid.             *)
YieldDue(p, d, t) ==
    IF d.exists THEN d.accrued_yield + OwedYield(p, d, t) ELSE 0

TotalYieldDue ==
    MapThenSumSet(LAMBDA d : YieldDue(pool, position[d], now), Depositors)

YieldPaid == pool.total_yield_distributed + flows.yieldFees

(* Earned yield is neither lost nor made: at any instant an instruction    *)
(* lowers what all depositors are due by exactly what it pays out, however *)
(* it changes deposits, rates or the queue.  The one exception is a rate   *)
(* change that drops from the ring a rate somebody has yet to be paid at.  *)
YieldIsConserved ==
    [][ /\ PoolExists /\ now' = now
        /\ \/ pool'.rate_history = pool.rate_history
           \/ \A d \in Depositors :
                  position[d].exists =>
                      Remembers(pool', position[d].last_yield_update)
        => TotalYieldDue' + YieldPaid' = TotalYieldDue + YieldPaid ]_vars

TermsOf(p) == [f \in TermFields |-> p[f]]

(* Depositors always have the full timelock: terms change only when a      *)
(* change announced at least Timelock earlier is still pending, and an     *)
(* announcement is never replaced by another one.                          *)
TermsChangeOnlyAsAnnounced ==
    [][ /\ PoolExists /\ TermsOf(pool') # TermsOf(pool)
              => /\ pendingChange # NoChange
                 /\ now >= pendingChange.proposed_at + Timelock
                 /\ \A f \in TermFields :
                        pool'[f] \in {pool[f], pendingChange.change[f]}
        /\ pendingChange' # pendingChange
              => NoChange \in {pendingChange, pendingChange'} ]_vars

-----------------------------------------------------------------------------
(* What comments and tests of the repository say, and the code does not do.*)

(* pools.rs:648, "so depositors can always exit": a deposit the liquidity  *)
(* and the vault cover can be withdrawn in full.                           *)
DepositorsCanExit ==
    \A d \in Depositors :
        LET amount == position[d].deposit_amount
        IN  /\ PoolExists
            /\ amount > 0
            /\ amount <= AvailableLiquidity(pool)
            /\ amount <= vault
            => ENABLED WithdrawFromPool(d, amount)
=============================================================================
