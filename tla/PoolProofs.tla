----------------------------- MODULE PoolProofs -----------------------------
(* Theorems about Pool for any depositors, terms, amounts and bounds.      *)
EXTENDS Pool, RateHistoryProofs

LEMMA FeeIsNat ==
    ASSUME NEW a \in Nat, NEW r \in Nat
    PROVE  Fee(a, r) \in Nat
  <1>1. a * r \in Nat  OBVIOUS
  <1>2. FeeDenom \in Nat \ {0}  BY PoolAssumption
  <1> QED  BY <1>1, <1>2 DEF Fee

LEMMA AccruedPoolType ==
    ASSUME NEW p \in PoolType, NEW d \in PositionType, NEW t \in Nat,
           AccrualFits(p, d, t)
    PROVE  /\ AccruedPool(p, d, t) \in PoolType
           /\ \E y \in U64 :
                AccruedPool(p, d, t) = [p EXCEPT !.total_pending_yield = y]
  <1>1. CASE t < d.last_yield_update
    <2>1. AccruedPool(p, d, t) = p  BY <1>1 DEF AccruedPool
    <2>2. p.total_pending_yield \in U64  BY DEF PoolType
    <2>3. p = [p EXCEPT !.total_pending_yield = p.total_pending_yield]
      BY DEF PoolType
    <2> QED  BY <2>1, <2>2, <2>3
  <1>2. CASE ~(t < d.last_yield_update)
    <2> DEFINE y == p.total_pending_yield + CreditedYield(p, d, t)
    <2>1. t >= d.last_yield_update  BY <1>2 DEF PositionType
    <2>2. y \in U64  BY <2>1 DEF AccrualFits, Fits, U64
    <2>3. AccruedPool(p, d, t) = [p EXCEPT !.total_pending_yield = y]
      BY <1>2 DEF AccruedPool
    <2> HIDE DEF y
    <2>4. [p EXCEPT !.total_pending_yield = y] \in PoolType
      BY <2>2 DEF PoolType
    <2> QED  BY <2>2, <2>3, <2>4
  <1> QED  BY <1>1, <1>2

LEMMA AccruedPositionType ==
    ASSUME NEW p \in PoolType, NEW d \in PositionType, NEW t \in Nat,
           AccrualFits(p, d, t)
    PROVE  /\ AccruedPosition(p, d, t) \in PositionType
           /\ LET pos == AccruedPosition(p, d, t)
              IN  /\ pos.exists = d.exists
                  /\ pos.deposit_amount = d.deposit_amount
                  /\ pos.withdrawal_requested = d.withdrawal_requested
                  /\ pos.withdrawal_requested_amount = d.withdrawal_requested_amount
  <1>1. CASE t < d.last_yield_update
    BY <1>1 DEF AccruedPosition
  <1>2. CASE ~(t < d.last_yield_update)
    <2> DEFINE c == CreditedYield(p, d, t)
               o == OwedYield(p, d, t)
    <2>1. t >= d.last_yield_update  BY <1>2 DEF PositionType
    <2>2. /\ o \in U64 /\ c \in U64 /\ d.accrued_yield + c \in U64
      BY <2>1 DEF AccrualFits, Fits, U64
    <2>3. c <= o
      BY <2>2, PoolAssumption DEF CreditedYield, Least, U64
    <2>4. o - c \in U64  BY <2>2, <2>3, PoolAssumption DEF U64
    <2>5. AccruedPosition(p, d, t) =
            [d EXCEPT !.accrued_yield = d.accrued_yield + c,
                      !.deferred_yield = o - c, !.last_yield_update = t]
      BY <1>2 DEF AccruedPosition
    <2> HIDE DEF c, o
    <2> QED  BY <2>2, <2>4, <2>5 DEF PositionType
  <1> QED  BY <1>1, <1>2

-----------------------------------------------------------------------------
(* The inductive invariant behind the first theorems: types, the principal *)
(* within the deposits, the books, and an untouched record until the pool  *)
(* is created.                                                             *)

UncreatedIsFresh == pool.status = "Uncreated" => pool = NoPool

Inductive ==
    /\ TypeOK
    /\ UtilizedWithinDeposits
    /\ UncreatedIsFresh
    /\ VaultMatchesBooks
    /\ UtilizedIsOutside

LEMMA WithoutRequestType ==
    ASSUME NEW p \in PoolType, NEW d \in PositionType
    PROVE  /\ PoolWithoutRequest(p, d) \in PoolType
           /\ \E c \in U64 : PoolWithoutRequest(p, d) =
                  [p EXCEPT !.pending_withdrawal_requests = c]
           /\ PositionWithoutRequest(d) \in PositionType
  <1>1. U64Max \in Nat  BY PoolAssumption
  <1>2. PositionWithoutRequest(d) \in PositionType
    <2>1. 0 \in U64  BY <1>1 DEF U64
    <2> QED  BY <2>1 DEF PositionWithoutRequest, PositionType
  <1>3. PICK c \in U64 : PoolWithoutRequest(p, d) =
                  [p EXCEPT !.pending_withdrawal_requests = c]
    <2>1. p.pending_withdrawal_requests \in U64  BY DEF PoolType
    <2> DEFINE c == IF d.withdrawal_requested /\ p.pending_withdrawal_requests > 0
                    THEN p.pending_withdrawal_requests - 1
                    ELSE p.pending_withdrawal_requests
    <2>2. c \in U64  BY <1>1, <2>1 DEF U64
    <2>3. PoolWithoutRequest(p, d) = [p EXCEPT !.pending_withdrawal_requests = c]
      BY DEF PoolWithoutRequest
    <2> QED  BY <2>2, <2>3
  <1>4. [p EXCEPT !.pending_withdrawal_requests = c] \in PoolType
    BY <1>3 DEF PoolType
  <1> QED  BY <1>2, <1>3, <1>4

LEMMA RefreshType ==
    ASSUME NEW p \in PoolType, NEW t \in Nat
    PROVE  \E i \in Nat : /\ RefreshIdleSince(p, t) = [p EXCEPT !.idle_since = i]
                          /\ RefreshIdleSince(p, t) \in PoolType
  <1> DEFINE i == IF p.current_total_deposits = 0 /\ p.current_utilized = 0
                  THEN IF p.idle_since = 0 THEN t ELSE p.idle_since
                  ELSE 0
  <1>1. i \in Nat  BY DEF PoolType
  <1>2. RefreshIdleSince(p, t) = [p EXCEPT !.idle_since = i]
    BY DEF RefreshIdleSince
  <1> HIDE DEF i
  <1>3. [p EXCEPT !.idle_since = i] \in PoolType  BY <1>1 DEF PoolType
  <1> QED  BY <1>1, <1>2, <1>3

(* Paying principal out of free liquidity takes the same amount from the   *)
(* vault, the deposit and the total, and leaves every other total alone.   *)
LEMMA PayPrincipalEffect ==
    ASSUME TypeOK, NEW d \in Depositors, NEW p \in PoolType,
           NEW pos \in PositionType, NEW amount \in Nat,
           amount <= pos.deposit_amount,
           amount <= p.current_total_deposits,
           PayPrincipal(d, p, pos, amount)
    PROVE  /\ pool' \in PoolType
           /\ pool'.status = p.status
           /\ pool'.current_total_deposits = p.current_total_deposits - amount
           /\ pool'.current_utilized = p.current_utilized
           /\ pool'.total_yield_distributed = p.total_yield_distributed
           /\ pool'.total_pending_yield = p.total_pending_yield
           /\ TermsOf(pool') = TermsOf(p)
           /\ position' \in [Depositors -> PositionType]
           /\ vault' = vault - amount
           /\ vault' \in U64
           /\ UNCHANGED <<now, isPaused, operatorAuth, pendingChange, loans, flows>>
  <1>0. U64Max \in Nat  BY PoolAssumption
  <1> DEFINE paid == [p EXCEPT !.current_total_deposits = @ - amount]
             fresh == RefreshIdleSince(paid, now)
             clear == PoolWithoutRequest(fresh, pos)
             rest == [pos EXCEPT !.deposit_amount = @ - amount]
  <1>1. paid \in PoolType
    <2>1. p.current_total_deposits - amount \in U64
      BY <1>0 DEF PoolType, U64
    <2> QED  BY <2>1 DEF PoolType
  <1>2. rest \in PositionType
    <2>1. pos.deposit_amount - amount \in U64  BY <1>0 DEF PositionType, U64
    <2> QED  BY <2>1 DEF PositionType
  <1>3. now \in Nat /\ vault \in U64  BY DEF TypeOK
  <1> HIDE DEF paid, rest
  <1>4. PICK i \in Nat : /\ fresh = [paid EXCEPT !.idle_since = i]
                         /\ fresh \in PoolType
    BY <1>1, <1>3, RefreshType
  <1> HIDE DEF fresh
  <1>5. PICK c \in U64 : /\ clear = [fresh EXCEPT !.pending_withdrawal_requests = c]
                         /\ clear \in PoolType
    BY <1>4, WithoutRequestType
  <1> HIDE DEF clear
  <1>6. PICK n \in Nat : pool' = [clear EXCEPT !.num_depositors = n]
    <2>1. clear.num_depositors \in Nat
          /\ clear.num_depositors = p.num_depositors
      BY <1>5, <1>4 DEF PoolType, paid
    <2>2. amount = pos.deposit_amount => p.num_depositors > 0
      BY DEF PayPrincipal
    <2>3. pool' = [clear EXCEPT !.num_depositors =
                      IF amount = pos.deposit_amount THEN @ - 1 ELSE @]
      BY DEF PayPrincipal, clear, fresh, paid
    <2>4. CASE amount = pos.deposit_amount
      BY <2>1, <2>2, <2>3, <2>4
    <2>5. CASE amount # pos.deposit_amount
      BY <2>1, <2>3, <2>5
    <2> QED  BY <2>4, <2>5
  <1>7. pool' \in PoolType  BY <1>5, <1>6, ZenonT(40) DEF PoolType
  <1>8. /\ pool'.status = p.status
        /\ pool'.current_total_deposits = p.current_total_deposits - amount
        /\ pool'.current_utilized = p.current_utilized
        /\ pool'.total_yield_distributed = p.total_yield_distributed
        /\ pool'.total_pending_yield = p.total_pending_yield
    BY <1>4, <1>5, <1>6 DEF PoolType, paid
  <1>9. TermsOf(pool') = TermsOf(p)
    BY <1>4, <1>5, <1>6 DEF PoolType, paid, TermsOf, TermFields
  <1>10. position' \in [Depositors -> PositionType]
    <2>1. PositionWithoutRequest(rest) \in PositionType
      BY <1>1, <1>2, WithoutRequestType
    <2>2. position' = [position EXCEPT ![d] = PositionWithoutRequest(rest)]
      BY DEF PayPrincipal, rest
    <2> QED  BY <2>1, <2>2 DEF TypeOK
  <1>11. vault' = vault - amount /\ vault' \in U64
    BY <1>0, <1>3 DEF PayPrincipal, U64
  <1>12. UNCHANGED <<now, isPaused, operatorAuth, pendingChange, loans, flows>>
    BY DEF PayPrincipal
  <1> QED  BY <1>7, <1>8, <1>9, <1>10, <1>11, <1>12
(* Accrual moves nothing but yield.                                        *)
LEMMA AccrualEffect ==
    ASSUME NEW q \in PoolType, NEW b \in PositionType, NEW t \in Nat,
           AccrualFits(q, b, t)
    PROVE  LET p == AccruedPool(q, b, t)
               pos == AccruedPosition(q, b, t)
           IN  /\ p \in PoolType
               /\ pos \in PositionType
               /\ p.status = q.status
               /\ p.current_total_deposits = q.current_total_deposits
               /\ p.current_utilized = q.current_utilized
               /\ p.total_yield_distributed = q.total_yield_distributed
               /\ p.pending_withdrawal_requests = q.pending_withdrawal_requests
               /\ p.withdrawal_queue_enabled = q.withdrawal_queue_enabled
               /\ TermsOf(p) = TermsOf(q)
               /\ pos.deposit_amount = b.deposit_amount
               /\ pos.withdrawal_requested = b.withdrawal_requested
               /\ pos.withdrawal_requested_amount = b.withdrawal_requested_amount
               /\ pos.exists = b.exists
  <1> DEFINE p == AccruedPool(q, b, t)
             pos == AccruedPosition(q, b, t)
  <1>1. p \in PoolType /\ pos \in PositionType
    BY AccruedPoolType, AccruedPositionType
  <1>2. PICK y \in U64 : p = [q EXCEPT !.total_pending_yield = y]
    BY AccruedPoolType
  <1> HIDE DEF p, pos
  <1>4. /\ p.status = q.status
        /\ p.current_total_deposits = q.current_total_deposits
        /\ p.current_utilized = q.current_utilized
        /\ p.total_yield_distributed = q.total_yield_distributed
        /\ p.pending_withdrawal_requests = q.pending_withdrawal_requests
        /\ p.withdrawal_queue_enabled = q.withdrawal_queue_enabled
    BY <1>2 DEF PoolType
  <1>5. TermsOf(p) = TermsOf(q)
    BY <1>2 DEF PoolType, TermsOf, TermFields
  <1>6. /\ pos.deposit_amount = b.deposit_amount
        /\ pos.withdrawal_requested = b.withdrawal_requested
        /\ pos.withdrawal_requested_amount = b.withdrawal_requested_amount
        /\ pos.exists = b.exists
    BY AccruedPositionType DEF pos
  <1> QED  BY <1>1, <1>4, <1>5, <1>6 DEF p, pos

(* A payment of principal keeps the invariant, whichever instruction makes *)
(* it.                                                                     *)
LEMMA PayPrincipalInductive ==
    ASSUME Inductive, PoolExists, NEW d \in Depositors, NEW amount \in Nat,
           AccrualFits(pool, position[d], now),
           amount <= position[d].deposit_amount,
           amount <= AvailableLiquidity(AccruedPool(pool, position[d], now)),
           PayPrincipal(d, AccruedPool(pool, position[d], now),
                        AccruedPosition(pool, position[d], now), amount)
    PROVE  Inductive'
  <1> DEFINE p == AccruedPool(pool, position[d], now)
             pos == AccruedPosition(pool, position[d], now)
  <1>0. TypeOK  BY DEF Inductive
  <1>1. /\ pool \in PoolType /\ position[d] \in PositionType /\ now \in Nat
    BY <1>0 DEF TypeOK
  <1>2. /\ p \in PoolType
        /\ pos \in PositionType
        /\ p.status = pool.status
        /\ p.current_total_deposits = pool.current_total_deposits
        /\ p.current_utilized = pool.current_utilized
        /\ p.total_yield_distributed = pool.total_yield_distributed
        /\ pos.deposit_amount = position[d].deposit_amount
    BY <1>1, AccrualEffect
  <1> HIDE DEF p, pos
  <1>3. amount <= pool.current_total_deposits - pool.current_utilized
    BY <1>2 DEF AvailableLiquidity, p
  <1>4. amount <= p.current_total_deposits /\ amount <= pos.deposit_amount
    BY <1>1, <1>2, <1>3, PoolAssumption DEF PoolType, U64
  <1>5. PayPrincipal(d, p, pos, amount)  BY DEF p, pos
  <1>6. /\ pool' \in PoolType
        /\ pool'.status = p.status
        /\ pool'.current_total_deposits = p.current_total_deposits - amount
        /\ pool'.current_utilized = p.current_utilized
        /\ pool'.total_yield_distributed = p.total_yield_distributed
        /\ position' \in [Depositors -> PositionType]
        /\ vault' = vault - amount
        /\ vault' \in U64
        /\ UNCHANGED <<now, isPaused, operatorAuth, pendingChange, loans, flows>>
    BY <1>0, <1>2, <1>4, <1>5, PayPrincipalEffect
  <1>7. TypeOK'  BY <1>0, <1>6 DEF TypeOK
  <1>8. UtilizedWithinDeposits'
    BY <1>1, <1>2, <1>3, <1>6, PoolAssumption
       DEF UtilizedWithinDeposits, PoolType, U64
  <1>9. UncreatedIsFresh'
    BY <1>2, <1>6 DEF UncreatedIsFresh, PoolExists
  <1>10. VaultMatchesBooks'
    BY <1>0, <1>1, <1>2, <1>6, PoolAssumption
       DEF Inductive, TypeOK, VaultMatchesBooks, AvailableLiquidity, PoolType, U64
  <1>11. UtilizedIsOutside'
    BY <1>2, <1>6 DEF Inductive, UtilizedIsOutside
  <1> QED  BY <1>7, <1>8, <1>9, <1>10, <1>11 DEF Inductive
(* Queueing a request touches the request and its counter.                 *)
LEMMA QueueInductive ==
    ASSUME Inductive, PoolExists, NEW d \in Depositors, NEW p \in PoolType,
           NEW pos \in PositionType, NEW amount \in Nat,
           amount <= pos.deposit_amount,
           p.status = pool.status,
           p.current_total_deposits = pool.current_total_deposits,
           p.current_utilized = pool.current_utilized,
           p.total_yield_distributed = pool.total_yield_distributed,
           QueueRequest(d, p, pos, amount)
    PROVE  Inductive'
  <1>0. U64Max \in Nat  BY PoolAssumption
  <1>1. /\ pool' = [p EXCEPT !.pending_withdrawal_requests = @ + 1]
        /\ p.pending_withdrawal_requests + 1 \in U64
    BY DEF QueueRequest, Fits, U64
  <1>2. pool' \in PoolType  BY <1>1 DEF PoolType
  <1>3. /\ pool'.status = pool.status
        /\ pool'.current_total_deposits = pool.current_total_deposits
        /\ pool'.current_utilized = pool.current_utilized
        /\ pool'.total_yield_distributed = pool.total_yield_distributed
    BY <1>1 DEF PoolType
  <1>4. position' \in [Depositors -> PositionType]
    <2>1. amount \in U64  BY <1>0 DEF PositionType, U64
    <2>2. [pos EXCEPT !.withdrawal_requested = TRUE,
                      !.withdrawal_requested_amount = amount] \in PositionType
      BY <2>1 DEF PositionType
    <2> QED  BY <2>2 DEF QueueRequest, Inductive, TypeOK
  <1>5. UNCHANGED <<now, isPaused, operatorAuth, pendingChange, vault, loans, flows>>
    BY DEF QueueRequest
  <1>6. TypeOK'  BY <1>2, <1>4, <1>5 DEF Inductive, TypeOK
  <1> QED
    BY <1>3, <1>5, <1>6 DEF Inductive, UtilizedWithinDeposits, UncreatedIsFresh,
       PoolExists, VaultMatchesBooks, UtilizedIsOutside, AvailableLiquidity

LEMMA AccruedQueueInductive ==
    ASSUME Inductive, PoolExists, NEW d \in Depositors, NEW amount \in Nat,
           AccrualFits(pool, position[d], now),
           amount <= position[d].deposit_amount,
           QueueRequest(d, AccruedPool(pool, position[d], now),
                        AccruedPosition(pool, position[d], now), amount)
    PROVE  Inductive'
  <1>1. /\ pool \in PoolType /\ position[d] \in PositionType /\ now \in Nat
    BY DEF Inductive, TypeOK
  <1> QED  BY <1>1, AccrualEffect, QueueInductive

-----------------------------------------------------------------------------
(* One lemma per instruction.                                              *)

LEMMA WithdrawInductive ==
    ASSUME Inductive, NEW d \in Depositors, NEW amount \in Nat,
           WithdrawFromPool(d, amount)
    PROVE  Inductive'
  <1> DEFINE p == AccruedPool(pool, position[d], now)
             pos == AccruedPosition(pool, position[d], now)
  <1>1. CASE amount <= AvailableLiquidity(p) /\ PayPrincipal(d, p, pos, amount)
    BY <1>1, PayPrincipalInductive DEF WithdrawFromPool
  <1>2. CASE QueueRequest(d, p, pos, amount)
    BY <1>2, AccruedQueueInductive DEF WithdrawFromPool
  <1> QED  BY <1>1, <1>2 DEF WithdrawFromPool

LEMMA RequestInductive ==
    ASSUME Inductive, NEW d \in Depositors, NEW amount \in Nat,
           RequestPoolWithdrawal(d, amount)
    PROVE  Inductive'
  <1>1. /\ PoolExists
        /\ amount <= position[d].deposit_amount
        /\ QueueRequest(d, pool, position[d], amount)
    BY DEF RequestPoolWithdrawal
  <1>2. /\ pool \in PoolType
        /\ position[d] \in PositionType
    BY DEF Inductive, TypeOK
  <1> QED  BY <1>1, <1>2, QueueInductive

LEMMA ProcessInductive ==
    ASSUME Inductive, NEW d \in Depositors, ProcessPoolWithdrawal(d)
    PROVE  Inductive'
  <1>1. position[d].withdrawal_requested_amount \in Nat
    BY PoolAssumption DEF Inductive, TypeOK, PositionType, U64
  <1> QED  BY <1>1, PayPrincipalInductive DEF ProcessPoolWithdrawal

LEMMA ReturnInductive ==
    ASSUME Inductive, NEW d \in Depositors, OperatorReturnDeposit(d)
    PROVE  Inductive'
  <1> DEFINE p == AccruedPool(pool, position[d], now)
             pos == AccruedPosition(pool, position[d], now)
             amount == Least(Least(pos.deposit_amount, AvailableLiquidity(p)), vault)
  <1>1. /\ pool \in PoolType /\ position[d] \in PositionType
        /\ now \in Nat /\ vault \in U64
    BY DEF Inductive, TypeOK
  <1>2. AccrualFits(pool, position[d], now)  BY DEF OperatorReturnDeposit
  <1>3. /\ pos \in PositionType
        /\ pos.deposit_amount = position[d].deposit_amount
    BY <1>1, <1>2, AccrualEffect
  <1>4. AvailableLiquidity(p) \in U64  BY DEF OperatorReturnDeposit, Fits, U64
  <1> HIDE DEF p, pos
  <1>5. /\ amount \in Nat
        /\ amount <= pos.deposit_amount
        /\ amount <= AvailableLiquidity(p)
    BY <1>1, <1>3, <1>4, PoolAssumption DEF Least, PositionType, U64
  <1>6. PayPrincipal(d, p, pos, amount)
    BY DEF OperatorReturnDeposit, p, pos
  <1>7. PoolExists  BY DEF OperatorReturnDeposit, PoolExists
  <1> HIDE DEF amount
  <1> QED
    BY <1>2, <1>3, <1>5, <1>6, <1>7, PayPrincipalInductive DEF p, pos
LEMMA DepositInductive ==
    ASSUME Inductive, NEW d \in Depositors, NEW amount \in Nat,
           NEW feeRate \in Nat, DepositToPool(d, amount, feeRate)
    PROVE  Inductive'
  <1>0. U64Max \in Nat  BY PoolAssumption
  <1> DEFINE before == IF position[d].exists THEN position[d] ELSE FreshPosition(now)
             p      == AccruedPool(pool, before, now)
             pos    == AccruedPosition(pool, before, now)
             net    == amount - Fee(amount, feeRate)
             funded == [p EXCEPT !.current_total_deposits = @ + net]
             fresh  == RefreshIdleSince(funded, now)
             clear  == PoolWithoutRequest(fresh, pos)
             grown  == [pos EXCEPT !.deposit_amount = @ + net]
  <1>1. /\ pool \in PoolType /\ position[d] \in PositionType
        /\ now \in Nat /\ vault \in U64
    BY DEF Inductive, TypeOK
  <1>2. before \in PositionType
    <2>1. 0 \in U64  BY <1>0 DEF U64
    <2>2. NoPosition \in PositionType  BY <2>1 DEF NoPosition, PositionType
    <2>3. FreshPosition(now) \in PositionType
      BY <1>1, <2>2 DEF FreshPosition, PositionType
    <2> QED  BY <1>1, <2>3
  <1>3. /\ AccrualFits(pool, before, now)
        /\ net \in U64
        /\ pool.current_total_deposits + net \in U64
        /\ pos.deposit_amount + net \in U64
        /\ vault + net \in U64
    BY DEF DepositToPool, Fits, U64
  <1> HIDE DEF before, net
  <1>4. /\ p \in PoolType
        /\ pos \in PositionType
        /\ p.status = pool.status
        /\ p.current_total_deposits = pool.current_total_deposits
        /\ p.current_utilized = pool.current_utilized
        /\ p.total_yield_distributed = pool.total_yield_distributed
    BY <1>1, <1>2, <1>3, AccrualEffect
  <1>5. /\ vault' = vault + net
        /\ pool' = [clear EXCEPT !.num_depositors =
                       IF pos.deposit_amount = 0 THEN @ + 1 ELSE @]
        /\ position' = [position EXCEPT ![d] = PositionWithoutRequest(grown)]
        /\ pool.status = "Active"
        /\ UNCHANGED <<now, isPaused, operatorAuth, pendingChange, loans, flows>>
    BY DEF DepositToPool, before, net
  <1> HIDE DEF p, pos
  <1>6. funded \in PoolType  BY <1>3, <1>4 DEF PoolType
  <1>7. grown \in PositionType  BY <1>3, <1>4 DEF PositionType
  <1>8. PositionWithoutRequest(grown) \in PositionType
    BY <1>6, <1>7, WithoutRequestType
  <1>9. /\ funded.status = pool.status
        /\ funded.current_total_deposits = pool.current_total_deposits + net
        /\ funded.current_utilized = pool.current_utilized
        /\ funded.total_yield_distributed = pool.total_yield_distributed
    BY <1>4 DEF PoolType
  <1> HIDE DEF funded, grown
  <1>10. PICK t \in Nat : fresh = [funded EXCEPT !.idle_since = t] /\ fresh \in PoolType
    BY <1>1, <1>6, RefreshType
  <1> HIDE DEF fresh
  <1>11. PICK c \in U64 : /\ clear = [fresh EXCEPT !.pending_withdrawal_requests = c]
                          /\ clear \in PoolType
    BY <1>4, <1>10, WithoutRequestType
  <1> HIDE DEF clear
  <1>12. clear.num_depositors \in Nat /\ clear.num_depositors + 1 \in Nat
    BY <1>11 DEF PoolType
  <1>13. pool' \in PoolType  BY <1>5, <1>11, <1>12, ZenonT(40) DEF PoolType
  <1>14. /\ pool'.status = pool.status
         /\ pool'.current_total_deposits = pool.current_total_deposits + net
         /\ pool'.current_utilized = pool.current_utilized
         /\ pool'.total_yield_distributed = pool.total_yield_distributed
    BY <1>5, <1>6, <1>9, <1>10, <1>11 DEF PoolType
  <1>15. TypeOK'
    BY <1>3, <1>5, <1>8, <1>13 DEF Inductive, TypeOK
  <1>16. UtilizedWithinDeposits'
    BY <1>0, <1>1, <1>3, <1>14 DEF Inductive, UtilizedWithinDeposits, PoolType, U64
  <1>17. VaultMatchesBooks'
    BY <1>0, <1>1, <1>3, <1>5, <1>14
       DEF Inductive, TypeOK, VaultMatchesBooks, AvailableLiquidity, PoolType, U64
  <1>18. UtilizedIsOutside' /\ UncreatedIsFresh'
    BY <1>5, <1>14 DEF Inductive, UtilizedIsOutside, UncreatedIsFresh
  <1> QED  BY <1>15, <1>16, <1>17, <1>18 DEF Inductive

LEMMA ClaimInductive ==
    ASSUME Inductive, NEW d \in Depositors, NEW byBot, NEW feeRate \in Nat,
           ClaimPoolYield(d, byBot, feeRate)
    PROVE  Inductive'
  <1>0. U64Max \in Nat  BY PoolAssumption
  <1> DEFINE p     == AccruedPool(pool, position[d], now)
             pos   == AccruedPosition(pool, position[d], now)
             yield == pos.accrued_yield
             net   == yield - Fee(yield, feeRate)
  <1>1. /\ pool \in PoolType /\ position[d] \in PositionType
        /\ now \in Nat /\ vault \in U64
    BY DEF Inductive, TypeOK
  <1>2. AccrualFits(pool, position[d], now)  BY DEF ClaimPoolYield
  <1>3. /\ p \in PoolType
        /\ pos \in PositionType
        /\ p.status = pool.status
        /\ p.current_total_deposits = pool.current_total_deposits
        /\ p.current_utilized = pool.current_utilized
        /\ p.total_yield_distributed = pool.total_yield_distributed
    BY <1>1, <1>2, AccrualEffect
  <1>4. /\ pool.status # "Uncreated"
        /\ vault >= yield
        /\ net \in U64
        /\ p.total_pending_yield - yield \in U64
        /\ p.total_yield_distributed + net \in U64
        /\ vault' = vault - yield
        /\ pool' = [p EXCEPT !.total_pending_yield = @ - yield,
                             !.total_yield_distributed = @ + net]
        /\ position' = [position EXCEPT ![d] = [pos EXCEPT !.accrued_yield = 0]]
        /\ flows' = [flows EXCEPT !.yieldFees = @ + (yield - net)]
        /\ UNCHANGED <<now, isPaused, operatorAuth, pendingChange, loans>>
    BY DEF ClaimPoolYield, PoolExists, Fits, U64
  <1>5. yield \in U64  BY <1>3 DEF PositionType
  <1> HIDE DEF p, pos, yield, net
  <1>6. pool' \in PoolType  BY <1>3, <1>4 DEF PoolType
  <1>7. /\ pool'.status = pool.status
        /\ pool'.current_total_deposits = pool.current_total_deposits
        /\ pool'.current_utilized = pool.current_utilized
        /\ pool'.total_yield_distributed = pool.total_yield_distributed + net
    BY <1>3, <1>4 DEF PoolType
  <1>8. position' \in [Depositors -> PositionType]
    <2>1. 0 \in U64  BY <1>0 DEF U64
    <2>2. [pos EXCEPT !.accrued_yield = 0] \in PositionType
      BY <1>3, <2>1 DEF PositionType
    <2> QED  BY <1>4, <2>2 DEF Inductive, TypeOK
  <1>9. /\ vault' \in U64
        /\ flows' \in [interestIn : Nat, refundedIn : Nat, yieldFees : Int]
        /\ flows'.interestIn = flows.interestIn
        /\ flows'.refundedIn = flows.refundedIn
        /\ flows'.yieldFees = flows.yieldFees + (yield - net)
    BY <1>0, <1>1, <1>4, <1>5 DEF Inductive, TypeOK, U64
  <1>10. TypeOK'  BY <1>4, <1>6, <1>8, <1>9 DEF Inductive, TypeOK
  <1>11. VaultMatchesBooks'
    BY <1>0, <1>1, <1>4, <1>5, <1>7, <1>9
       DEF Inductive, TypeOK, VaultMatchesBooks, AvailableLiquidity, PoolType, U64
  <1>12. UtilizedWithinDeposits' /\ UtilizedIsOutside' /\ UncreatedIsFresh'
    BY <1>4, <1>7, <1>9
       DEF Inductive, UtilizedWithinDeposits, UtilizedIsOutside, UncreatedIsFresh
  <1> QED  BY <1>10, <1>11, <1>12 DEF Inductive

LEMMA CompoundInductive ==
    ASSUME Inductive, NEW d \in Depositors, NEW byBot, NEW feeRate \in Nat,
           CompoundPoolYield(d, byBot, feeRate)
    PROVE  Inductive'
  <1>0. U64Max \in Nat  BY PoolAssumption
  <1> DEFINE p     == AccruedPool(pool, position[d], now)
             pos   == AccruedPosition(pool, position[d], now)
             yield == pos.accrued_yield
             fee   == Fee(yield, feeRate)
             net   == yield - fee
  <1>1. /\ pool \in PoolType /\ position[d] \in PositionType
        /\ now \in Nat /\ vault \in U64
    BY DEF Inductive, TypeOK
  <1>2. AccrualFits(pool, position[d], now)  BY DEF CompoundPoolYield
  <1>3. /\ p \in PoolType
        /\ pos \in PositionType
        /\ p.status = pool.status
        /\ p.current_total_deposits = pool.current_total_deposits
        /\ p.current_utilized = pool.current_utilized
        /\ p.total_yield_distributed = pool.total_yield_distributed
    BY <1>1, <1>2, AccrualEffect
  <1>4. yield \in U64 /\ yield \in Nat
    BY <1>0, <1>3 DEF PositionType, U64
  <1>5. fee \in Nat  BY <1>4, FeeIsNat
  <1>6. /\ pool.status # "Uncreated"
        /\ vault >= fee
        /\ net \in U64
        /\ pos.deposit_amount + net \in U64
        /\ p.current_total_deposits + net \in U64
        /\ p.total_pending_yield - yield \in U64
        /\ p.total_yield_distributed + net \in U64
        /\ vault' = vault - fee
        /\ pool' = [p EXCEPT !.current_total_deposits = @ + net,
                             !.total_pending_yield = @ - yield,
                             !.total_yield_distributed = @ + net]
        /\ position' = [position EXCEPT ![d] =
               [pos EXCEPT !.deposit_amount = @ + net, !.accrued_yield = 0]]
        /\ flows' = [flows EXCEPT !.yieldFees = @ + fee]
        /\ UNCHANGED <<now, isPaused, operatorAuth, pendingChange, loans>>
    BY DEF CompoundPoolYield, PoolExists, Fits, U64
  <1>7. net = yield - fee  OBVIOUS
  <1> HIDE DEF p, pos, yield, fee, net
  <1>8. pool' \in PoolType  BY <1>3, <1>6 DEF PoolType
  <1>9. /\ pool'.status = pool.status
        /\ pool'.current_total_deposits = pool.current_total_deposits + net
        /\ pool'.current_utilized = pool.current_utilized
        /\ pool'.total_yield_distributed = pool.total_yield_distributed + net
    BY <1>3, <1>6 DEF PoolType
  <1>10. position' \in [Depositors -> PositionType]
    <2>1. 0 \in U64  BY <1>0 DEF U64
    <2>2. [pos EXCEPT !.deposit_amount = @ + net, !.accrued_yield = 0] \in PositionType
      BY <1>3, <1>6, <2>1 DEF PositionType
    <2> QED  BY <1>6, <2>2 DEF Inductive, TypeOK
  <1>11. /\ vault' \in U64
         /\ flows' \in [interestIn : Nat, refundedIn : Nat, yieldFees : Int]
         /\ flows'.interestIn = flows.interestIn
         /\ flows'.refundedIn = flows.refundedIn
         /\ flows'.yieldFees = flows.yieldFees + fee
    BY <1>0, <1>1, <1>5, <1>6 DEF Inductive, TypeOK, U64
  <1>12. TypeOK'  BY <1>6, <1>8, <1>10, <1>11 DEF Inductive, TypeOK
  <1>13. VaultMatchesBooks' /\ UtilizedWithinDeposits'
    BY <1>0, <1>1, <1>5, <1>6, <1>9, <1>11
       DEF Inductive, TypeOK, VaultMatchesBooks, AvailableLiquidity, PoolType,
           UtilizedWithinDeposits, U64
  <1>14. UtilizedIsOutside' /\ UncreatedIsFresh'
    BY <1>6, <1>9, <1>11 DEF Inductive, UtilizedIsOutside, UncreatedIsFresh
  <1> QED  BY <1>12, <1>13, <1>14 DEF Inductive

-----------------------------------------------------------------------------
(* Instructions that change no total: they keep the invariant as long as   *)
(* they keep the types.                                                    *)
SameOutside(l, m) ==
    m.lent + m.escrowPrincipal + m.writtenOff + l.surplus
        = l.lent + l.escrowPrincipal + l.writtenOff + m.surplus

LEMMA SameTotalsInductive ==
    ASSUME Inductive, TypeOK', UncreatedIsFresh',
           pool'.current_total_deposits = pool.current_total_deposits,
           pool'.current_utilized = pool.current_utilized,
           pool'.total_yield_distributed = pool.total_yield_distributed,
           UNCHANGED <<vault, flows>>,
           loans' = loans \/ SameOutside(loans, loans')
    PROVE  Inductive'
  <1>1. /\ loans \in LoansType /\ loans' \in LoansType
        /\ flows.refundedIn \in Nat /\ pool.current_utilized \in Nat
    BY PoolAssumption DEF Inductive, TypeOK, PoolType, U64
  <1>2. pool.current_utilized + loans.surplus =
           loans.lent + loans.escrowPrincipal
           + loans.writtenOff + flows.refundedIn
    BY DEF Inductive, UtilizedIsOutside
  <1>3. pool'.current_utilized + loans'.surplus =
           loans'.lent + loans'.escrowPrincipal
           + loans'.writtenOff + flows'.refundedIn
    <2>1. CASE loans' = loans  BY <1>2, <2>1
    <2>2. CASE SameOutside(loans, loans')
      <3>1. /\ loans.lent \in Nat /\ loans.escrowPrincipal \in Nat
            /\ loans.writtenOff \in Nat /\ loans.surplus \in Nat
            /\ loans'.lent \in Nat /\ loans'.escrowPrincipal \in Nat
            /\ loans'.writtenOff \in Nat /\ loans'.surplus \in Nat
        BY <1>1 DEF LoansType
      <3>2. /\ pool'.current_utilized = pool.current_utilized
            /\ flows'.refundedIn = flows.refundedIn
        OBVIOUS
      <3> QED  BY <1>1, <1>2, <2>2, <3>1, <3>2 DEF SameOutside
    <2> QED  BY <2>1, <2>2
  <1>4. UtilizedIsOutside'  BY <1>3 DEF UtilizedIsOutside
  <1> QED
    BY <1>4 DEF Inductive, UtilizedWithinDeposits, VaultMatchesBooks,
                AvailableLiquidity

LEMMA CreateInductive ==
    ASSUME Inductive, NEW terms \in Terms, CreatePool(terms)
    PROVE  Inductive'
  <1>1. terms \in TermsType /\ U64Max \in Nat  BY PoolAssumption
  <1>2. pool = NoPool /\ pool \in PoolType /\ now \in Nat
    BY DEF Inductive, TypeOK, UncreatedIsFresh, CreatePool
  <1>3. pool' = [pool EXCEPT
                   !.status                   = "Active",
                   !.created_at               = now,
                   !.idle_since               = now,
                   !.rate_bps                 = terms.rate_bps,
                   !.capacity                 = terms.capacity,
                   !.minimum_deposit          = terms.minimum_deposit,
                   !.allowed_loan_type        = terms.allowed_loan_type,
                   !.min_ltv_bps              = terms.min_ltv_bps,
                   !.max_term_days            = terms.max_term_days,
                   !.withdrawal_queue_enabled = terms.withdrawal_queue_enabled]
    BY <1>2 DEF CreatePool
  <1>4. /\ terms.rate_bps \in Nat /\ terms.capacity \in Nat
        /\ terms.minimum_deposit \in Nat
        /\ terms.allowed_loan_type \in {"Both", "Demand", "Committed"}
        /\ terms.min_ltv_bps \in Nat /\ terms.max_term_days \in Nat
        /\ terms.withdrawal_queue_enabled \in BOOLEAN
    BY <1>1 DEF TermsType
  <1>5. pool' \in PoolType  BY <1>2, <1>3, <1>4, ZenonT(40) DEF PoolType
  <1>6. /\ pool'.status = "Active"
        /\ pool'.current_total_deposits = pool.current_total_deposits
        /\ pool'.current_utilized = pool.current_utilized
        /\ pool'.total_yield_distributed = pool.total_yield_distributed
    BY <1>2, <1>3 DEF PoolType
  <1>7. UNCHANGED <<now, isPaused, operatorAuth, position, pendingChange,
                    vault, loans, flows>>
    BY DEF CreatePool
  <1>8. TypeOK'  BY <1>5, <1>7 DEF Inductive, TypeOK
  <1>9. UncreatedIsFresh'  BY <1>6 DEF UncreatedIsFresh
  <1> QED  BY <1>6, <1>7, <1>8, <1>9, SameTotalsInductive

(* Pausing, resuming and closing change only the status of a created pool. *)
LEMMA StatusInductive ==
    ASSUME Inductive, PoolExists, NEW s \in {"Active", "Paused", "Closed"},
           pool' = [pool EXCEPT !.status = s],
           pendingChange' \in {pendingChange, NoChange},
           UNCHANGED <<now, isPaused, operatorAuth, position, vault, loans, flows>>
    PROVE  Inductive'
  <1>1. pool \in PoolType  BY DEF Inductive, TypeOK
  <1>2. pool' \in PoolType  BY <1>1 DEF PoolType
  <1>3. /\ pool'.status = s
        /\ pool'.current_total_deposits = pool.current_total_deposits
        /\ pool'.current_utilized = pool.current_utilized
        /\ pool'.total_yield_distributed = pool.total_yield_distributed
    BY <1>1 DEF PoolType
  <1>4. TypeOK'  BY <1>2 DEF Inductive, TypeOK
  <1>5. UncreatedIsFresh'  BY <1>3 DEF UncreatedIsFresh
  <1> QED  BY <1>3, <1>4, <1>5, SameTotalsInductive

LEMMA ProposeInductive ==
    ASSUME Inductive, NEW change \in Changes, ProposePoolChanges(change)
    PROVE  Inductive'
  <1>1. now \in Nat /\ now + Timelock \in Nat /\ change \in ChangeType
    BY PoolAssumption DEF Inductive, TypeOK
  <1>2. pendingChange' \in PendingChangeType
    BY <1>1 DEF ProposePoolChanges, PendingChangeType
  <1>3. UNCHANGED <<now, isPaused, operatorAuth, pool, position, vault, loans, flows>>
    BY DEF ProposePoolChanges
  <1>4. TypeOK'  BY <1>2, <1>3 DEF Inductive, TypeOK
  <1>5. UncreatedIsFresh'  BY <1>3 DEF Inductive, UncreatedIsFresh
  <1> QED  BY <1>3, <1>4, <1>5, SameTotalsInductive

LEMMA NewRateType ==
    ASSUME NEW p \in PoolType, NEW rate \in Nat, NEW t \in Nat
    PROVE  /\ WithNewRate(p, rate, t) \in PoolType
           /\ LET q == WithNewRate(p, rate, t)
              IN  /\ q.status = p.status
                  /\ q.current_total_deposits = p.current_total_deposits
                  /\ q.current_utilized = p.current_utilized
                  /\ q.total_yield_distributed = p.total_yield_distributed
  <1> DEFINE entry == [changed_at |-> CurrentRateStart(p), rate_bps |-> p.rate_bps]
             ring  == PushRateHistory(p.rate_history, entry)
  <1>1. p.rate_history \in RingType /\ p.rate_bps \in Nat
    BY DEF PoolType
  <1>2. CurrentRateStart(p) \in Nat  BY DEF PoolType, CurrentRateStart
  <1>3. entry \in RateHistoryEntry  BY <1>1, <1>2 DEF RateHistoryEntry
  <1>4. WithNewRate(p, rate, t) = [p EXCEPT !.rate_history = ring,
                                            !.rate_bps = rate,
                                            !.rate_updated_at = t]
    BY DEF WithNewRate
  <1> HIDE DEF entry
  <1>5. ring \in RingType  BY <1>1, <1>3, PushedRingType
  <1> HIDE DEF ring
  <1> QED  BY <1>4, <1>5, ZenonT(40) DEF PoolType

LEMMA ApplyInductive ==
    ASSUME Inductive, ApplyPoolChanges
    PROVE  Inductive'
  <1> DEFINE change == pendingChange.change
             rated == IF change.rate_bps = Keep THEN pool
                      ELSE WithNewRate(pool, change.rate_bps, now)
             New(f) == IF change[f] = Keep THEN pool[f] ELSE change[f]
  <1>1. /\ pool \in PoolType /\ now \in Nat /\ change \in ChangeType
    BY DEF Inductive, TypeOK, ApplyPoolChanges, PendingChangeType
  <1>2. rated.status = pool.status /\ rated \in PoolType
        /\ rated.current_total_deposits = pool.current_total_deposits
        /\ rated.current_utilized = pool.current_utilized
        /\ rated.total_yield_distributed = pool.total_yield_distributed
    <2>1. CASE change.rate_bps = Keep  BY <1>1, <2>1
    <2>2. CASE change.rate_bps # Keep
      <3>1. change.rate_bps \in Nat  BY <1>1, <2>2 DEF ChangeType
      <3>2. rated = WithNewRate(pool, change.rate_bps, now)  BY <2>2
      <3> QED  BY <1>1, <3>1, <3>2, NewRateType
    <2> QED  BY <2>1, <2>2
  <1>3. /\ New("capacity") \in Nat /\ New("minimum_deposit") \in Nat
        /\ New("min_ltv_bps") \in Nat /\ New("max_term_days") \in Nat
        /\ New("allowed_loan_type") \in {"Both", "Demand", "Committed"}
        /\ New("withdrawal_queue_enabled") \in BOOLEAN
    BY <1>1 DEF ChangeType, PoolType
  <1>4. /\ pool' = [rated EXCEPT
            !.capacity                 = New("capacity"),
            !.minimum_deposit          = New("minimum_deposit"),
            !.allowed_loan_type        = New("allowed_loan_type"),
            !.min_ltv_bps              = New("min_ltv_bps"),
            !.max_term_days            = New("max_term_days"),
            !.withdrawal_queue_enabled = New("withdrawal_queue_enabled")]
        /\ PoolExists
        /\ pendingChange' = NoChange
        /\ UNCHANGED <<now, isPaused, operatorAuth, position, vault, loans, flows>>
    BY DEF ApplyPoolChanges, PoolWithChange
  <1> HIDE DEF change, rated, New
  <1>5. pool' \in PoolType  BY <1>2, <1>3, <1>4 DEF PoolType
  <1>6. /\ pool'.status = pool.status
        /\ pool'.current_total_deposits = pool.current_total_deposits
        /\ pool'.current_utilized = pool.current_utilized
        /\ pool'.total_yield_distributed = pool.total_yield_distributed
    BY <1>2, <1>4 DEF PoolType
  <1>7. TypeOK'  BY <1>4, <1>5 DEF Inductive, TypeOK
  <1>8. UncreatedIsFresh'  BY <1>4, <1>6 DEF PoolExists, UncreatedIsFresh
  <1> QED  BY <1>4, <1>6, <1>7, <1>8, SameTotalsInductive

LEMMA DeployInductive ==
    ASSUME Inductive, NEW amount \in Nat, NEW contract,
           PoolDeployToContract(amount, contract)
    PROVE  Inductive'
  <1>0. U64Max \in Nat  BY PoolAssumption
  <1>1. /\ pool \in PoolType /\ vault \in U64
        /\ loans \in LoansType
        /\ flows \in [interestIn : Nat, refundedIn : Nat, yieldFees : Int]
    BY DEF Inductive, TypeOK
  <1>2. /\ pool' = [pool EXCEPT !.current_utilized = @ + amount]
        /\ loans' = [loans EXCEPT !.lent = @ + amount]
        /\ vault' = vault - amount
        /\ amount <= vault
        /\ amount <= pool.current_total_deposits - pool.current_utilized
        /\ pool.current_utilized + amount \in U64
        /\ pool.status = "Active"
        /\ UNCHANGED <<now, isPaused, operatorAuth, position, pendingChange, flows>>
    BY DEF PoolDeployToContract, AvailableLiquidity, Fits, U64
  <1>3. pool' \in PoolType  BY <1>1, <1>2 DEF PoolType
  <1>4. /\ pool'.status = "Active"
        /\ pool'.current_total_deposits = pool.current_total_deposits
        /\ pool'.current_utilized = pool.current_utilized + amount
        /\ pool'.total_yield_distributed = pool.total_yield_distributed
    BY <1>1, <1>2 DEF PoolType
  <1>5. vault' \in U64  BY <1>0, <1>1, <1>2 DEF U64
  <1>6. TypeOK'  BY <1>1, <1>2, <1>3, <1>5 DEF Inductive, TypeOK, LoansType
  <1>7. /\ UtilizedWithinDeposits' /\ VaultMatchesBooks' /\ UtilizedIsOutside'
        /\ UncreatedIsFresh'
    BY <1>0, <1>1, <1>2, <1>4
       DEF Inductive, UtilizedWithinDeposits, VaultMatchesBooks, PoolType, U64,
           AvailableLiquidity, UtilizedIsOutside, UncreatedIsFresh,
           LoansType
  <1> QED  BY <1>6, <1>7 DEF Inductive

LEMMA ClaimFromEscrowInductive ==
    ASSUME Inductive, NEW principal \in 0 .. loans.escrowPrincipal,
           NEW interest \in 0 .. loans.escrowInterest,
           PoolClaimFromEscrow(principal, interest)
    PROVE  Inductive'
  <1>0. U64Max \in Nat  BY PoolAssumption
  <1> DEFINE total    == principal + interest
             utilized == pool.current_utilized - principal
             claimed  == [pool EXCEPT !.current_utilized = utilized]
  <1>1. /\ pool \in PoolType /\ vault \in U64 /\ now \in Nat
        /\ loans \in LoansType
        /\ flows \in [interestIn : Nat, refundedIn : Nat, yieldFees : Int]
    BY DEF Inductive, TypeOK
  <1>1a. /\ principal \in Nat /\ interest \in Nat
         /\ loans.escrowPrincipal - principal \in Nat
         /\ loans.escrowInterest - interest \in Nat
    BY <1>1 DEF LoansType
  <1>2. /\ PoolExists
        /\ vault + total \in U64
        /\ utilized \in U64
        /\ vault' = vault + total
        /\ pool' = RefreshIdleSince(claimed, now)
        /\ loans' = [loans EXCEPT !.escrowPrincipal = @ - principal,
                                  !.escrowInterest = @ - interest]
        /\ flows' = [flows EXCEPT !.interestIn = @ + interest]
        /\ UNCHANGED <<now, isPaused, operatorAuth, position, pendingChange>>
    BY DEF PoolClaimFromEscrow, Fits, U64
  <1>3. claimed \in PoolType  BY <1>1, <1>2 DEF PoolType
  <1>4. /\ claimed.status = pool.status
        /\ claimed.current_total_deposits = pool.current_total_deposits
        /\ claimed.current_utilized = utilized
        /\ claimed.total_yield_distributed = pool.total_yield_distributed
    BY <1>1 DEF PoolType
  <1> HIDE DEF claimed
  <1>5. PICK i \in Nat : pool' = [claimed EXCEPT !.idle_since = i] /\ pool' \in PoolType
    BY <1>1, <1>2, <1>3, RefreshType
  <1>6. /\ pool'.status = pool.status
        /\ pool'.current_total_deposits = pool.current_total_deposits
        /\ pool'.current_utilized = utilized
        /\ pool'.total_yield_distributed = pool.total_yield_distributed
    BY <1>3, <1>4, <1>5 DEF PoolType
  <1>7. TypeOK'
    <2>1. vault' \in U64  BY <1>2
    <2>2. loans' \in LoansType
      BY <1>1, <1>1a, <1>2 DEF LoansType
    <2>3. flows' \in [interestIn : Nat, refundedIn : Nat, yieldFees : Int]
      <3>1. flows.interestIn + interest \in Nat  BY <1>1, <1>1a
      <3> QED  BY <1>1, <1>2, <3>1
    <2> QED  BY <1>2, <1>5, <2>1, <2>2, <2>3 DEF Inductive, TypeOK
  <1>8. UncreatedIsFresh'  BY <1>2, <1>6 DEF UncreatedIsFresh, PoolExists
  <1>9. /\ UtilizedWithinDeposits' /\ VaultMatchesBooks' /\ UtilizedIsOutside'
    BY <1>0, <1>1, <1>1a, <1>2, <1>6
       DEF Inductive, UtilizedWithinDeposits, VaultMatchesBooks, PoolType, U64,
           AvailableLiquidity, UtilizedIsOutside, LoansType
  <1> QED  BY <1>7, <1>8, <1>9 DEF Inductive

LEMMA RepaysPrincipalInductive ==
    ASSUME Inductive, NEW amount \in Nat, NEW back \in 0 .. amount,
           ContractRepaysPrincipal(amount, back)
    PROVE  Inductive'
  <1> DEFINE a == loans.lent - back
             b == loans.escrowPrincipal + amount
             c == loans.surplus + (amount - back)
  <1>1. /\ loans \in LoansType /\ back \in Nat
        /\ back <= loans.lent /\ back <= amount
    BY DEF Inductive, TypeOK, ContractRepaysPrincipal, Least, LoansType
  <1>2. /\ loans' = [loans EXCEPT !.lent = a, !.escrowPrincipal = b, !.surplus = c]
        /\ UNCHANGED <<now, isPaused, operatorAuth, pool, position,
                       pendingChange, vault, flows>>
    BY DEF ContractRepaysPrincipal
  <1>3. a \in Nat /\ b \in Nat /\ c \in Nat  BY <1>1 DEF LoansType
  <1>4. a + b + loans.surplus = loans.lent + loans.escrowPrincipal + c
    BY <1>1 DEF LoansType
  <1> HIDE DEF a, b, c
  <1>5. /\ loans' \in LoansType
        /\ loans'.lent = a /\ loans'.escrowPrincipal = b /\ loans'.surplus = c
        /\ loans'.writtenOff = loans.writtenOff
    BY <1>1, <1>2, <1>3 DEF LoansType
  <1>6. SameOutside(loans, loans')
    BY <1>1, <1>3, <1>4, <1>5 DEF SameOutside, LoansType
  <1>7. TypeOK'  BY <1>2, <1>5 DEF Inductive, TypeOK
  <1>8. UncreatedIsFresh'  BY <1>2 DEF Inductive, UncreatedIsFresh
  <1> QED  BY <1>2, <1>6, <1>7, <1>8, SameTotalsInductive

LEMMA DefaultInductive ==
    ASSUME Inductive, NEW amount \in Nat, ContractDefaults(amount)
    PROVE  Inductive'
  <1> DEFINE a == loans.lent - amount
             b == loans.writtenOff + amount
  <1>1. loans \in LoansType /\ amount <= loans.lent
    BY DEF Inductive, TypeOK, ContractDefaults
  <1>2. /\ loans' = [loans EXCEPT !.lent = a, !.writtenOff = b]
        /\ UNCHANGED <<now, isPaused, operatorAuth, pool, position,
                       pendingChange, vault, flows>>
    BY DEF ContractDefaults
  <1>3. a \in Nat /\ b \in Nat  BY <1>1 DEF LoansType
  <1>4. a + b = loans.lent + loans.writtenOff  BY <1>1 DEF LoansType
  <1> HIDE DEF a, b
  <1>5. /\ loans' \in LoansType
        /\ loans'.lent = a /\ loans'.writtenOff = b
        /\ loans'.escrowPrincipal = loans.escrowPrincipal
        /\ loans'.surplus = loans.surplus
    BY <1>1, <1>2, <1>3 DEF LoansType
  <1>6. SameOutside(loans, loans')
    BY <1>1, <1>3, <1>4, <1>5 DEF SameOutside, LoansType
  <1>7. TypeOK'  BY <1>2, <1>5 DEF Inductive, TypeOK
  <1>8. UncreatedIsFresh'  BY <1>2 DEF Inductive, UncreatedIsFresh
  <1> QED  BY <1>2, <1>6, <1>7, <1>8, SameTotalsInductive

LEMMA PaysInterestInductive ==
    ASSUME Inductive, NEW amount \in Nat, ContractPaysInterest(amount)
    PROVE  Inductive'
  <1>1. loans \in LoansType
    BY DEF Inductive, TypeOK
  <1>2. /\ loans' \in LoansType
        /\ SameOutside(loans, loans')
    BY <1>1 DEF ContractPaysInterest, LoansType, SameOutside
  <1>3. UNCHANGED <<now, isPaused, operatorAuth, pool, position, pendingChange,
                    vault, flows>>
    BY DEF ContractPaysInterest
  <1>4. TypeOK'  BY <1>2, <1>3 DEF Inductive, TypeOK
  <1>5. UncreatedIsFresh'  BY <1>3 DEF Inductive, UncreatedIsFresh
  <1> QED  BY <1>2, <1>3, <1>4, <1>5, SameTotalsInductive

LEMMA RefundInductive ==
    ASSUME Inductive, NEW amount \in Nat, BotRefundExpiredLender(amount)
    PROVE  Inductive'
  <1>0. U64Max \in Nat  BY PoolAssumption
  <1>1. /\ pool \in PoolType /\ vault \in U64
        /\ loans \in LoansType
        /\ flows \in [interestIn : Nat, refundedIn : Nat, yieldFees : Int]
    BY DEF Inductive, TypeOK
  <1>2. /\ amount \in 1 .. loans.lent
        /\ vault + amount \in U64
        /\ vault' = vault + amount
        /\ loans' = [loans EXCEPT !.lent = @ - amount]
        /\ flows' = [flows EXCEPT !.refundedIn = @ + amount]
        /\ UNCHANGED <<now, isPaused, operatorAuth, pool, position, pendingChange>>
    BY DEF BotRefundExpiredLender, Fits, U64
  <1>3. TypeOK'  BY <1>1, <1>2 DEF Inductive, TypeOK, LoansType
  <1>4. VaultMatchesBooks'
    BY <1>0, <1>1, <1>2
       DEF Inductive, VaultMatchesBooks, AvailableLiquidity, PoolType, U64
  <1>5. UtilizedIsOutside'
    BY <1>0, <1>1, <1>2
       DEF Inductive, UtilizedIsOutside, PoolType, U64, LoansType
  <1>6. UtilizedWithinDeposits' /\ UncreatedIsFresh'
    BY <1>2 DEF Inductive, UtilizedWithinDeposits, UncreatedIsFresh
  <1> QED  BY <1>3, <1>4, <1>5, <1>6 DEF Inductive

LEMMA SetPreferenceInductive ==
    ASSUME Inductive, NEW d \in Depositors, NEW preference \in Preferences,
           SetYieldPreference(d, preference)
    PROVE  Inductive'
  <1>1. preference \in {"Compound", "Claim"}  BY PoolAssumption
  <1>2. [position[d] EXCEPT !.yield_preference = preference] \in PositionType
    BY <1>1 DEF Inductive, TypeOK, PositionType
  <1>3. /\ position' = [position EXCEPT ![d] =
                           [position[d] EXCEPT !.yield_preference = preference]]
        /\ UNCHANGED <<now, isPaused, operatorAuth, pool, pendingChange,
                       vault, loans, flows>>
    BY DEF SetYieldPreference
  <1>4. TypeOK'  BY <1>2, <1>3 DEF Inductive, TypeOK
  <1>5. UncreatedIsFresh'  BY <1>3 DEF Inductive, UncreatedIsFresh
  <1> QED  BY <1>3, <1>4, <1>5, SameTotalsInductive

(* Steps that leave the pool and everything it owns alone.                 *)
LEMMA ElsewhereInductive ==
    ASSUME Inductive,
           UNCHANGED <<pool, position, vault, loans, flows>>,
           now' \in Nat, isPaused' \in BOOLEAN, operatorAuth' \in BOOLEAN,
           pendingChange' \in {pendingChange, NoChange}
    PROVE  Inductive'
  <1>1. TypeOK'  BY DEF Inductive, TypeOK
  <1>2. UncreatedIsFresh'  BY DEF Inductive, UncreatedIsFresh
  <1> QED  BY <1>1, <1>2, SameTotalsInductive

-----------------------------------------------------------------------------
LEMMA OperatorInductive == Inductive /\ OperatorStep => Inductive'
  <1> SUFFICES ASSUME Inductive, OperatorStep PROVE Inductive'
    OBVIOUS
  <1>0. TypeOK  BY DEF Inductive
  <1>1. CASE AuthorizePoolOperator \/ RevokePoolOperator \/ CancelPoolChanges
    BY <1>0, <1>1, ElsewhereInductive
       DEF AuthorizePoolOperator, RevokePoolOperator, CancelPoolChanges, TypeOK
  <1>2. ASSUME NEW terms \in Terms, CreatePool(terms) PROVE Inductive'
    BY <1>2, CreateInductive
  <1>3. CASE PausePool \/ ResumePool
    BY <1>3, StatusInductive DEF PausePool, ResumePool, PoolExists
  <1>4. CASE ClosePool \/ ExpireIdlePool
    BY <1>4, StatusInductive DEF ClosePool, ExpireIdlePool
  <1>5. ASSUME NEW change \in Changes, ProposePoolChanges(change) PROVE Inductive'
    BY <1>5, ProposeInductive
  <1>6. CASE ApplyPoolChanges  BY <1>6, ApplyInductive
  <1>7. ASSUME NEW amount \in Amounts, NEW contract \in ContractTerms,
               PoolDeployToContract(amount, contract)
        PROVE  Inductive'
    BY <1>7, DeployInductive, PoolAssumption
  <1>8. ASSUME NEW principal \in 0 .. loans.escrowPrincipal,
               NEW interest \in 0 .. loans.escrowInterest,
               PoolClaimFromEscrow(principal, interest)
        PROVE  Inductive'
    BY <1>8, ClaimFromEscrowInductive
  <1> QED
    BY <1>1, <1>2, <1>3, <1>4, <1>5, <1>6, <1>7, <1>8 DEF OperatorStep

LEMMA DepositorInductive ==
    ASSUME Inductive, NEW d \in Depositors, DepositorStep(d)
    PROVE  Inductive'
  <1>1. ASSUME NEW amount \in Amounts, NEW feeRate \in DepositFees,
               DepositToPool(d, amount, feeRate)
        PROVE  Inductive'
    BY <1>1, DepositInductive, PoolAssumption
  <1>2. ASSUME NEW amount \in Amounts, WithdrawFromPool(d, amount)
        PROVE  Inductive'
    BY <1>2, WithdrawInductive, PoolAssumption
  <1>3. ASSUME NEW amount \in Amounts, RequestPoolWithdrawal(d, amount)
        PROVE  Inductive'
    BY <1>3, RequestInductive, PoolAssumption
  <1>4. CASE ProcessPoolWithdrawal(d)  BY <1>4, ProcessInductive
  <1>5. CASE OperatorReturnDeposit(d)  BY <1>5, ReturnInductive
  <1>6. ASSUME NEW preference \in Preferences, SetYieldPreference(d, preference)
        PROVE  Inductive'
    BY <1>6, SetPreferenceInductive
  <1>7. ASSUME NEW byBot \in BOOLEAN, NEW feeRate \in YieldFees,
               ClaimPoolYield(d, byBot, feeRate)
        PROVE  Inductive'
    BY <1>7, ClaimInductive, PoolAssumption
  <1>8. ASSUME NEW byBot \in BOOLEAN, NEW feeRate \in YieldFees,
               CompoundPoolYield(d, byBot, feeRate)
        PROVE  Inductive'
    BY <1>8, CompoundInductive, PoolAssumption
  <1> QED
    BY <1>1, <1>2, <1>3, <1>4, <1>5, <1>6, <1>7, <1>8 DEF DepositorStep

LEMMA OutsideInductive == Inductive /\ OutsideStep => Inductive'
  <1> SUFFICES ASSUME Inductive, OutsideStep PROVE Inductive'
    OBVIOUS
  <1>1. ASSUME NEW amount \in Amounts, NEW back \in 0 .. amount,
               ContractRepaysPrincipal(amount, back)
        PROVE  Inductive'
    BY <1>1, RepaysPrincipalInductive, PoolAssumption
  <1>1a. ASSUME NEW amount \in Amounts, ContractDefaults(amount)
         PROVE  Inductive'
    BY <1>1a, DefaultInductive, PoolAssumption
  <1>2. ASSUME NEW amount \in Amounts, ContractPaysInterest(amount)
        PROVE  Inductive'
    BY <1>2, PaysInterestInductive, PoolAssumption
  <1>3. ASSUME NEW amount \in Amounts, BotRefundExpiredLender(amount)
        PROVE  Inductive'
    BY <1>3, RefundInductive, PoolAssumption
  <1>4. CASE SetPlatformPaused
    <2>1. isPaused' \in BOOLEAN  BY <1>4 DEF SetPlatformPaused
    <2> QED
      BY <1>4, <2>1, ElsewhereInductive DEF SetPlatformPaused, Inductive, TypeOK
  <1>5. CASE Tick
    <2>1. now' \in Nat  BY <1>5 DEF Tick, Inductive, TypeOK
    <2> QED  BY <1>5, <2>1, ElsewhereInductive DEF Tick, Inductive, TypeOK
  <1> QED  BY <1>1, <1>1a, <1>2, <1>3, <1>4, <1>5 DEF OutsideStep

LEMMA InitInductive == Init => Inductive
  <1> SUFFICES ASSUME Init PROVE Inductive
    OBVIOUS
  <1>1. U64Max \in Nat /\ 0 \in U64  BY PoolAssumption DEF U64
  <1>2. EmptyRing \in RingType
    BY RateHistoryAssumption DEF EmptyRing, RingType, RateHistoryEntry
  <1>3. NoPool \in PoolType  BY <1>1, <1>2 DEF NoPool, PoolType
  <1>4. NoPosition \in PositionType  BY <1>1 DEF NoPosition, PositionType
  <1>5. TypeOK
    <2>1. position \in [Depositors -> PositionType]  BY <1>4 DEF Init
    <2>2. /\ loans \in LoansType
          /\ flows \in [interestIn : Nat, refundedIn : Nat, yieldFees : Int]
      BY DEF Init, LoansType
    <2>3. isPaused \in BOOLEAN /\ operatorAuth \in BOOLEAN  BY DEF Init
    <2>4. now \in Nat /\ vault \in U64 /\ pool \in PoolType
      BY <1>1, <1>3 DEF Init
    <2>5. pendingChange \in PendingChangeType \cup {NoChange}  BY DEF Init
    <2> QED  BY <2>1, <2>2, <2>3, <2>4, <2>5 DEF TypeOK
  <1>6. /\ pool.current_total_deposits = 0 /\ pool.current_utilized = 0
        /\ pool.total_yield_distributed = 0 /\ pool = NoPool
    BY DEF Init, NoPool
  <1> QED
    BY <1>5, <1>6 DEF Init, Inductive, UtilizedWithinDeposits, UncreatedIsFresh,
       VaultMatchesBooks, AvailableLiquidity, UtilizedIsOutside

LEMMA NextInductive == Inductive /\ [Next]_vars => Inductive'
  <1> SUFFICES ASSUME Inductive, [Next]_vars PROVE Inductive'
    OBVIOUS
  <1>1. CASE OperatorStep  BY <1>1, OperatorInductive
  <1>2. ASSUME NEW d \in Depositors, DepositorStep(d) PROVE Inductive'
    BY <1>2, DepositorInductive
  <1>3. CASE OutsideStep  BY <1>3, OutsideInductive
  <1>4. CASE UNCHANGED vars
    BY <1>4, ElsewhereInductive DEF vars, Inductive, TypeOK
  <1> QED  BY <1>1, <1>2, <1>3, <1>4 DEF Next

(* The pool's reachable states satisfy the inductive invariant.            *)
THEOREM PoolInvariant == Spec => []Inductive
  BY InitInductive, NextInductive, PTL DEF Spec

(* Every reachable state is well typed: above all, every counter and       *)
(* balance of the pool is a u64 and no subtraction went below zero.        *)
THEOREM PoolTypes == Spec => []TypeOK
  BY PoolInvariant, PTL DEF Inductive

(* Whatever is deposited, lent, repaid, lost, compounded and paid out, and *)
(* for every rate, fee and capacity, the pool never has more out on loan   *)
(* than its depositors have in it.                                         *)
THEOREM LoansWithinDeposits == Spec => []UtilizedWithinDeposits
  BY PoolInvariant, PTL DEF Inductive

(* The token account of the pool always holds what its books say.          *)
THEOREM VaultIsAccountedFor == Spec => []VaultMatchesBooks
  BY PoolInvariant, PTL DEF Inductive

(* The utilisation is always the principal that did not come back through  *)
(* pool_claim_from_escrow, less what was credited as principal beyond what *)
(* was lent: the claim's subtraction can fail for that surplus only.       *)
THEOREM UtilizationIsAccountedFor == Spec => []UtilizedIsOutside
  BY PoolInvariant, PTL DEF Inductive
-----------------------------------------------------------------------------
(* The sums behind the pool's two running totals.                          *)
DepositTotal(q) == MapThenSumSet(LAMBDA d : q[d].deposit_amount, Depositors)

DepositsOf(q) == [d \in Depositors |-> q[d].deposit_amount]

AccruedTotal(q) == MapThenSumSet(LAMBDA d : q[d].accrued_yield, Depositors)

AccruedOf(q) == [d \in Depositors |-> q[d].accrued_yield]

LEMMA DepositTotalIs ==
    ASSUME NEW q
    PROVE  DepositTotal(q) = Total(DepositsOf(q), Depositors)
  <1> DEFINE f == DepositsOf(q)
             Step(g, s) == IF s = {} THEN 0
                           ELSE q[Picked(s)].deposit_amount + g[s \ {Picked(s)}]
             IsStep(g) == g = [s \in SUBSET Depositors |-> Step(g, s)]
  <1>0. IsFiniteSet(Depositors)  BY PoolAssumption
  <1>1. DepositTotal(q) = (CHOOSE g : IsStep(g))[Depositors]
    BY DEF DepositTotal, MapThenSumSet, MapThenFoldSet, Picked
  <1>2. \A g : \A s \in SUBSET Depositors : NextSum(f, g, s) = Step(g, s)
    BY DEF NextSum, Picked, DepositsOf
  <1> HIDE DEF f, Step
  <1>3. \A g : IsSum(f, Depositors, g) <=> IsStep(g)  BY <1>2 DEF IsSum
  <1>4. PICK g : IsSum(f, Depositors, g)  BY <1>0, SumExists
  <1>5. \E h : IsStep(h)  BY <1>3, <1>4
  <1> HIDE DEF IsStep
  <1>6. IsStep(CHOOSE h : IsStep(h))  BY <1>5
  <1>7. IsSum(f, Depositors, CHOOSE h : IsStep(h))  BY <1>3, <1>6
  <1> QED  BY <1>0, <1>1, <1>7, TotalIs DEF f

LEMMA AccruedTotalIs ==
    ASSUME NEW q
    PROVE  AccruedTotal(q) = Total(AccruedOf(q), Depositors)
  <1> DEFINE f == AccruedOf(q)
             Step(g, s) == IF s = {} THEN 0
                           ELSE q[Picked(s)].accrued_yield + g[s \ {Picked(s)}]
             IsStep(g) == g = [s \in SUBSET Depositors |-> Step(g, s)]
  <1>0. IsFiniteSet(Depositors)  BY PoolAssumption
  <1>1. AccruedTotal(q) = (CHOOSE g : IsStep(g))[Depositors]
    BY DEF AccruedTotal, MapThenSumSet, MapThenFoldSet, Picked
  <1>2. \A g : \A s \in SUBSET Depositors : NextSum(f, g, s) = Step(g, s)
    BY DEF NextSum, Picked, AccruedOf
  <1> HIDE DEF f, Step
  <1>3. \A g : IsSum(f, Depositors, g) <=> IsStep(g)  BY <1>2 DEF IsSum
  <1>4. PICK g : IsSum(f, Depositors, g)  BY <1>0, SumExists
  <1>5. \E h : IsStep(h)  BY <1>3, <1>4
  <1> HIDE DEF IsStep
  <1>6. IsStep(CHOOSE h : IsStep(h))  BY <1>5
  <1>7. IsSum(f, Depositors, CHOOSE h : IsStep(h))  BY <1>3, <1>6
  <1> QED  BY <1>0, <1>1, <1>7, TotalIs DEF f

TotalsAre(p, q) ==
    /\ p.current_total_deposits = DepositTotal(q)
    /\ p.total_pending_yield = AccruedTotal(q)

LEMMA TotalsAreSumsIs == TotalsAreSums <=> TotalsAre(pool, position)
  BY DEF TotalsAreSums, TotalsAre, DepositTotal, AccruedTotal, MapThenSumSet,
         MapThenFoldSet

(* A depositor who was never there has nothing in the pool.                *)
AbsentIsEmpty ==
    \A d \in Depositors :
        ~position[d].exists =>
            /\ position[d].deposit_amount = 0
            /\ position[d].accrued_yield = 0
            /\ ~position[d].withdrawal_requested

(* What is inductive about the depositors' side of the books.              *)
DepositBooks ==
    /\ TotalsAre(pool, position)
    /\ QueueCountExact
    /\ QueueNeverStranded
    /\ AbsentIsEmpty

(* What an instruction of depositor d does: nobody else's deposit changes, *)
(* and the pool's totals and counter follow d's deposit.                   *)
QueueMove(d) ==
    IF position'[d].withdrawal_requested
    THEN IF position[d].withdrawal_requested THEN 0 ELSE 1
    ELSE IF position[d].withdrawal_requested THEN -1 ELSE 0

BooksFollow(d) ==
    /\ \A e \in Depositors \ {d} : position'[e] = position[e]
    /\ pool'.current_total_deposits =
         pool.current_total_deposits - position[d].deposit_amount
           + position'[d].deposit_amount
    /\ pool'.total_pending_yield =
         pool.total_pending_yield - position[d].accrued_yield
           + position'[d].accrued_yield
    /\ pool'.pending_withdrawal_requests =
         pool.pending_withdrawal_requests + QueueMove(d)
    /\ pool'.withdrawal_queue_enabled = pool.withdrawal_queue_enabled
    /\ position'[d].withdrawal_requested =>
         /\ pool.withdrawal_queue_enabled
         /\ position'[d].withdrawal_requested_amount
               \in 1 .. position'[d].deposit_amount
    /\ position'[d].exists

LEMMA PositionNumbers ==
    ASSUME NEW q \in [Depositors -> PositionType], NEW d \in Depositors
    PROVE  /\ q[d].deposit_amount \in Nat /\ q[d].accrued_yield \in Nat
           /\ DepositsOf(q)[d] = q[d].deposit_amount
           /\ AccruedOf(q)[d] = q[d].accrued_yield
  BY PoolAssumption DEF PositionType, U64, DepositsOf, AccruedOf

LEMMA TotalsFollow ==
    ASSUME TypeOK, TypeOK', NEW d \in Depositors, BooksFollow(d),
           TotalsAre(pool, position)
    PROVE  TotalsAre(pool', position')
  <1>0. /\ IsFiniteSet(Depositors)
        /\ position \in [Depositors -> PositionType]
        /\ position' \in [Depositors -> PositionType]
    BY PoolAssumption DEF TypeOK
  <1>1. pool'.current_total_deposits = DepositTotal(position')
    <2> DEFINE f == DepositsOf(position)
               e == DepositsOf(position')
    <2>1. \A x \in Depositors : f[x] \in Nat /\ e[x] \in Nat
      BY <1>0, PositionNumbers
    <2>2. \A x \in Depositors \ {d} : e[x] = f[x]
      BY DEF BooksFollow, DepositsOf
    <2>3. pool'.current_total_deposits = Total(f, Depositors) - f[d] + e[d]
      BY <1>0, DepositTotalIs, PositionNumbers DEF BooksFollow, TotalsAre
    <2>4. DepositTotal(position') = Total(e, Depositors)  BY DepositTotalIs
    <2> HIDE DEF f, e
    <2>5. Total(e, Depositors) = Total(f, Depositors) - f[d] + e[d]
      BY <1>0, <2>1, <2>2, TotalChange
    <2> QED  BY <2>3, <2>4, <2>5
  <1>2. pool'.total_pending_yield = AccruedTotal(position')
    <2> DEFINE f == AccruedOf(position)
               e == AccruedOf(position')
    <2>1. \A x \in Depositors : f[x] \in Nat /\ e[x] \in Nat
      BY <1>0, PositionNumbers
    <2>2. \A x \in Depositors \ {d} : e[x] = f[x]
      BY DEF BooksFollow, AccruedOf
    <2>3. pool'.total_pending_yield = Total(f, Depositors) - f[d] + e[d]
      BY <1>0, AccruedTotalIs, PositionNumbers DEF BooksFollow, TotalsAre
    <2>4. AccruedTotal(position') = Total(e, Depositors)  BY AccruedTotalIs
    <2> HIDE DEF f, e
    <2>5. Total(e, Depositors) = Total(f, Depositors) - f[d] + e[d]
      BY <1>0, <2>1, <2>2, TotalChange
    <2> QED  BY <2>3, <2>4, <2>5
  <1> QED  BY <1>1, <1>2 DEF TotalsAre

LEMMA QueueFollows ==
    ASSUME NEW d \in Depositors, BooksFollow(d), QueueCountExact
    PROVE  QueueCountExact'
  <1> DEFINE new == {e \in Depositors : position'[e].withdrawal_requested}
  <1>1. /\ IsFiniteSet(Queued) /\ IsFiniteSet(new)
        /\ Cardinality(Queued) \in Nat
    BY PoolAssumption, FS_Subset, FS_CardinalityType DEF Queued
  <1>2. \A e \in Depositors \ {d} : e \in new <=> e \in Queued
    BY DEF BooksFollow, Queued
  <1>3. d \in new <=> position'[d].withdrawal_requested  OBVIOUS
  <1>4. d \in Queued <=> position[d].withdrawal_requested  BY DEF Queued
  <1>5. new \subseteq Depositors /\ Queued \subseteq Depositors  BY DEF Queued
  <1>6. Queued' = new  BY DEF Queued
  <1> HIDE DEF new
  <1>7. Cardinality(new) = Cardinality(Queued) + QueueMove(d)
    <2>1. CASE d \in new <=> d \in Queued
      <3>1. new = Queued  BY <1>2, <1>5, <2>1
      <3>2. QueueMove(d) = 0  BY <1>3, <1>4, <2>1 DEF QueueMove
      <3> QED  BY <1>1, <3>1, <3>2
    <2>2. CASE d \in new /\ d \notin Queued
      <3>1. new = Queued \union {d}  BY <1>2, <1>5, <2>2
      <3>2. Cardinality(new) = Cardinality(Queued) + 1
        BY <1>1, <2>2, <3>1, FS_AddElement
      <3>3. QueueMove(d) = 1  BY <1>3, <1>4, <2>2 DEF QueueMove
      <3> QED  BY <3>2, <3>3
    <2>3. CASE d \notin new /\ d \in Queued
      <3>1. new = Queued \ {d}  BY <1>2, <1>5, <2>3
      <3>2. Cardinality(new) = Cardinality(Queued) - 1
        BY <1>1, <2>3, <3>1, FS_RemoveElement
      <3>3. QueueMove(d) = -1  BY <1>3, <1>4, <2>3 DEF QueueMove
      <3> QED  BY <1>1, <3>2, <3>3
    <2> QED  BY <2>1, <2>2, <2>3
  <1> QED  BY <1>6, <1>7 DEF QueueCountExact, BooksFollow

LEMMA BooksFollowKeeps ==
    ASSUME TypeOK, TypeOK', DepositBooks, NEW d \in Depositors, BooksFollow(d)
    PROVE  DepositBooks'
  <1>1. TotalsAre(pool', position')  BY TotalsFollow DEF DepositBooks
  <1>2. QueueCountExact'  BY QueueFollows DEF DepositBooks
  <1>3. QueueNeverStranded'
    <2> SUFFICES ASSUME NEW e \in Depositors, position'[e].withdrawal_requested
                 PROVE  /\ pool'.withdrawal_queue_enabled
                        /\ position'[e].withdrawal_requested_amount
                              \in 1 .. position'[e].deposit_amount
      BY DEF QueueNeverStranded, Queued
    <2>1. CASE e = d  BY <2>1 DEF BooksFollow
    <2>2. CASE e # d
      <3>1. position'[e] = position[e]  BY <2>2 DEF BooksFollow
      <3> QED
        BY <3>1 DEF BooksFollow, DepositBooks, QueueNeverStranded, Queued
    <2> QED  BY <2>1, <2>2
  <1>4. AbsentIsEmpty'
    BY DEF BooksFollow, DepositBooks, AbsentIsEmpty
  <1> QED  BY <1>1, <1>2, <1>3, <1>4 DEF DepositBooks
(* Accrual moves the total of the yield with the depositor's yield.        *)
LEMMA AccrualBooks ==
    ASSUME NEW q \in PoolType, NEW b \in PositionType, NEW t \in Nat,
           AccrualFits(q, b, t)
    PROVE  \E c \in Nat :
              /\ AccruedPool(q, b, t).total_pending_yield =
                   q.total_pending_yield + c
              /\ AccruedPosition(q, b, t).accrued_yield = b.accrued_yield + c
  <1>0. U64Max \in Nat  BY PoolAssumption
  <1>1. CASE t < b.last_yield_update
    <2>1. AccruedPool(q, b, t) = q /\ AccruedPosition(q, b, t) = b
      BY <1>1 DEF AccruedPool, AccruedPosition
    <2>2. q.total_pending_yield \in Nat /\ b.accrued_yield \in Nat
      BY <1>0 DEF PoolType, PositionType, U64
    <2> QED  BY <2>1, <2>2
  <1>2. CASE ~(t < b.last_yield_update)
    <2> DEFINE c == CreditedYield(q, b, t)
               sum == q.total_pending_yield + c
               mine == b.accrued_yield + c
               later == OwedYield(q, b, t) - c
    <2>1. t >= b.last_yield_update  BY <1>2 DEF PositionType
    <2>2. c \in Nat  BY <1>0, <2>1 DEF AccrualFits, Fits
    <2>3. AccruedPool(q, b, t) = [q EXCEPT !.total_pending_yield = sum]
      BY <1>2 DEF AccruedPool
    <2>4. AccruedPosition(q, b, t) =
            [b EXCEPT !.accrued_yield = mine, !.deferred_yield = later,
                      !.last_yield_update = t]
      BY <1>2 DEF AccruedPosition
    <2> HIDE DEF sum, mine, later
    <2>5. AccruedPool(q, b, t).total_pending_yield = sum
      BY <2>3 DEF PoolType
    <2>6. AccruedPosition(q, b, t).accrued_yield = mine
      BY <2>4 DEF PositionType
    <2> QED  BY <2>2, <2>5, <2>6 DEF sum, mine
  <1> QED  BY <1>1, <1>2

(* A depositor in the queue is counted, so that leaving it always lowers   *)
(* the counter.                                                            *)
LEMMA QueuedIsCounted ==
    ASSUME DepositBooks, NEW d \in Depositors
    PROVE  position[d].withdrawal_requested =>
             pool.pending_withdrawal_requests >= 1
  <1> SUFFICES ASSUME position[d].withdrawal_requested
               PROVE  pool.pending_withdrawal_requests >= 1
    OBVIOUS
  <1>1. d \in Queued /\ IsFiniteSet(Queued)
    BY PoolAssumption, FS_Subset DEF Queued
  <1>2. /\ IsFiniteSet(Queued \ {d})
        /\ Cardinality(Queued \ {d}) = Cardinality(Queued) - 1
    BY <1>1, FS_RemoveElement
  <1>3. Cardinality(Queued) \in Nat /\ Cardinality(Queued \ {d}) \in Nat
    BY <1>1, <1>2, FS_CardinalityType
  <1> QED  BY <1>2, <1>3 DEF DepositBooks, QueueCountExact

LEMMA WithoutRequestBooks ==
    ASSUME NEW p \in PoolType, NEW q \in PositionType,
           q.withdrawal_requested => p.pending_withdrawal_requests >= 1
    PROVE  /\ PoolWithoutRequest(p, q).pending_withdrawal_requests =
                p.pending_withdrawal_requests
                  + (IF q.withdrawal_requested THEN -1 ELSE 0)
           /\ PoolWithoutRequest(p, q).current_total_deposits =
                p.current_total_deposits
           /\ PoolWithoutRequest(p, q).total_pending_yield =
                p.total_pending_yield
           /\ PoolWithoutRequest(p, q).withdrawal_queue_enabled =
                p.withdrawal_queue_enabled
           /\ PositionWithoutRequest(q).deposit_amount = q.deposit_amount
           /\ PositionWithoutRequest(q).accrued_yield = q.accrued_yield
           /\ PositionWithoutRequest(q).exists = q.exists
           /\ ~PositionWithoutRequest(q).withdrawal_requested
  <1> DEFINE n == IF q.withdrawal_requested /\ p.pending_withdrawal_requests > 0
                  THEN p.pending_withdrawal_requests - 1
                  ELSE p.pending_withdrawal_requests
  <1>1. PoolWithoutRequest(p, q) = [p EXCEPT !.pending_withdrawal_requests = n]
    BY DEF PoolWithoutRequest
  <1>2. p.pending_withdrawal_requests \in Nat
    BY PoolAssumption DEF PoolType, U64
  <1>3. n = p.pending_withdrawal_requests
              + (IF q.withdrawal_requested THEN -1 ELSE 0)
    BY <1>2
  <1> HIDE DEF n
  <1>4. /\ PoolWithoutRequest(p, q).pending_withdrawal_requests = n
        /\ PoolWithoutRequest(p, q).current_total_deposits =
             p.current_total_deposits
        /\ PoolWithoutRequest(p, q).total_pending_yield = p.total_pending_yield
        /\ PoolWithoutRequest(p, q).withdrawal_queue_enabled =
             p.withdrawal_queue_enabled
    BY <1>1 DEF PoolType
  <1>5. /\ PositionWithoutRequest(q).deposit_amount = q.deposit_amount
        /\ PositionWithoutRequest(q).accrued_yield = q.accrued_yield
        /\ PositionWithoutRequest(q).exists = q.exists
        /\ ~PositionWithoutRequest(q).withdrawal_requested
    BY DEF PositionWithoutRequest, PositionType
  <1> QED  BY <1>3, <1>4, <1>5

LEMMA PayPrincipalBooks ==
    ASSUME Inductive, DepositBooks, NEW d \in Depositors, NEW amount \in Nat,
           position[d].exists,
           AccrualFits(pool, position[d], now),
           amount <= position[d].deposit_amount,
           amount <= AvailableLiquidity(AccruedPool(pool, position[d], now)),
           PayPrincipal(d, AccruedPool(pool, position[d], now),
                        AccruedPosition(pool, position[d], now), amount)
    PROVE  BooksFollow(d)
  <1> DEFINE p == AccruedPool(pool, position[d], now)
             pos == AccruedPosition(pool, position[d], now)
  <1>0. U64Max \in Nat  BY PoolAssumption
  <1>a. /\ pool \in PoolType /\ position[d] \in PositionType /\ now \in Nat
        /\ position \in [Depositors -> PositionType]
    BY DEF Inductive, TypeOK
  <1>1. /\ pool.current_total_deposits \in Nat /\ pool.current_utilized \in Nat
        /\ position[d].deposit_amount \in Nat
        /\ position[d].accrued_yield \in Nat
        /\ pool.total_pending_yield \in Nat
    BY <1>0, <1>a DEF PoolType, PositionType, U64
  <1>2. /\ p \in PoolType /\ pos \in PositionType
        /\ p.current_total_deposits = pool.current_total_deposits
        /\ p.current_utilized = pool.current_utilized
        /\ p.pending_withdrawal_requests = pool.pending_withdrawal_requests
        /\ p.withdrawal_queue_enabled = pool.withdrawal_queue_enabled
        /\ pos.deposit_amount = position[d].deposit_amount
        /\ pos.withdrawal_requested = position[d].withdrawal_requested
    BY <1>a, AccrualEffect
  <1>b. pos.exists = position[d].exists  BY <1>a, AccrualEffect
  <1>3. PICK c \in Nat :
          /\ p.total_pending_yield = pool.total_pending_yield + c
          /\ pos.accrued_yield = position[d].accrued_yield + c
    BY <1>a, AccrualBooks
  <1> DEFINE deposits == p.current_total_deposits - amount
             rest == pos.deposit_amount - amount
             paid == [p EXCEPT !.current_total_deposits = deposits]
             fresh == RefreshIdleSince(paid, now)
             clear == PoolWithoutRequest(fresh, pos)
             left == [pos EXCEPT !.deposit_amount = rest]
  <1>4. deposits \in U64 /\ rest \in U64
    <2>1. amount <= pool.current_total_deposits - pool.current_utilized
      BY <1>2 DEF AvailableLiquidity
    <2>2. pool.current_total_deposits \in U64 /\ position[d].deposit_amount \in U64
      BY <1>a DEF PoolType, PositionType
    <2> QED  BY <1>0, <1>1, <1>2, <2>1, <2>2 DEF U64
  <1>5. /\ pool' = [clear EXCEPT !.num_depositors =
                      IF amount = pos.deposit_amount THEN @ - 1 ELSE @]
        /\ position' = [position EXCEPT ![d] = PositionWithoutRequest(left)]
    BY DEF PayPrincipal
  <1>6. position[d].withdrawal_requested =>
          pool.pending_withdrawal_requests >= 1
    BY QueuedIsCounted
  <1>7. deposits = pool.current_total_deposits - amount
        /\ rest = position[d].deposit_amount - amount
    BY <1>2
  <1> HIDE DEF p, pos, deposits, rest
  <1>8. paid \in PoolType /\ left \in PositionType
    BY <1>2, <1>4 DEF PoolType, PositionType
  <1>9. /\ paid.current_total_deposits = deposits
        /\ paid.total_pending_yield = p.total_pending_yield
        /\ paid.pending_withdrawal_requests = p.pending_withdrawal_requests
        /\ paid.withdrawal_queue_enabled = p.withdrawal_queue_enabled
    BY <1>2 DEF PoolType
  <1>10. /\ left.deposit_amount = rest
         /\ left.accrued_yield = pos.accrued_yield
         /\ left.withdrawal_requested = pos.withdrawal_requested
         /\ left.exists = pos.exists
    BY <1>2 DEF PositionType
  <1> HIDE DEF paid, left
  <1>11. PICK i \in Nat : fresh = [paid EXCEPT !.idle_since = i]
                          /\ fresh \in PoolType
    BY <1>a, <1>8, RefreshType
  <1> HIDE DEF fresh
  <1>12. /\ fresh.current_total_deposits = deposits
         /\ fresh.total_pending_yield = p.total_pending_yield
         /\ fresh.pending_withdrawal_requests = p.pending_withdrawal_requests
         /\ fresh.withdrawal_queue_enabled = p.withdrawal_queue_enabled
    BY <1>8, <1>9, <1>11 DEF PoolType
  <1>13. /\ clear \in PoolType
         /\ clear.current_total_deposits = deposits
         /\ clear.total_pending_yield = p.total_pending_yield
         /\ clear.pending_withdrawal_requests =
              p.pending_withdrawal_requests
                + (IF pos.withdrawal_requested THEN -1 ELSE 0)
         /\ clear.withdrawal_queue_enabled = p.withdrawal_queue_enabled
    <2>1. pos.withdrawal_requested => fresh.pending_withdrawal_requests >= 1
      BY <1>2, <1>6, <1>12
    <2>2. clear \in PoolType  BY <1>2, <1>11, WithoutRequestType
    <2>3. /\ clear.current_total_deposits = fresh.current_total_deposits
          /\ clear.total_pending_yield = fresh.total_pending_yield
          /\ clear.pending_withdrawal_requests =
               fresh.pending_withdrawal_requests
                 + (IF pos.withdrawal_requested THEN -1 ELSE 0)
          /\ clear.withdrawal_queue_enabled = fresh.withdrawal_queue_enabled
      <3>1. fresh \in PoolType /\ pos \in PositionType  BY <1>2, <1>11
      <3> QED  BY <2>1, <3>1, WithoutRequestBooks, Zenon
    <2> QED  BY <1>12, <2>2, <2>3
  <1> HIDE DEF clear
  <1>14. /\ pool'.current_total_deposits = deposits
         /\ pool'.total_pending_yield = p.total_pending_yield
         /\ pool'.pending_withdrawal_requests =
              clear.pending_withdrawal_requests
         /\ pool'.withdrawal_queue_enabled = p.withdrawal_queue_enabled
    BY <1>5, <1>13 DEF PoolType
  <1>15. /\ position'[d] = PositionWithoutRequest(left)
         /\ \A e \in Depositors \ {d} : position'[e] = position[e]
    BY <1>a, <1>5
  <1>16. /\ position'[d].deposit_amount = rest
         /\ position'[d].accrued_yield = pos.accrued_yield
         /\ position'[d].exists
         /\ ~position'[d].withdrawal_requested
    BY <1>2, <1>b, <1>8, <1>10, <1>15 DEF PositionWithoutRequest, PositionType
  <1>17. pool'.current_total_deposits =
           pool.current_total_deposits - position[d].deposit_amount
             + position'[d].deposit_amount
    BY <1>1, <1>7, <1>14, <1>16
  <1>18. pool'.total_pending_yield =
           pool.total_pending_yield - position[d].accrued_yield
             + position'[d].accrued_yield
    BY <1>1, <1>3, <1>14, <1>16
  <1>19. pool'.pending_withdrawal_requests =
           pool.pending_withdrawal_requests + QueueMove(d)
    BY <1>2, <1>13, <1>14, <1>16 DEF QueueMove
  <1> QED
    BY <1>2, <1>14, <1>15, <1>16, <1>17, <1>18, <1>19 DEF BooksFollow
LEMMA QueueBooks ==
    ASSUME Inductive, DepositBooks, NEW d \in Depositors, NEW p \in PoolType,
           NEW pos \in PositionType, NEW amount \in Nat,
           amount > 0, amount <= pos.deposit_amount,
           position[d].exists, pos.exists,
           pool.withdrawal_queue_enabled,
           pos.deposit_amount = position[d].deposit_amount,
           pos.withdrawal_requested = position[d].withdrawal_requested,
           p.current_total_deposits = pool.current_total_deposits,
           p.pending_withdrawal_requests = pool.pending_withdrawal_requests,
           p.withdrawal_queue_enabled = pool.withdrawal_queue_enabled,
           NEW c \in Nat,
           p.total_pending_yield = pool.total_pending_yield + c,
           pos.accrued_yield = position[d].accrued_yield + c,
           QueueRequest(d, p, pos, amount)
    PROVE  BooksFollow(d)
  <1>0. U64Max \in Nat  BY PoolAssumption
  <1>1. /\ pool \in PoolType /\ position \in [Depositors -> PositionType]
        /\ position[d] \in PositionType
    BY DEF Inductive, TypeOK
  <1>2. /\ pool.current_total_deposits \in Nat
        /\ pool.total_pending_yield \in Nat
        /\ pool.pending_withdrawal_requests \in Nat
        /\ position[d].deposit_amount \in Nat
        /\ position[d].accrued_yield \in Nat
    BY <1>0, <1>1 DEF PoolType, PositionType, U64
  <1> DEFINE n == p.pending_withdrawal_requests + 1
             asked == [pos EXCEPT !.withdrawal_requested = TRUE,
                                  !.withdrawal_requested_amount = amount]
  <1>3. /\ ~pos.withdrawal_requested
        /\ pool' = [p EXCEPT !.pending_withdrawal_requests = n]
        /\ position' = [position EXCEPT ![d] = asked]
    BY DEF QueueRequest
  <1>4. /\ asked.deposit_amount = pos.deposit_amount
        /\ asked.accrued_yield = pos.accrued_yield
        /\ asked.withdrawal_requested
        /\ asked.withdrawal_requested_amount = amount
        /\ asked.exists
    BY DEF PositionType
  <1>n. n = pool.pending_withdrawal_requests + 1  OBVIOUS
  <1> HIDE DEF n, asked
  <1>5. /\ pool'.current_total_deposits = pool.current_total_deposits
        /\ pool'.total_pending_yield = pool.total_pending_yield + c
        /\ pool'.pending_withdrawal_requests = n
        /\ pool'.withdrawal_queue_enabled = p.withdrawal_queue_enabled
    BY <1>3 DEF PoolType
  <1>6. /\ position'[d] = asked
        /\ \A e \in Depositors \ {d} : position'[e] = position[e]
    BY <1>1, <1>3
  <1>7. pool'.pending_withdrawal_requests =
          pool.pending_withdrawal_requests + QueueMove(d)
    BY <1>3, <1>n, <1>4, <1>5, <1>6 DEF QueueMove
  <1>8. pool'.current_total_deposits =
          pool.current_total_deposits - position[d].deposit_amount
            + position'[d].deposit_amount
    BY <1>2, <1>4, <1>5, <1>6
  <1>9. pool'.total_pending_yield =
          pool.total_pending_yield - position[d].accrued_yield
            + position'[d].accrued_yield
    BY <1>2, <1>4, <1>5, <1>6
  <1>10. position'[d].withdrawal_requested_amount
           \in 1 .. position'[d].deposit_amount
    BY <1>2, <1>4, <1>6
  <1> QED
    BY <1>4, <1>5, <1>6, <1>7, <1>8, <1>9, <1>10 DEF BooksFollow

LEMMA WithdrawBooks ==
    ASSUME Inductive, DepositBooks, NEW d \in Depositors, NEW amount \in Nat,
           WithdrawFromPool(d, amount)
    PROVE  BooksFollow(d)
  <1> DEFINE p == AccruedPool(pool, position[d], now)
             pos == AccruedPosition(pool, position[d], now)
  <1>1. /\ position[d].exists /\ amount > 0
        /\ amount <= position[d].deposit_amount
        /\ AccrualFits(pool, position[d], now)
    BY DEF WithdrawFromPool
  <1>2. CASE amount <= AvailableLiquidity(p) /\ PayPrincipal(d, p, pos, amount)
    BY <1>1, <1>2, PayPrincipalBooks
  <1>3. CASE p.withdrawal_queue_enabled /\ QueueRequest(d, p, pos, amount)
    <2>1. /\ pool \in PoolType /\ position[d] \in PositionType /\ now \in Nat
      BY DEF Inductive, TypeOK
    <2>2. /\ p \in PoolType /\ pos \in PositionType
          /\ p.current_total_deposits = pool.current_total_deposits
          /\ p.pending_withdrawal_requests = pool.pending_withdrawal_requests
          /\ pos.deposit_amount = position[d].deposit_amount
          /\ pos.withdrawal_requested = position[d].withdrawal_requested
      BY <1>1, <2>1, AccrualEffect
    <2>3. pos.exists = position[d].exists
          /\ p.withdrawal_queue_enabled = pool.withdrawal_queue_enabled
      BY <1>1, <2>1, AccrualEffect
    <2>4. PICK c \in Nat :
            /\ p.total_pending_yield = pool.total_pending_yield + c
            /\ pos.accrued_yield = position[d].accrued_yield + c
      BY <1>1, <2>1, AccrualBooks
    <2> HIDE DEF p, pos
    <2>5. pos.exists /\ pool.withdrawal_queue_enabled
          /\ amount <= pos.deposit_amount
      BY <1>1, <1>3, <2>2, <2>3
    <2> QED  BY <1>1, <1>3, <2>2, <2>3, <2>4, <2>5, QueueBooks
  <1> QED  BY <1>2, <1>3 DEF WithdrawFromPool

LEMMA RequestBooks ==
    ASSUME Inductive, DepositBooks, NEW d \in Depositors, NEW amount \in Nat,
           RequestPoolWithdrawal(d, amount)
    PROVE  BooksFollow(d)
  <1>1. /\ amount > 0 /\ amount <= position[d].deposit_amount
        /\ position[d].exists /\ pool.withdrawal_queue_enabled
        /\ QueueRequest(d, pool, position[d], amount)
    BY DEF RequestPoolWithdrawal
  <1>2. pool \in PoolType /\ position[d] \in PositionType
    BY DEF Inductive, TypeOK
  <1>3. /\ pool.total_pending_yield = pool.total_pending_yield + 0
        /\ position[d].accrued_yield = position[d].accrued_yield + 0
        /\ 0 \in Nat
    BY <1>2, PoolAssumption DEF PoolType, PositionType, U64
  <1> QED  BY <1>1, <1>2, <1>3, QueueBooks

LEMMA ProcessBooks ==
    ASSUME Inductive, DepositBooks, NEW d \in Depositors,
           ProcessPoolWithdrawal(d)
    PROVE  BooksFollow(d)
  <1>1. position[d].withdrawal_requested_amount \in Nat
    BY PoolAssumption DEF Inductive, TypeOK, PositionType, U64
  <1> QED  BY <1>1, PayPrincipalBooks DEF ProcessPoolWithdrawal

LEMMA ReturnBooks ==
    ASSUME Inductive, DepositBooks, NEW d \in Depositors,
           OperatorReturnDeposit(d)
    PROVE  BooksFollow(d)
  <1> DEFINE p == AccruedPool(pool, position[d], now)
             pos == AccruedPosition(pool, position[d], now)
             amount == Least(Least(pos.deposit_amount, AvailableLiquidity(p)), vault)
  <1>1. /\ pool \in PoolType /\ position[d] \in PositionType
        /\ now \in Nat /\ vault \in U64
    BY DEF Inductive, TypeOK
  <1>2. AccrualFits(pool, position[d], now) /\ position[d].exists
    BY DEF OperatorReturnDeposit
  <1>3. /\ pos \in PositionType
        /\ pos.deposit_amount = position[d].deposit_amount
    BY <1>1, <1>2, AccrualEffect
  <1>4. AvailableLiquidity(p) \in U64  BY DEF OperatorReturnDeposit, Fits, U64
  <1> HIDE DEF p, pos
  <1>5. /\ amount \in Nat
        /\ amount <= pos.deposit_amount
        /\ amount <= AvailableLiquidity(p)
    BY <1>1, <1>3, <1>4, PoolAssumption DEF Least, PositionType, U64
  <1>6. PayPrincipal(d, p, pos, amount)
    BY DEF OperatorReturnDeposit, p, pos
  <1> HIDE DEF amount
  <1> QED  BY <1>2, <1>3, <1>5, <1>6, PayPrincipalBooks DEF p, pos
LEMMA DepositBooksFollow ==
    ASSUME Inductive, DepositBooks, NEW d \in Depositors, NEW amount \in Nat,
           NEW feeRate \in Nat, DepositToPool(d, amount, feeRate)
    PROVE  BooksFollow(d)
  <1>0. U64Max \in Nat  BY PoolAssumption
  <1> DEFINE before == IF position[d].exists THEN position[d]
                       ELSE FreshPosition(now)
             p      == AccruedPool(pool, before, now)
             pos    == AccruedPosition(pool, before, now)
             net    == amount - Fee(amount, feeRate)
             total  == p.current_total_deposits + net
             mine   == pos.deposit_amount + net
  <1>1. /\ pool \in PoolType /\ position[d] \in PositionType /\ now \in Nat
        /\ position \in [Depositors -> PositionType]
    BY DEF Inductive, TypeOK
  <1>2. /\ before \in PositionType
        /\ before.exists
        /\ before.deposit_amount = position[d].deposit_amount
        /\ before.accrued_yield = position[d].accrued_yield
    <2>1. CASE position[d].exists  BY <1>1, <2>1
    <2>2. CASE ~position[d].exists
      <3>1. before = FreshPosition(now)  BY <2>2
      <3>2. 0 \in U64  BY <1>0 DEF U64
      <3>3. NoPosition \in PositionType  BY <3>2 DEF NoPosition, PositionType
      <3>4. FreshPosition(now) \in PositionType
        BY <1>1, <3>3 DEF FreshPosition, PositionType
      <3>5. /\ FreshPosition(now).exists
            /\ FreshPosition(now).deposit_amount = 0
            /\ FreshPosition(now).accrued_yield = 0
        BY DEF FreshPosition, NoPosition
      <3> QED
        BY <2>2, <3>1, <3>4, <3>5 DEF DepositBooks, AbsentIsEmpty
    <2> QED  BY <2>1, <2>2
  <1>3. before.withdrawal_requested <=> position[d].withdrawal_requested
    <2>1. CASE position[d].exists  BY <2>1
    <2>2. CASE ~position[d].exists
      <3>1. ~FreshPosition(now).withdrawal_requested
        BY DEF FreshPosition, NoPosition
      <3> QED  BY <2>2, <3>1 DEF DepositBooks, AbsentIsEmpty
    <2> QED  BY <2>1, <2>2
  <1>4. /\ AccrualFits(pool, before, now)
        /\ net \in U64
        /\ pool.current_total_deposits + net \in U64
        /\ mine \in U64
    BY DEF DepositToPool, Fits, U64
  <1>5. /\ pool' = [PoolWithoutRequest(RefreshIdleSince(
                        [p EXCEPT !.current_total_deposits = total], now), pos)
                      EXCEPT !.num_depositors =
                        IF pos.deposit_amount = 0 THEN @ + 1 ELSE @]
        /\ position' = [position EXCEPT ![d] = PositionWithoutRequest(
                                     [pos EXCEPT !.deposit_amount = mine])]
    BY DEF DepositToPool
  <1> HIDE DEF before, net
  <1>6. /\ p \in PoolType /\ pos \in PositionType
        /\ p.current_total_deposits = pool.current_total_deposits
        /\ p.pending_withdrawal_requests = pool.pending_withdrawal_requests
        /\ p.withdrawal_queue_enabled = pool.withdrawal_queue_enabled
        /\ pos.deposit_amount = before.deposit_amount
        /\ pos.withdrawal_requested = before.withdrawal_requested
    BY <1>1, <1>2, <1>4, AccrualEffect
  <1>7. pos.exists = before.exists
    BY <1>1, <1>2, <1>4, AccrualEffect
  <1>8. PICK c \in Nat :
          /\ p.total_pending_yield = pool.total_pending_yield + c
          /\ pos.accrued_yield = before.accrued_yield + c
    BY <1>1, <1>2, <1>4, AccrualBooks
  <1>9. total \in U64 /\ total = pool.current_total_deposits + net
        /\ mine = position[d].deposit_amount + net
    BY <1>2, <1>4, <1>6
  <1>10. position[d].withdrawal_requested =>
           pool.pending_withdrawal_requests >= 1
    BY QueuedIsCounted
  <1> DEFINE funded == [p EXCEPT !.current_total_deposits = total]
             grown  == [pos EXCEPT !.deposit_amount = mine]
             fresh  == RefreshIdleSince(funded, now)
             clear  == PoolWithoutRequest(fresh, pos)
  <1> HIDE DEF p, pos, total, mine
  <1>11. funded \in PoolType /\ grown \in PositionType
    BY <1>4, <1>6, <1>9 DEF PoolType, PositionType
  <1>12. /\ funded.current_total_deposits = total
         /\ funded.total_pending_yield = p.total_pending_yield
         /\ funded.pending_withdrawal_requests = p.pending_withdrawal_requests
         /\ funded.withdrawal_queue_enabled = p.withdrawal_queue_enabled
    BY <1>6 DEF PoolType
  <1>13. /\ grown.deposit_amount = mine
         /\ grown.accrued_yield = pos.accrued_yield
         /\ grown.exists = pos.exists
    BY <1>6 DEF PositionType
  <1>14. /\ pool' = [clear EXCEPT !.num_depositors =
                        IF pos.deposit_amount = 0 THEN @ + 1 ELSE @]
         /\ position' = [position EXCEPT ![d] = PositionWithoutRequest(grown)]
    BY <1>5
  <1> HIDE DEF funded, grown
  <1>15. PICK i \in Nat : fresh = [funded EXCEPT !.idle_since = i]
                          /\ fresh \in PoolType
    BY <1>1, <1>11, RefreshType
  <1> HIDE DEF fresh
  <1>16. /\ fresh.current_total_deposits = total
         /\ fresh.total_pending_yield = p.total_pending_yield
         /\ fresh.pending_withdrawal_requests = p.pending_withdrawal_requests
         /\ fresh.withdrawal_queue_enabled = p.withdrawal_queue_enabled
    BY <1>11, <1>12, <1>15 DEF PoolType
  <1>17. /\ clear \in PoolType
         /\ clear.current_total_deposits = total
         /\ clear.total_pending_yield = p.total_pending_yield
         /\ clear.pending_withdrawal_requests =
              p.pending_withdrawal_requests
                + (IF pos.withdrawal_requested THEN -1 ELSE 0)
         /\ clear.withdrawal_queue_enabled = p.withdrawal_queue_enabled
    <2>1. pos.withdrawal_requested => fresh.pending_withdrawal_requests >= 1
      BY <1>3, <1>6, <1>10, <1>16
    <2>2. clear \in PoolType  BY <1>6, <1>15, WithoutRequestType
    <2>3. /\ clear.current_total_deposits = fresh.current_total_deposits
          /\ clear.total_pending_yield = fresh.total_pending_yield
          /\ clear.pending_withdrawal_requests =
               fresh.pending_withdrawal_requests
                 + (IF pos.withdrawal_requested THEN -1 ELSE 0)
          /\ clear.withdrawal_queue_enabled = fresh.withdrawal_queue_enabled
      BY <1>6, <1>15, <2>1, WithoutRequestBooks
    <2> QED  BY <1>16, <2>2, <2>3
  <1> HIDE DEF clear
  <1>18. /\ pool'.current_total_deposits = total
         /\ pool'.total_pending_yield = p.total_pending_yield
         /\ pool'.pending_withdrawal_requests = clear.pending_withdrawal_requests
         /\ pool'.withdrawal_queue_enabled = p.withdrawal_queue_enabled
    BY <1>14, <1>17 DEF PoolType
  <1>19. /\ position'[d] = PositionWithoutRequest(grown)
         /\ \A e \in Depositors \ {d} : position'[e] = position[e]
    BY <1>1, <1>14
  <1>20. /\ position'[d].deposit_amount = mine
         /\ position'[d].accrued_yield = pos.accrued_yield
         /\ position'[d].exists
         /\ ~position'[d].withdrawal_requested
    BY <1>2, <1>7, <1>11, <1>13, <1>19 DEF PositionWithoutRequest, PositionType
  <1>21. /\ pool.current_total_deposits \in Nat /\ net \in Nat
         /\ pool.total_pending_yield \in Nat
         /\ position[d].deposit_amount \in Nat
         /\ position[d].accrued_yield \in Nat
    BY <1>0, <1>1, <1>4 DEF PoolType, PositionType, U64
  <1>22. pool'.current_total_deposits =
           pool.current_total_deposits - position[d].deposit_amount
             + position'[d].deposit_amount
    BY <1>9, <1>18, <1>20, <1>21
  <1>23. pool'.total_pending_yield =
           pool.total_pending_yield - position[d].accrued_yield
             + position'[d].accrued_yield
    BY <1>2, <1>8, <1>18, <1>20, <1>21
  <1>24. pool'.pending_withdrawal_requests =
           pool.pending_withdrawal_requests + QueueMove(d)
    BY <1>3, <1>6, <1>17, <1>18, <1>20 DEF QueueMove
  <1> QED
    BY <1>6, <1>18, <1>19, <1>20, <1>22, <1>23, <1>24 DEF BooksFollow
(* Yield is claimed or compounded: it leaves the depositor's yield and the *)
(* total, and what is gained goes to the deposit and its total.            *)
YieldTaken(d, p, pos, gain, q) ==
    /\ pool'.current_total_deposits = p.current_total_deposits + gain
    /\ pool'.total_pending_yield = p.total_pending_yield - pos.accrued_yield
    /\ pool'.pending_withdrawal_requests = p.pending_withdrawal_requests
    /\ pool'.withdrawal_queue_enabled = p.withdrawal_queue_enabled
    /\ position' = [position EXCEPT ![d] = q]
    /\ q.deposit_amount = pos.deposit_amount + gain
    /\ q.accrued_yield = 0
    /\ q.exists = pos.exists
    /\ q.withdrawal_requested = pos.withdrawal_requested
    /\ q.withdrawal_requested_amount = pos.withdrawal_requested_amount

LEMMA YieldTakenBooks ==
    ASSUME Inductive, DepositBooks, NEW d \in Depositors,
           position[d].exists, AccrualFits(pool, position[d], now),
           NEW gain \in Nat, NEW q,
           YieldTaken(d, AccruedPool(pool, position[d], now),
                      AccruedPosition(pool, position[d], now), gain, q)
    PROVE  BooksFollow(d)
  <1> DEFINE p == AccruedPool(pool, position[d], now)
             pos == AccruedPosition(pool, position[d], now)
  <1>0. U64Max \in Nat  BY PoolAssumption
  <1>1. /\ pool \in PoolType /\ position[d] \in PositionType /\ now \in Nat
        /\ position \in [Depositors -> PositionType]
    BY DEF Inductive, TypeOK
  <1>2. /\ p.current_total_deposits = pool.current_total_deposits
        /\ p.pending_withdrawal_requests = pool.pending_withdrawal_requests
        /\ p.withdrawal_queue_enabled = pool.withdrawal_queue_enabled
        /\ pos.deposit_amount = position[d].deposit_amount
        /\ pos.withdrawal_requested = position[d].withdrawal_requested
        /\ pos.withdrawal_requested_amount =
             position[d].withdrawal_requested_amount
    BY <1>1, AccrualEffect
  <1>3. pos.exists = position[d].exists
    BY <1>1, AccrualEffect
  <1>4. PICK c \in Nat :
          /\ p.total_pending_yield = pool.total_pending_yield + c
          /\ pos.accrued_yield = position[d].accrued_yield + c
    BY <1>1, AccrualBooks
  <1>t. YieldTaken(d, p, pos, gain, q)  OBVIOUS
  <1> HIDE DEF p, pos
  <1>5. /\ pool.current_total_deposits \in Nat
        /\ pool.total_pending_yield \in Nat
        /\ pool.pending_withdrawal_requests \in Nat
        /\ position[d].deposit_amount \in Nat
        /\ position[d].accrued_yield \in Nat
        /\ position[d].withdrawal_requested_amount \in Nat
    BY <1>0, <1>1 DEF PoolType, PositionType, U64
  <1>6. /\ position'[d] = q
        /\ \A e \in Depositors \ {d} : position'[e] = position[e]
    BY <1>1, <1>t DEF YieldTaken
  <1>7. /\ pool'.current_total_deposits =
             pool.current_total_deposits - position[d].deposit_amount
               + position'[d].deposit_amount
        /\ pool'.total_pending_yield =
             pool.total_pending_yield - position[d].accrued_yield
               + position'[d].accrued_yield
    BY <1>2, <1>4, <1>5, <1>6, <1>t DEF YieldTaken
  <1>8. pool'.pending_withdrawal_requests =
          pool.pending_withdrawal_requests + QueueMove(d)
    BY <1>2, <1>5, <1>6, <1>t DEF QueueMove, YieldTaken
  <1>9. position'[d].withdrawal_requested =>
          /\ pool.withdrawal_queue_enabled
          /\ position'[d].withdrawal_requested_amount
                \in 1 .. position'[d].deposit_amount
    <2> SUFFICES ASSUME position'[d].withdrawal_requested
                 PROVE  /\ pool.withdrawal_queue_enabled
                        /\ position'[d].withdrawal_requested_amount
                              \in 1 .. position'[d].deposit_amount
      OBVIOUS
    <2>1. position[d].withdrawal_requested
      BY <1>2, <1>6, <1>t DEF YieldTaken
    <2>2. /\ pool.withdrawal_queue_enabled
          /\ position[d].withdrawal_requested_amount
                \in 1 .. position[d].deposit_amount
      BY <2>1 DEF DepositBooks, QueueNeverStranded, Queued
    <2> QED  BY <1>2, <1>5, <1>6, <1>t, <2>2 DEF YieldTaken
  <1>10. position'[d].exists  BY <1>3, <1>6, <1>t DEF YieldTaken
  <1>11. pool'.withdrawal_queue_enabled = pool.withdrawal_queue_enabled
    BY <1>2, <1>t DEF YieldTaken
  <1> QED  BY <1>11, <1>6, <1>7, <1>8, <1>9, <1>10 DEF BooksFollow

LEMMA ClaimBooks ==
    ASSUME Inductive, DepositBooks, NEW d \in Depositors, NEW byBot,
           NEW feeRate \in Nat, ClaimPoolYield(d, byBot, feeRate)
    PROVE  BooksFollow(d)
  <1> DEFINE p   == AccruedPool(pool, position[d], now)
             pos == AccruedPosition(pool, position[d], now)
             net == pos.accrued_yield - Fee(pos.accrued_yield, feeRate)
             pending == p.total_pending_yield - pos.accrued_yield
             paidOut == p.total_yield_distributed + net
             q   == [pos EXCEPT !.accrued_yield = 0]
  <1>1. /\ pool \in PoolType /\ position[d] \in PositionType /\ now \in Nat
    BY DEF Inductive, TypeOK
  <1>2. /\ position[d].exists /\ AccrualFits(pool, position[d], now)
        /\ pool' = [p EXCEPT !.total_pending_yield = pending,
                             !.total_yield_distributed = paidOut]
        /\ position' = [position EXCEPT ![d] = q]
    BY DEF ClaimPoolYield
  <1>3. p \in PoolType /\ pos \in PositionType  BY <1>1, <1>2, AccrualEffect
  <1>4. pending = p.total_pending_yield - pos.accrued_yield  OBVIOUS
  <1> HIDE DEF p, pos, pending, paidOut
  <1>6. /\ pool'.current_total_deposits = p.current_total_deposits
        /\ pool'.total_pending_yield = pending
        /\ pool'.pending_withdrawal_requests = p.pending_withdrawal_requests
        /\ pool'.withdrawal_queue_enabled = p.withdrawal_queue_enabled
    BY <1>2, <1>3 DEF PoolType
  <1>7. /\ q.deposit_amount = pos.deposit_amount
        /\ q.accrued_yield = 0
        /\ q.exists = pos.exists
        /\ q.withdrawal_requested = pos.withdrawal_requested
        /\ q.withdrawal_requested_amount = pos.withdrawal_requested_amount
    BY <1>3 DEF PositionType
  <1>8. /\ p.current_total_deposits = p.current_total_deposits + 0
        /\ pos.deposit_amount = pos.deposit_amount + 0 /\ 0 \in Nat
    BY <1>3, PoolAssumption DEF PoolType, PositionType, U64
  <1> HIDE DEF q
  <1>9. /\ pool'.current_total_deposits = p.current_total_deposits + 0
        /\ pool'.total_pending_yield = p.total_pending_yield - pos.accrued_yield
        /\ q.deposit_amount = pos.deposit_amount + 0
    BY <1>4, <1>6, <1>7, <1>8
  <1>10. YieldTaken(d, p, pos, 0, q)
    BY <1>2, <1>6, <1>7, <1>9 DEF YieldTaken
  <1> QED  BY <1>2, <1>8, <1>10, YieldTakenBooks DEF p, pos

LEMMA CompoundBooks ==
    ASSUME Inductive, DepositBooks, NEW d \in Depositors, NEW byBot,
           NEW feeRate \in Nat, CompoundPoolYield(d, byBot, feeRate)
    PROVE  BooksFollow(d)
  <1> DEFINE p   == AccruedPool(pool, position[d], now)
             pos == AccruedPosition(pool, position[d], now)
             net == pos.accrued_yield - Fee(pos.accrued_yield, feeRate)
             total == p.current_total_deposits + net
             pending == p.total_pending_yield - pos.accrued_yield
             paidOut == p.total_yield_distributed + net
             mine == pos.deposit_amount + net
             q   == [pos EXCEPT !.deposit_amount = mine, !.accrued_yield = 0]
  <1>1. /\ pool \in PoolType /\ position[d] \in PositionType /\ now \in Nat
    BY DEF Inductive, TypeOK
  <1>2. /\ position[d].exists /\ AccrualFits(pool, position[d], now)
        /\ net \in Nat
        /\ pool' = [p EXCEPT !.current_total_deposits = total,
                             !.total_pending_yield = pending,
                             !.total_yield_distributed = paidOut]
        /\ position' = [position EXCEPT ![d] = q]
    BY PoolAssumption DEF CompoundPoolYield, Fits
  <1>3. p \in PoolType /\ pos \in PositionType  BY <1>1, <1>2, AccrualEffect
  <1>4. /\ pending = p.total_pending_yield - pos.accrued_yield
        /\ total = p.current_total_deposits + net
        /\ mine = pos.deposit_amount + net
    OBVIOUS
  <1> HIDE DEF p, pos, net, total, pending, paidOut, mine
  <1>6. /\ pool'.current_total_deposits = total
        /\ pool'.total_pending_yield = pending
        /\ pool'.pending_withdrawal_requests = p.pending_withdrawal_requests
        /\ pool'.withdrawal_queue_enabled = p.withdrawal_queue_enabled
    BY <1>2, <1>3 DEF PoolType
  <1>7. /\ q.deposit_amount = mine
        /\ q.accrued_yield = 0
        /\ q.exists = pos.exists
        /\ q.withdrawal_requested = pos.withdrawal_requested
        /\ q.withdrawal_requested_amount = pos.withdrawal_requested_amount
    BY <1>3 DEF PositionType
  <1> HIDE DEF q
  <1>8. /\ pool'.current_total_deposits = p.current_total_deposits + net
        /\ pool'.total_pending_yield = p.total_pending_yield - pos.accrued_yield
        /\ q.deposit_amount = pos.deposit_amount + net
    BY <1>4, <1>6, <1>7
  <1>9. YieldTaken(d, p, pos, net, q)
    BY <1>2, <1>6, <1>7, <1>8 DEF YieldTaken
  <1> QED  BY <1>2, <1>9, YieldTakenBooks DEF p, pos

LEMMA PreferenceBooks ==
    ASSUME Inductive, DepositBooks, NEW d \in Depositors, NEW preference,
           SetYieldPreference(d, preference)
    PROVE  BooksFollow(d)
  <1> DEFINE q == [position[d] EXCEPT !.yield_preference = preference]
  <1>1. /\ pool \in PoolType /\ position[d] \in PositionType
        /\ position \in [Depositors -> PositionType]
    BY DEF Inductive, TypeOK
  <1>2. /\ pool' = pool /\ position[d].exists
        /\ position' = [position EXCEPT ![d] = q]
    BY DEF SetYieldPreference
  <1>3. /\ q.deposit_amount = position[d].deposit_amount
        /\ q.accrued_yield = position[d].accrued_yield
        /\ q.withdrawal_requested = position[d].withdrawal_requested
        /\ q.withdrawal_requested_amount =
             position[d].withdrawal_requested_amount
    BY <1>1 DEF PositionType
  <1>4. q.exists = position[d].exists  BY <1>1 DEF PositionType
  <1> HIDE DEF q
  <1>5. /\ position'[d] = q
        /\ \A e \in Depositors \ {d} : position'[e] = position[e]
    BY <1>1, <1>2
  <1>6. /\ pool.current_total_deposits \in Nat
        /\ pool.total_pending_yield \in Nat
        /\ pool.pending_withdrawal_requests \in Nat
        /\ position[d].deposit_amount \in Nat
        /\ position[d].accrued_yield \in Nat
    BY <1>1, PoolAssumption DEF PoolType, PositionType, U64
  <1>7. position'[d].withdrawal_requested =>
          /\ pool.withdrawal_queue_enabled
          /\ position'[d].withdrawal_requested_amount
                \in 1 .. position'[d].deposit_amount
    BY <1>3, <1>5 DEF DepositBooks, QueueNeverStranded, Queued
  <1>8. QueueMove(d) = 0  BY <1>3, <1>5 DEF QueueMove
  <1>9. position'[d].exists  BY <1>2, <1>4, <1>5
  <1> QED
    BY <1>2, <1>3, <1>5, <1>6, <1>7, <1>8, <1>9 DEF BooksFollow
LEMMA DepositorBooks ==
    ASSUME Inductive, DepositBooks, NEW d \in Depositors, DepositorStep(d)
    PROVE  BooksFollow(d)
  <1>1. ASSUME NEW amount \in Amounts, NEW feeRate \in DepositFees,
               DepositToPool(d, amount, feeRate)
        PROVE  BooksFollow(d)
    BY <1>1, DepositBooksFollow, PoolAssumption
  <1>2. ASSUME NEW amount \in Amounts, WithdrawFromPool(d, amount)
        PROVE  BooksFollow(d)
    BY <1>2, WithdrawBooks, PoolAssumption
  <1>3. ASSUME NEW amount \in Amounts, RequestPoolWithdrawal(d, amount)
        PROVE  BooksFollow(d)
    BY <1>3, RequestBooks, PoolAssumption
  <1>4. CASE ProcessPoolWithdrawal(d)  BY <1>4, ProcessBooks
  <1>5. CASE OperatorReturnDeposit(d)  BY <1>5, ReturnBooks
  <1>6. ASSUME NEW preference \in Preferences, SetYieldPreference(d, preference)
        PROVE  BooksFollow(d)
    BY <1>6, PreferenceBooks
  <1>7. ASSUME NEW byBot \in BOOLEAN, NEW feeRate \in YieldFees,
               ClaimPoolYield(d, byBot, feeRate)
        PROVE  BooksFollow(d)
    BY <1>7, ClaimBooks, PoolAssumption
  <1>8. ASSUME NEW byBot \in BOOLEAN, NEW feeRate \in YieldFees,
               CompoundPoolYield(d, byBot, feeRate)
        PROVE  BooksFollow(d)
    BY <1>8, CompoundBooks, PoolAssumption
  <1> QED
    BY <1>1, <1>2, <1>3, <1>4, <1>5, <1>6, <1>7, <1>8 DEF DepositorStep

-----------------------------------------------------------------------------
(* Everybody else leaves deposits, totals and counter alone, and disables  *)
(* the queue only while nobody is in it.                                   *)
BooksStand ==
    /\ position' = position
    /\ pool'.current_total_deposits = pool.current_total_deposits
    /\ pool'.total_pending_yield = pool.total_pending_yield
    /\ pool'.pending_withdrawal_requests = pool.pending_withdrawal_requests
    /\ \/ pool.withdrawal_queue_enabled => pool'.withdrawal_queue_enabled
       \/ pool.pending_withdrawal_requests = 0

LEMMA BooksStandKeeps ==
    ASSUME DepositBooks, BooksStand
    PROVE  DepositBooks'
  <1>1. TotalsAre(pool', position')
    BY DEF DepositBooks, BooksStand, TotalsAre
  <1>2. Queued' = Queued  BY DEF BooksStand, Queued
  <1>3. QueueCountExact'
    BY <1>2 DEF DepositBooks, BooksStand, QueueCountExact
  <1>4. QueueNeverStranded'
    <2>1. CASE pool.withdrawal_queue_enabled => pool'.withdrawal_queue_enabled
      BY <1>2, <2>1 DEF DepositBooks, BooksStand, QueueNeverStranded
    <2>2. CASE pool.pending_withdrawal_requests = 0
      <3>1. IsFiniteSet(Queued)  BY PoolAssumption, FS_Subset DEF Queued
      <3>2. Queued = {}
        BY <2>2, <3>1, FS_EmptySet DEF DepositBooks, QueueCountExact
      <3> QED  BY <1>2, <3>2 DEF QueueNeverStranded
    <2> QED  BY <2>1, <2>2 DEF BooksStand
  <1>5. AbsentIsEmpty'  BY DEF DepositBooks, BooksStand, AbsentIsEmpty
  <1> QED  BY <1>1, <1>3, <1>4, <1>5 DEF DepositBooks

LEMMA NewRateRest ==
    ASSUME NEW p \in PoolType, NEW rate \in Nat, NEW t \in Nat
    PROVE  /\ WithNewRate(p, rate, t).current_total_deposits =
                p.current_total_deposits
           /\ WithNewRate(p, rate, t).current_utilized = p.current_utilized
           /\ WithNewRate(p, rate, t).total_pending_yield =
                p.total_pending_yield
           /\ WithNewRate(p, rate, t).pending_withdrawal_requests =
                p.pending_withdrawal_requests
           /\ WithNewRate(p, rate, t).rate_bps = rate
  <1> DEFINE ring == PushRateHistory(p.rate_history,
                        [changed_at |-> CurrentRateStart(p),
                         rate_bps |-> p.rate_bps])
  <1>1. WithNewRate(p, rate, t) = [p EXCEPT !.rate_history = ring,
                                            !.rate_bps = rate,
                                            !.rate_updated_at = t]
    BY DEF WithNewRate
  <1> HIDE DEF ring
  <1> QED  BY <1>1 DEF PoolType

(* Applying a change sets the terms it names and nothing else of a deposit.*)
LEMMA ApplyIs ==
    ASSUME TypeOK, ApplyPoolChanges
    PROVE  /\ BooksStand
           /\ pool'.current_utilized = pool.current_utilized
           /\ \A f \in TermFields :
                 pool'[f] \in {pool[f], pendingChange.change[f]}
  <1> DEFINE change == pendingChange.change
             rated == IF change.rate_bps = Keep THEN pool
                      ELSE WithNewRate(pool, change.rate_bps, now)
             New(f) == IF change[f] = Keep THEN pool[f] ELSE change[f]
  <1>1. /\ pool \in PoolType /\ now \in Nat /\ change \in ChangeType
    BY DEF TypeOK, ApplyPoolChanges, PendingChangeType
  <1>2. /\ rated \in PoolType
        /\ rated.current_total_deposits = pool.current_total_deposits
        /\ rated.current_utilized = pool.current_utilized
        /\ rated.total_pending_yield = pool.total_pending_yield
        /\ rated.pending_withdrawal_requests = pool.pending_withdrawal_requests
        /\ rated.rate_bps \in {pool.rate_bps, change.rate_bps}
    <2>1. CASE change.rate_bps = Keep  BY <1>1, <2>1
    <2>2. CASE change.rate_bps # Keep
      <3>1. change.rate_bps \in Nat  BY <1>1, <2>2 DEF ChangeType
      <3>2. rated = WithNewRate(pool, change.rate_bps, now)  BY <2>2
      <3>3. pool \in PoolType /\ now \in Nat  BY <1>1
      <3>4. rated \in PoolType  BY <3>1, <3>2, <3>3, NewRateType, Zenon
      <3> DEFINE r == WithNewRate(pool, change.rate_bps, now)
      <3>5. /\ r.current_total_deposits = pool.current_total_deposits
            /\ r.current_utilized = pool.current_utilized
            /\ r.total_pending_yield = pool.total_pending_yield
            /\ r.pending_withdrawal_requests =
                 pool.pending_withdrawal_requests
            /\ r.rate_bps = change.rate_bps
        BY <3>1, <3>3, NewRateRest
      <3> HIDE DEF r, rated
      <3>6. rated = r  BY <3>2 DEF r
      <3> QED  BY <3>4, <3>5, <3>6
    <2> QED  BY <2>1, <2>2
  <1> DEFINE cap == New("capacity")
             min == New("minimum_deposit")
             loanType == New("allowed_loan_type")
             ltv == New("min_ltv_bps")
             days == New("max_term_days")
             queue == New("withdrawal_queue_enabled")
  <1>3. /\ pool' = [rated EXCEPT !.capacity = cap, !.minimum_deposit = min,
                                 !.allowed_loan_type = loanType,
                                 !.min_ltv_bps = ltv, !.max_term_days = days,
                                 !.withdrawal_queue_enabled = queue]
        /\ position' = position
        /\ ChangeIsCompatible(change)
    BY DEF ApplyPoolChanges, PoolWithChange
  <1>4. /\ cap \in {pool.capacity, change.capacity}
        /\ min \in {pool.minimum_deposit, change.minimum_deposit}
        /\ loanType \in {pool.allowed_loan_type, change.allowed_loan_type}
        /\ ltv \in {pool.min_ltv_bps, change.min_ltv_bps}
        /\ days \in {pool.max_term_days, change.max_term_days}
        /\ queue \in {pool.withdrawal_queue_enabled,
                      change.withdrawal_queue_enabled}
    OBVIOUS
  <1> HIDE DEF rated, cap, min, loanType, ltv, days
  <1>5. /\ pool'.current_total_deposits = pool.current_total_deposits
        /\ pool'.current_utilized = pool.current_utilized
        /\ pool'.total_pending_yield = pool.total_pending_yield
        /\ pool'.pending_withdrawal_requests = pool.pending_withdrawal_requests
        /\ pool'.rate_bps = rated.rate_bps
        /\ pool'.capacity = cap
        /\ pool'.minimum_deposit = min
        /\ pool'.allowed_loan_type = loanType
        /\ pool'.min_ltv_bps = ltv
        /\ pool'.max_term_days = days
        /\ pool'.withdrawal_queue_enabled = queue
    BY <1>2, <1>3 DEF PoolType
  <1>6. \/ pool.withdrawal_queue_enabled => pool'.withdrawal_queue_enabled
        \/ pool.pending_withdrawal_requests = 0
    <2>1. CASE change.withdrawal_queue_enabled = Keep
      <3>1. queue = pool.withdrawal_queue_enabled  BY <2>1
      <3> QED  BY <1>5, <3>1
    <2>2. CASE change.withdrawal_queue_enabled # Keep
      <3>1. queue = change.withdrawal_queue_enabled  BY <2>2
      <3>2. change.withdrawal_queue_enabled \in BOOLEAN
        BY <1>1, <2>2 DEF ChangeType
      <3> QED  BY <1>3, <1>5, <3>1, <3>2 DEF ChangeIsCompatible
    <2> QED  BY <2>1, <2>2
  <1>7. BooksStand  BY <1>3, <1>5, <1>6 DEF BooksStand
  <1> HIDE DEF queue, change
  <1>8. \A f \in TermFields : pool'[f] \in {pool[f], change[f]}
    BY <1>2, <1>4, <1>5 DEF TermFields
  <1> QED  BY <1>5, <1>7, <1>8 DEF change
(* A status change, a deployment, a claim from an escrow: the fields that  *)
(* say what is deposited stay.                                             *)
LEMMA StatusStands ==
    ASSUME TypeOK, NEW s, pool' = [pool EXCEPT !.status = s],
           position' = position
    PROVE  BooksStand /\ TermsOf(pool') = TermsOf(pool)
                      /\ pool'.current_utilized = pool.current_utilized
  <1>1. pool \in PoolType  BY DEF TypeOK
  <1>2. /\ pool'.current_total_deposits = pool.current_total_deposits
        /\ pool'.current_utilized = pool.current_utilized
        /\ pool'.total_pending_yield = pool.total_pending_yield
        /\ pool'.pending_withdrawal_requests = pool.pending_withdrawal_requests
        /\ pool'.withdrawal_queue_enabled = pool.withdrawal_queue_enabled
    BY <1>1 DEF PoolType
  <1>3. TermsOf(pool') = TermsOf(pool)
    BY <1>1 DEF PoolType, TermsOf, TermFields
  <1> QED  BY <1>2, <1>3 DEF BooksStand

LEMMA CreateStands ==
    ASSUME Inductive, DepositBooks, NEW terms \in Terms, CreatePool(terms)
    PROVE  BooksStand
  <1>1. pool = NoPool  BY DEF Inductive, UncreatedIsFresh, CreatePool
  <1>2. /\ pool'.current_total_deposits = NoPool.current_total_deposits
        /\ pool'.total_pending_yield = NoPool.total_pending_yield
        /\ pool'.pending_withdrawal_requests =
             NoPool.pending_withdrawal_requests
        /\ NoPool.pending_withdrawal_requests = 0
        /\ position' = position
    BY DEF CreatePool, NoPool
  <1> QED  BY <1>1, <1>2 DEF BooksStand

LEMMA DeployStands ==
    ASSUME TypeOK, NEW amount \in Nat, NEW contract,
           PoolDeployToContract(amount, contract)
    PROVE  /\ BooksStand /\ TermsOf(pool') = TermsOf(pool)
           /\ pool'.current_utilized > 0
  <1> DEFINE used == pool.current_utilized + amount
  <1>1. /\ pool \in PoolType /\ amount > 0
        /\ pool' = [pool EXCEPT !.current_utilized = used]
        /\ position' = position
    BY DEF TypeOK, PoolDeployToContract
  <1>2. used > 0  BY <1>1, PoolAssumption DEF PoolType, U64
  <1> HIDE DEF used
  <1>3. /\ pool'.current_total_deposits = pool.current_total_deposits
        /\ pool'.current_utilized = used
        /\ pool'.total_pending_yield = pool.total_pending_yield
        /\ pool'.pending_withdrawal_requests = pool.pending_withdrawal_requests
        /\ pool'.withdrawal_queue_enabled = pool.withdrawal_queue_enabled
    BY <1>1 DEF PoolType
  <1>4. TermsOf(pool') = TermsOf(pool)
    BY <1>1 DEF PoolType, TermsOf, TermFields
  <1> QED  BY <1>1, <1>2, <1>3, <1>4 DEF BooksStand

LEMMA ClaimFromEscrowStands ==
    ASSUME TypeOK, NEW principal, NEW interest,
           PoolClaimFromEscrow(principal, interest)
    PROVE  BooksStand /\ TermsOf(pool') = TermsOf(pool)
  <1> DEFINE used == pool.current_utilized - principal
             claimed == [pool EXCEPT !.current_utilized = used]
  <1>1. /\ pool \in PoolType /\ now \in Nat /\ position' = position
        /\ used \in U64
        /\ pool' = RefreshIdleSince(claimed, now)
    BY DEF TypeOK, PoolClaimFromEscrow, Fits, U64
  <1> HIDE DEF used
  <1>2. claimed \in PoolType  BY <1>1 DEF PoolType
  <1>3. /\ claimed.current_total_deposits = pool.current_total_deposits
        /\ claimed.total_pending_yield = pool.total_pending_yield
        /\ claimed.pending_withdrawal_requests = pool.pending_withdrawal_requests
        /\ claimed.withdrawal_queue_enabled = pool.withdrawal_queue_enabled
    BY <1>1 DEF PoolType
  <1>4. TermsOf(claimed) = TermsOf(pool)
    BY <1>1 DEF PoolType, TermsOf, TermFields
  <1> HIDE DEF claimed
  <1>5. PICK i \in Nat : pool' = [claimed EXCEPT !.idle_since = i]
    BY <1>1, <1>2, RefreshType
  <1>6. /\ pool'.current_total_deposits = pool.current_total_deposits
        /\ pool'.total_pending_yield = pool.total_pending_yield
        /\ pool'.pending_withdrawal_requests = pool.pending_withdrawal_requests
        /\ pool'.withdrawal_queue_enabled = pool.withdrawal_queue_enabled
    BY <1>2, <1>3, <1>5 DEF PoolType
  <1>7. TermsOf(pool') = TermsOf(pool)
    BY <1>2, <1>4, <1>5 DEF PoolType, TermsOf, TermFields
  <1> QED  BY <1>1, <1>6, <1>7 DEF BooksStand

LEMMA OthersStand ==
    ASSUME Inductive, DepositBooks,
           OperatorStep \/ OutsideStep \/ UNCHANGED vars
    PROVE  BooksStand
  <1>0. TypeOK  BY DEF Inductive
  <1>1. CASE pool' = pool /\ position' = position  BY <1>1 DEF BooksStand
  <1>2. ASSUME NEW terms \in Terms, CreatePool(terms) PROVE BooksStand
    BY <1>2, CreateStands
  <1>3. CASE PausePool \/ ResumePool \/ ClosePool \/ ExpireIdlePool
    BY <1>0, <1>3, StatusStands
       DEF PausePool, ResumePool, ClosePool, ExpireIdlePool
  <1>4. CASE ApplyPoolChanges  BY <1>0, <1>4, ApplyIs
  <1>5. ASSUME NEW amount \in Amounts, NEW contract \in ContractTerms,
               PoolDeployToContract(amount, contract)
        PROVE  BooksStand
    BY <1>0, <1>5, DeployStands, PoolAssumption
  <1>6. ASSUME NEW principal, NEW interest,
             PoolClaimFromEscrow(principal, interest)
      PROVE  BooksStand
    BY <1>0, <1>6, ClaimFromEscrowStands
  <1> QED
    BY <1>1, <1>2, <1>3, <1>4, <1>5, <1>6
       DEF OperatorStep, OutsideStep, vars, AuthorizePoolOperator,
           RevokePoolOperator, ProposePoolChanges, CancelPoolChanges,
           ContractRepaysPrincipal, ContractPaysInterest, ContractDefaults,
           BotRefundExpiredLender, SetPlatformPaused, Tick

LEMMA InitBooks == Init => DepositBooks
  <1> SUFFICES ASSUME Init PROVE DepositBooks
    OBVIOUS
  <1>0. IsFiniteSet(Depositors)  BY PoolAssumption
  <1>1. /\ \A d \in Depositors : position[d] = NoPosition
        /\ pool.current_total_deposits = 0 /\ pool.total_pending_yield = 0
        /\ pool.pending_withdrawal_requests = 0
    BY DEF Init, NoPool
  <1>2. /\ NoPosition.deposit_amount = 0 /\ NoPosition.accrued_yield = 0
        /\ ~NoPosition.withdrawal_requested
    BY DEF NoPosition
  <1>3. DepositTotal(position) = 0
    <2> DEFINE f == DepositsOf(position)
    <2>1. \A d \in Depositors : f[d] \in Nat /\ f[d] = 0
      BY <1>1, <1>2 DEF DepositsOf
    <2>2. DepositTotal(position) = Total(f, Depositors)  BY DepositTotalIs
    <2> HIDE DEF f
    <2>3. Total(f, Depositors) = Total(f, {})
      BY <1>0, <2>1, TotalOfRest
    <2> QED  BY <2>2, <2>3, TotalEmpty
  <1>4. AccruedTotal(position) = 0
    <2> DEFINE f == AccruedOf(position)
    <2>1. \A d \in Depositors : f[d] \in Nat /\ f[d] = 0
      BY <1>1, <1>2 DEF AccruedOf
    <2>2. AccruedTotal(position) = Total(f, Depositors)  BY AccruedTotalIs
    <2> HIDE DEF f
    <2>3. Total(f, Depositors) = Total(f, {})
      BY <1>0, <2>1, TotalOfRest
    <2> QED  BY <2>2, <2>3, TotalEmpty
  <1>5. Queued = {}  BY <1>1, <1>2 DEF Queued
  <1>6. QueueCountExact  BY <1>1, <1>5, FS_EmptySet DEF QueueCountExact
  <1>7. QueueNeverStranded  BY <1>5 DEF QueueNeverStranded
  <1>8. AbsentIsEmpty  BY <1>1, <1>2 DEF AbsentIsEmpty
  <1> QED
    BY <1>1, <1>3, <1>4, <1>6, <1>7, <1>8 DEF DepositBooks, TotalsAre

LEMMA NextBooks == Inductive /\ DepositBooks /\ [Next]_vars => DepositBooks'
  <1> SUFFICES ASSUME Inductive, DepositBooks, [Next]_vars PROVE DepositBooks'
    OBVIOUS
  <1>1. TypeOK /\ TypeOK'  BY NextInductive DEF Inductive
  <1>2. ASSUME NEW d \in Depositors, DepositorStep(d) PROVE DepositBooks'
    BY <1>1, <1>2, DepositorBooks, BooksFollowKeeps
  <1>3. CASE OperatorStep \/ OutsideStep \/ UNCHANGED vars
    BY <1>3, OthersStand, BooksStandKeeps
  <1> QED  BY <1>2, <1>3 DEF Next

(* Deposits, yield and queue are accounted for in every reachable state.   *)
THEOREM DepositorsInvariant == Spec => []DepositBooks
  BY InitBooks, NextBooks, PoolInvariant, PTL DEF Spec

(* For any number of depositors, the pool's running totals are at all times*)
(* the sums of their deposits and of their credited yields.                *)
THEOREM TotalsAreAlwaysSums == Spec => []TotalsAreSums
  BY DepositorsInvariant, TotalsAreSumsIs, PTL DEF DepositBooks

(* The counter that guards disabling the queue is at all times the number  *)
(* of depositors who have a request in it.                                 *)
THEOREM QueueCountIsExact == Spec => []QueueCountExact
  BY DepositorsInvariant, PTL DEF DepositBooks

(* No queued withdrawal ever finds the queue disabled under it, or less in *)
(* the deposit than it asked for.                                          *)
THEOREM QueueIsNeverStranded == Spec => []QueueNeverStranded
  BY DepositorsInvariant, PTL DEF DepositBooks
-----------------------------------------------------------------------------
(* What an instruction does to the rest of the pool: its terms, its idle   *)
(* clock, the count of its depositors, and the backing of what it credits. *)

(* A fee below the whole leaves something of what it is taken from.        *)
LEMMA FeeLeavesSome ==
    ASSUME NEW a \in Nat \ {0}, NEW r \in 0 .. FeeDenom - 1
    PROVE  Fee(a, r) < a
  <1>1. FeeDenom \in Nat \ {0}  BY PoolAssumption
  <1> DEFINE x == a * r
             n == x \div FeeDenom
  <1>2. x \in Nat /\ x < a * FeeDenom
    <2>1. r \in Nat /\ FeeDenom - r \in Nat \ {0}  BY <1>1
    <2>2. a * (FeeDenom - r) > 0  BY <2>1
    <2>3. a * (FeeDenom - r) = a * FeeDenom - a * r  BY <1>1, <2>1
    <2> QED  BY <1>1, <2>1, <2>2, <2>3
  <1> HIDE DEF x
  <1>3. n \in Nat /\ n * FeeDenom <= x  BY <1>1, <1>2
  <1> HIDE DEF n
  <1>4. n < a
    <2> SUFFICES ASSUME n >= a PROVE FALSE
      BY <1>3
    <2>1. n * FeeDenom = a * FeeDenom + (n - a) * FeeDenom /\ (n - a) * FeeDenom >= 0
      BY <1>1, <1>3
    <2> QED  BY <1>1, <1>2, <1>3, <2>1
  <1> QED  BY <1>4 DEF Fee, n, x

(* The stamp refresh_idle_since leaves.                                    *)
StampOf(old, deposits, utilized, t) ==
    IF deposits = 0 /\ utilized = 0 THEN IF old = 0 THEN t ELSE old ELSE 0

LEMMA RefreshRest ==
    ASSUME NEW p \in PoolType, NEW t \in Nat
    PROVE  LET f == RefreshIdleSince(p, t)
           IN  /\ f \in PoolType
               /\ f.idle_since = StampOf(p.idle_since, p.current_total_deposits,
                                         p.current_utilized, t)
               /\ f.current_total_deposits = p.current_total_deposits
               /\ f.current_utilized = p.current_utilized
               /\ f.total_pending_yield = p.total_pending_yield
               /\ f.num_depositors = p.num_depositors
               /\ TermsOf(f) = TermsOf(p)
  <1> DEFINE i == StampOf(p.idle_since, p.current_total_deposits,
                          p.current_utilized, t)
             f == RefreshIdleSince(p, t)
  <1>1. f = [p EXCEPT !.idle_since = i]  BY DEF RefreshIdleSince, StampOf
  <1>2. f \in PoolType  BY RefreshType
  <1> HIDE DEF i, f
  <1>3. /\ f.idle_since = i
        /\ f.current_total_deposits = p.current_total_deposits
        /\ f.current_utilized = p.current_utilized
        /\ f.total_pending_yield = p.total_pending_yield
        /\ f.num_depositors = p.num_depositors
    BY <1>1 DEF PoolType
  <1>4. TermsOf(f) = TermsOf(p)  BY <1>1 DEF PoolType, TermsOf, TermFields
  <1> QED  BY <1>2, <1>3, <1>4 DEF i, f

LEMMA WithoutRequestRest ==
    ASSUME NEW p \in PoolType, NEW q \in PositionType
    PROVE  LET f == PoolWithoutRequest(p, q)
           IN  /\ f \in PoolType
               /\ f.idle_since = p.idle_since
               /\ f.current_total_deposits = p.current_total_deposits
               /\ f.current_utilized = p.current_utilized
               /\ f.total_pending_yield = p.total_pending_yield
               /\ f.num_depositors = p.num_depositors
               /\ TermsOf(f) = TermsOf(p)
  <1> DEFINE f == PoolWithoutRequest(p, q)
  <1>1. PICK c \in U64 : f = [p EXCEPT !.pending_withdrawal_requests = c]
    BY WithoutRequestType
  <1>2. f \in PoolType  BY WithoutRequestType
  <1> HIDE DEF f
  <1>3. /\ f.idle_since = p.idle_since
        /\ f.current_total_deposits = p.current_total_deposits
        /\ f.current_utilized = p.current_utilized
        /\ f.total_pending_yield = p.total_pending_yield
        /\ f.num_depositors = p.num_depositors
    BY <1>1 DEF PoolType
  <1>4. TermsOf(f) = TermsOf(p)  BY <1>1 DEF PoolType, TermsOf, TermFields
  <1> QED  BY <1>2, <1>3, <1>4 DEF f

(* Accrual credits only what free liquidity backs.                         *)
LEMMA AccrualRest ==
    ASSUME NEW q \in PoolType, NEW b \in PositionType, NEW t \in Nat,
           AccrualFits(q, b, t)
    PROVE  LET p == AccruedPool(q, b, t)
           IN  /\ p.idle_since = q.idle_since
               /\ p.num_depositors = q.num_depositors
               /\ p.total_pending_yield > q.total_pending_yield =>
                     p.total_pending_yield <= AvailableLiquidity(q)
  <1> DEFINE p == AccruedPool(q, b, t)
             avail == AvailableLiquidity(q)
             c == CreditedYield(q, b, t)
  <1>0. U64Max \in Nat  BY PoolAssumption
  <1>1. CASE t < b.last_yield_update
    <2>1. p = q  BY <1>1 DEF AccruedPool
    <2>2. q.total_pending_yield \in Nat  BY <1>0 DEF PoolType, U64
    <2> HIDE DEF p
    <2> QED  BY <2>1, <2>2 DEF p
  <1>2. CASE ~(t < b.last_yield_update)
    <2>1. t >= b.last_yield_update  BY <1>2 DEF PositionType
    <2>2. c \in Nat /\ avail \in Nat /\ OwedYield(q, b, t) \in Nat
      BY <1>0, <2>1 DEF AccrualFits, Fits
    <2> DEFINE y == q.total_pending_yield + c
    <2>3. p = [q EXCEPT !.total_pending_yield = y]
      BY <1>2 DEF AccruedPool
    <2>4. q.total_pending_yield \in Nat  BY <1>0 DEF PoolType, U64
    <2>5. c > 0 => q.total_pending_yield + c <= avail
      BY <2>2, <2>4 DEF CreditedYield, SaturatingSub, Least
    <2>6. y > q.total_pending_yield => y <= avail
      BY <2>2, <2>4, <2>5
    <2> HIDE DEF p, y
    <2>7. /\ p.idle_since = q.idle_since
          /\ p.num_depositors = q.num_depositors
          /\ p.total_pending_yield = y
      BY <2>3 DEF PoolType
    <2> QED  BY <2>6, <2>7 DEF p
  <1> QED  BY <1>1, <1>2
(* What an instruction of depositor d does to the pool.  Either nothing is *)
(* taken out and the idle clock is left as it is, or something is paid in, *)
(* or an amount of the deposit is paid out.                                *)
PaysOut(d, amount) ==
    /\ pool'.current_total_deposits = pool.current_total_deposits - amount
    /\ amount = position[d].deposit_amount => pool.num_depositors > 0
    /\ pool'.num_depositors =
         IF amount = position[d].deposit_amount THEN pool.num_depositors - 1
                                                ELSE pool.num_depositors
    /\ pool'.idle_since = StampOf(pool.idle_since, pool'.current_total_deposits,
                                  pool'.current_utilized, now)

PaysIn(d) ==
    /\ pool'.current_total_deposits > pool.current_total_deposits
    /\ pool'.num_depositors =
         IF position[d].deposit_amount = 0 THEN pool.num_depositors + 1
                                           ELSE pool.num_depositors
    /\ pool'.idle_since = 0

TakesNothing ==
    /\ pool'.current_total_deposits >= pool.current_total_deposits
    /\ pool'.num_depositors = pool.num_depositors
    /\ pool'.idle_since = pool.idle_since

PoolMoves(d) ==
    /\ TermsOf(pool') = TermsOf(pool)
    /\ pool'.current_utilized = pool.current_utilized
    /\ pool'.total_pending_yield > pool.total_pending_yield =>
          pool'.total_pending_yield <= AvailableLiquidity(pool)
    /\ now' = now
    /\ pendingChange' = pendingChange
    /\ \/ TakesNothing
       \/ PaysIn(d)
       \/ \E amount \in 1 .. position[d].deposit_amount : PaysOut(d, amount)

LEMMA PayPrincipalMoves ==
    ASSUME Inductive, NEW d \in Depositors, NEW amount \in Nat \ {0},
           AccrualFits(pool, position[d], now),
           amount <= position[d].deposit_amount,
           amount <= AvailableLiquidity(AccruedPool(pool, position[d], now)),
           PayPrincipal(d, AccruedPool(pool, position[d], now),
                        AccruedPosition(pool, position[d], now), amount)
    PROVE  PoolMoves(d)
  <1> DEFINE p == AccruedPool(pool, position[d], now)
             pos == AccruedPosition(pool, position[d], now)
             deposits == p.current_total_deposits - amount
             paid == [p EXCEPT !.current_total_deposits = deposits]
             fresh == RefreshIdleSince(paid, now)
             clear == PoolWithoutRequest(fresh, pos)
  <1>0. U64Max \in Nat  BY PoolAssumption
  <1>1. /\ pool \in PoolType /\ position[d] \in PositionType /\ now \in Nat
    BY DEF Inductive, TypeOK
  <1>2. /\ p \in PoolType /\ pos \in PositionType
        /\ p.current_total_deposits = pool.current_total_deposits
        /\ p.current_utilized = pool.current_utilized
        /\ TermsOf(p) = TermsOf(pool)
        /\ pos.deposit_amount = position[d].deposit_amount
    BY <1>1, AccrualEffect
  <1>3. /\ p.idle_since = pool.idle_since
        /\ p.num_depositors = pool.num_depositors
        /\ p.total_pending_yield > pool.total_pending_yield =>
              p.total_pending_yield <= AvailableLiquidity(pool)
    BY <1>1, AccrualRest
  <1>4. /\ position[d].deposit_amount \in Nat
        /\ pool.current_total_deposits \in U64
        /\ pool.current_utilized \in Nat
    BY <1>0, <1>1 DEF PositionType, PoolType, U64
  <1>5. deposits \in U64
    <2>1. amount <= pool.current_total_deposits - pool.current_utilized
      BY <1>2 DEF AvailableLiquidity
    <2> QED  BY <1>0, <1>2, <1>4, <2>1 DEF U64
  <1>6. /\ pool' = [clear EXCEPT !.num_depositors =
                       IF amount = pos.deposit_amount THEN @ - 1 ELSE @]
        /\ amount = pos.deposit_amount => p.num_depositors > 0
        /\ now' = now /\ pendingChange' = pendingChange
    BY DEF PayPrincipal
  <1>7. deposits = pool.current_total_deposits - amount  BY <1>2
  <1> HIDE DEF p, pos, deposits
  <1>8. /\ paid \in PoolType
        /\ paid.current_total_deposits = deposits
        /\ paid.current_utilized = p.current_utilized
        /\ paid.total_pending_yield = p.total_pending_yield
        /\ paid.num_depositors = p.num_depositors
        /\ paid.idle_since = p.idle_since
    BY <1>2, <1>5 DEF PoolType
  <1>9. TermsOf(paid) = TermsOf(p)
    BY <1>2, <1>5 DEF PoolType, TermsOf, TermFields
  <1> HIDE DEF paid
  <1>10. /\ fresh \in PoolType
         /\ fresh.idle_since = StampOf(p.idle_since, deposits,
                                       p.current_utilized, now)
         /\ fresh.current_total_deposits = deposits
         /\ fresh.current_utilized = p.current_utilized
         /\ fresh.total_pending_yield = p.total_pending_yield
         /\ fresh.num_depositors = p.num_depositors
         /\ TermsOf(fresh) = TermsOf(p)
    BY <1>1, <1>8, <1>9, RefreshRest
  <1> HIDE DEF fresh
  <1>11. /\ clear \in PoolType
         /\ clear.idle_since = StampOf(p.idle_since, deposits,
                                       p.current_utilized, now)
         /\ clear.current_total_deposits = deposits
         /\ clear.current_utilized = p.current_utilized
         /\ clear.total_pending_yield = p.total_pending_yield
         /\ clear.num_depositors = p.num_depositors
         /\ TermsOf(clear) = TermsOf(p)
    BY <1>2, <1>10, WithoutRequestRest
  <1> HIDE DEF clear
  <1>12. /\ pool'.idle_since = clear.idle_since
         /\ pool'.current_total_deposits = clear.current_total_deposits
         /\ pool'.current_utilized = clear.current_utilized
         /\ pool'.total_pending_yield = clear.total_pending_yield
         /\ pool'.num_depositors = IF amount = pos.deposit_amount
                                   THEN clear.num_depositors - 1
                                   ELSE clear.num_depositors
    BY <1>6, <1>11 DEF PoolType
  <1>13. TermsOf(pool') = TermsOf(clear)
    BY <1>6, <1>11 DEF PoolType, TermsOf, TermFields
  <1>14. PaysOut(d, amount)
    BY <1>2, <1>3, <1>6, <1>7, <1>11, <1>12 DEF PaysOut
  <1>15. amount \in 1 .. position[d].deposit_amount  BY <1>4
  <1> QED
    BY <1>2, <1>3, <1>6, <1>11, <1>12, <1>13, <1>14, <1>15 DEF PoolMoves

LEMMA QueueMoves ==
    ASSUME Inductive, NEW d \in Depositors, NEW p \in PoolType, NEW pos,
           NEW amount,
           p.current_total_deposits = pool.current_total_deposits,
           p.current_utilized = pool.current_utilized,
           p.idle_since = pool.idle_since,
           p.num_depositors = pool.num_depositors,
           p.total_pending_yield > pool.total_pending_yield =>
              p.total_pending_yield <= AvailableLiquidity(pool),
           TermsOf(p) = TermsOf(pool),
           QueueRequest(d, p, pos, amount)
    PROVE  PoolMoves(d)
  <1>1. /\ pool' = [p EXCEPT !.pending_withdrawal_requests = @ + 1]
        /\ now' = now /\ pendingChange' = pendingChange
    BY DEF QueueRequest
  <1>2. /\ pool'.idle_since = p.idle_since
        /\ pool'.current_total_deposits = p.current_total_deposits
        /\ pool'.current_utilized = p.current_utilized
        /\ pool'.total_pending_yield = p.total_pending_yield
        /\ pool'.num_depositors = p.num_depositors
    BY <1>1 DEF PoolType
  <1>3. TermsOf(pool') = TermsOf(p)
    BY <1>1 DEF PoolType, TermsOf, TermFields
  <1>4. pool'.current_total_deposits >= pool.current_total_deposits
    BY <1>2, PoolAssumption DEF PoolType, U64, Inductive, TypeOK
  <1>5. TakesNothing  BY <1>2, <1>4 DEF TakesNothing
  <1> QED  BY <1>1, <1>2, <1>3, <1>5 DEF PoolMoves

LEMMA WithdrawMoves ==
    ASSUME Inductive, NEW d \in Depositors, NEW amount \in Nat,
           WithdrawFromPool(d, amount)
    PROVE  PoolMoves(d)
  <1> DEFINE p == AccruedPool(pool, position[d], now)
             pos == AccruedPosition(pool, position[d], now)
  <1>1. /\ amount \in Nat \ {0} /\ amount <= position[d].deposit_amount
        /\ AccrualFits(pool, position[d], now)
    BY DEF WithdrawFromPool
  <1>2. CASE amount <= AvailableLiquidity(p) /\ PayPrincipal(d, p, pos, amount)
    BY <1>1, <1>2, PayPrincipalMoves
  <1>3. CASE QueueRequest(d, p, pos, amount)
    <2>1. /\ pool \in PoolType /\ position[d] \in PositionType /\ now \in Nat
      BY DEF Inductive, TypeOK
    <2>2. /\ p \in PoolType
          /\ p.current_total_deposits = pool.current_total_deposits
          /\ p.current_utilized = pool.current_utilized
          /\ TermsOf(p) = TermsOf(pool)
      BY <1>1, <2>1, AccrualEffect
    <2>3. /\ p.idle_since = pool.idle_since
          /\ p.num_depositors = pool.num_depositors
          /\ p.total_pending_yield > pool.total_pending_yield =>
                p.total_pending_yield <= AvailableLiquidity(pool)
      BY <1>1, <2>1, AccrualRest
    <2> HIDE DEF p, pos
    <2> QED  BY <1>3, <2>2, <2>3, QueueMoves
  <1> QED  BY <1>2, <1>3 DEF WithdrawFromPool

LEMMA RequestMoves ==
    ASSUME Inductive, NEW d \in Depositors, NEW amount \in Nat,
           RequestPoolWithdrawal(d, amount)
    PROVE  PoolMoves(d)
  <1>1. pool \in PoolType /\ pool.total_pending_yield \in Nat
    BY PoolAssumption DEF Inductive, TypeOK, PoolType, U64
  <1>2. ~(pool.total_pending_yield > pool.total_pending_yield)  BY <1>1
  <1>3. QueueRequest(d, pool, position[d], amount)
    BY DEF RequestPoolWithdrawal
  <1> QED  BY <1>1, <1>2, <1>3, QueueMoves

LEMMA ProcessMoves ==
    ASSUME Inductive, NEW d \in Depositors, ProcessPoolWithdrawal(d)
    PROVE  PoolMoves(d)
  <1>1. position[d].withdrawal_requested_amount \in Nat
    BY PoolAssumption DEF Inductive, TypeOK, PositionType, U64
  <1> QED  BY <1>1, PayPrincipalMoves DEF ProcessPoolWithdrawal

LEMMA ReturnMoves ==
    ASSUME Inductive, NEW d \in Depositors, OperatorReturnDeposit(d)
    PROVE  PoolMoves(d)
  <1> DEFINE p == AccruedPool(pool, position[d], now)
             pos == AccruedPosition(pool, position[d], now)
             amount == Least(Least(pos.deposit_amount, AvailableLiquidity(p)), vault)
  <1>1. /\ pool \in PoolType /\ position[d] \in PositionType
        /\ now \in Nat /\ vault \in U64
    BY DEF Inductive, TypeOK
  <1>2. AccrualFits(pool, position[d], now) /\ amount > 0
    BY DEF OperatorReturnDeposit
  <1>3. /\ pos \in PositionType
        /\ pos.deposit_amount = position[d].deposit_amount
    BY <1>1, <1>2, AccrualEffect
  <1>4. AvailableLiquidity(p) \in U64  BY DEF OperatorReturnDeposit, Fits, U64
  <1> HIDE DEF p, pos
  <1>5. /\ amount \in Nat \ {0}
        /\ amount <= pos.deposit_amount
        /\ amount <= AvailableLiquidity(p)
    BY <1>1, <1>2, <1>3, <1>4, PoolAssumption DEF Least, PositionType, U64
  <1>6. PayPrincipal(d, p, pos, amount)
    BY DEF OperatorReturnDeposit, p, pos
  <1> HIDE DEF amount
  <1> QED  BY <1>2, <1>3, <1>5, <1>6, PayPrincipalMoves DEF p, pos
LEMMA DepositMoves ==
    ASSUME Inductive, DepositBooks, NEW d \in Depositors, NEW amount \in Nat,
           NEW feeRate \in 0 .. FeeDenom - 1, DepositToPool(d, amount, feeRate)
    PROVE  PoolMoves(d)
  <1> DEFINE before == IF position[d].exists THEN position[d]
                       ELSE FreshPosition(now)
             p      == AccruedPool(pool, before, now)
             pos    == AccruedPosition(pool, before, now)
             net    == amount - Fee(amount, feeRate)
             total  == p.current_total_deposits + net
             funded == [p EXCEPT !.current_total_deposits = total]
             fresh  == RefreshIdleSince(funded, now)
             clear  == PoolWithoutRequest(fresh, pos)
  <1>0. U64Max \in Nat /\ FeeDenom \in Nat \ {0}  BY PoolAssumption
  <1>1. /\ pool \in PoolType /\ position[d] \in PositionType /\ now \in Nat
    BY DEF Inductive, TypeOK
  <1>2. /\ before \in PositionType
        /\ before.deposit_amount = position[d].deposit_amount
    <2>1. CASE position[d].exists  BY <1>1, <2>1
    <2>2. CASE ~position[d].exists
      <3>1. before = FreshPosition(now)  BY <2>2
      <3>2. 0 \in U64  BY <1>0 DEF U64
      <3>3. NoPosition \in PositionType  BY <3>2 DEF NoPosition, PositionType
      <3>4. FreshPosition(now) \in PositionType
        BY <1>1, <3>3 DEF FreshPosition, PositionType
      <3>5. FreshPosition(now).deposit_amount = 0
        BY DEF FreshPosition, NoPosition
      <3> QED
        BY <2>2, <3>1, <3>4, <3>5 DEF DepositBooks, AbsentIsEmpty
    <2> QED  BY <2>1, <2>2
  <1>3. net \in Nat \ {0}
    <2>1. amount > 0  BY DEF DepositToPool
    <2>2. Fee(amount, feeRate) \in Nat  BY <1>0, FeeIsNat
    <2>3. Fee(amount, feeRate) < amount  BY <2>1, FeeLeavesSome
    <2> QED  BY <2>2, <2>3
  <1>4. /\ AccrualFits(pool, before, now)
        /\ pool.current_total_deposits + net \in U64
    BY DEF DepositToPool, Fits, U64
  <1>5. /\ pool' = [clear EXCEPT !.num_depositors =
                       IF pos.deposit_amount = 0 THEN @ + 1 ELSE @]
        /\ now' = now /\ pendingChange' = pendingChange
    BY DEF DepositToPool
  <1> HIDE DEF before, net
  <1>6. /\ p \in PoolType /\ pos \in PositionType
        /\ p.current_total_deposits = pool.current_total_deposits
        /\ p.current_utilized = pool.current_utilized
        /\ TermsOf(p) = TermsOf(pool)
        /\ pos.deposit_amount = before.deposit_amount
    BY <1>1, <1>2, <1>4, AccrualEffect
  <1>7. /\ p.idle_since = pool.idle_since
        /\ p.num_depositors = pool.num_depositors
        /\ p.total_pending_yield > pool.total_pending_yield =>
              p.total_pending_yield <= AvailableLiquidity(pool)
    BY <1>1, <1>2, <1>4, AccrualRest
  <1>8. /\ total \in U64 /\ total > pool.current_total_deposits /\ total # 0
    BY <1>0, <1>1, <1>3, <1>4, <1>6 DEF PoolType, U64
  <1> HIDE DEF p, pos, total
  <1>9. /\ funded \in PoolType
        /\ funded.current_total_deposits = total
        /\ funded.current_utilized = p.current_utilized
        /\ funded.total_pending_yield = p.total_pending_yield
        /\ funded.num_depositors = p.num_depositors
    BY <1>6, <1>8 DEF PoolType
  <1>10. TermsOf(funded) = TermsOf(p)
    BY <1>6, <1>8 DEF PoolType, TermsOf, TermFields
  <1> HIDE DEF funded
  <1>11. /\ fresh \in PoolType
         /\ fresh.idle_since = 0
         /\ fresh.current_total_deposits = total
         /\ fresh.current_utilized = p.current_utilized
         /\ fresh.total_pending_yield = p.total_pending_yield
         /\ fresh.num_depositors = p.num_depositors
         /\ TermsOf(fresh) = TermsOf(p)
    BY <1>1, <1>8, <1>9, <1>10, RefreshRest DEF StampOf
  <1> HIDE DEF fresh
  <1>12. /\ clear \in PoolType
         /\ clear.idle_since = 0
         /\ clear.current_total_deposits = total
         /\ clear.current_utilized = p.current_utilized
         /\ clear.total_pending_yield = p.total_pending_yield
         /\ clear.num_depositors = p.num_depositors
         /\ TermsOf(clear) = TermsOf(p)
    BY <1>6, <1>11, WithoutRequestRest
  <1> HIDE DEF clear
  <1>13. /\ pool'.idle_since = clear.idle_since
         /\ pool'.current_total_deposits = clear.current_total_deposits
         /\ pool'.current_utilized = clear.current_utilized
         /\ pool'.total_pending_yield = clear.total_pending_yield
         /\ pool'.num_depositors = IF pos.deposit_amount = 0
                                   THEN clear.num_depositors + 1
                                   ELSE clear.num_depositors
    BY <1>5, <1>12 DEF PoolType
  <1>14. TermsOf(pool') = TermsOf(clear)
    BY <1>5, <1>12 DEF PoolType, TermsOf, TermFields
  <1>15. PaysIn(d)
    BY <1>2, <1>6, <1>7, <1>8, <1>12, <1>13 DEF PaysIn
  <1> QED  BY <1>5, <1>6, <1>7, <1>12, <1>13, <1>14, <1>15 DEF PoolMoves

(* Claiming and compounding: yield leaves the total of the promised yield, *)
(* and what is gained joins the deposits.                                  *)
LEMMA YieldMoves ==
    ASSUME Inductive, NEW d \in Depositors, NEW p \in PoolType,
           AccrualFits(pool, position[d], now),
           p = AccruedPool(pool, position[d], now),
           NEW gain \in Nat, NEW yield \in Nat, NEW paidOut,
           \/ pool' = [p EXCEPT !.current_total_deposits = p.current_total_deposits + gain,
                                !.total_pending_yield = p.total_pending_yield - yield,
                                !.total_yield_distributed = paidOut]
           \/ pool' = [p EXCEPT !.total_pending_yield = p.total_pending_yield - yield,
                                !.total_yield_distributed = paidOut],
           now' = now, pendingChange' = pendingChange
    PROVE  PoolMoves(d)
  <1>1. /\ pool \in PoolType /\ position[d] \in PositionType /\ now \in Nat
    BY DEF Inductive, TypeOK
  <1>2. /\ p.current_total_deposits = pool.current_total_deposits
        /\ p.current_utilized = pool.current_utilized
        /\ TermsOf(p) = TermsOf(pool)
    BY <1>1, AccrualEffect
  <1>3. /\ p.idle_since = pool.idle_since
        /\ p.num_depositors = pool.num_depositors
        /\ p.total_pending_yield > pool.total_pending_yield =>
              p.total_pending_yield <= AvailableLiquidity(pool)
    BY <1>1, AccrualRest
  <1>4. /\ p.total_pending_yield \in Nat /\ pool.total_pending_yield \in Nat
        /\ p.current_total_deposits \in Nat /\ pool.current_utilized \in Nat
    BY <1>1, <1>2, PoolAssumption DEF PoolType, U64
  <1> DEFINE deposits == p.current_total_deposits + gain
             pending == p.total_pending_yield - yield
  <1>5. /\ deposits \in Nat /\ deposits >= p.current_total_deposits
        /\ pending \in Int /\ pending <= p.total_pending_yield
    BY <1>4
  <1>6. \/ pool' = [p EXCEPT !.current_total_deposits = deposits,
                             !.total_pending_yield = pending,
                             !.total_yield_distributed = paidOut]
        \/ pool' = [p EXCEPT !.total_pending_yield = pending,
                             !.total_yield_distributed = paidOut]
    OBVIOUS
  <1> HIDE DEF deposits, pending
  <1>7. /\ pool'.idle_since = p.idle_since
        /\ pool'.current_total_deposits \in {p.current_total_deposits, deposits}
        /\ pool'.current_utilized = p.current_utilized
        /\ pool'.total_pending_yield = pending
        /\ pool'.num_depositors = p.num_depositors
    BY <1>6 DEF PoolType
  <1>8. TermsOf(pool') = TermsOf(p)
    BY <1>6 DEF PoolType, TermsOf, TermFields
  <1>9. TakesNothing
    BY <1>2, <1>3, <1>4, <1>5, <1>7 DEF TakesNothing
  <1>10. pool'.total_pending_yield > pool.total_pending_yield =>
           pool'.total_pending_yield <= AvailableLiquidity(pool)
    BY <1>1, <1>2, <1>3, <1>4, <1>5, <1>7 DEF AvailableLiquidity
  <1> QED  BY <1>2, <1>7, <1>8, <1>9, <1>10 DEF PoolMoves

LEMMA ClaimMoves ==
    ASSUME Inductive, NEW d \in Depositors, NEW byBot, NEW feeRate \in Nat,
           ClaimPoolYield(d, byBot, feeRate)
    PROVE  PoolMoves(d)
  <1> DEFINE p   == AccruedPool(pool, position[d], now)
             pos == AccruedPosition(pool, position[d], now)
             yield == pos.accrued_yield
             paidOut == p.total_yield_distributed
                          + (yield - Fee(yield, feeRate))
  <1>1. /\ pool \in PoolType /\ position[d] \in PositionType /\ now \in Nat
    BY DEF Inductive, TypeOK
  <1>2. /\ AccrualFits(pool, position[d], now)
        /\ pool' = [p EXCEPT !.total_pending_yield = p.total_pending_yield - yield,
                             !.total_yield_distributed = paidOut]
        /\ now' = now /\ pendingChange' = pendingChange
    BY DEF ClaimPoolYield
  <1>3. p \in PoolType /\ pos \in PositionType  BY <1>1, <1>2, AccrualEffect
  <1>4. yield \in Nat  BY <1>3, PoolAssumption DEF PositionType, U64
  <1>5. p = AccruedPool(pool, position[d], now) /\ 0 \in Nat  OBVIOUS
  <1> HIDE DEF p, pos, paidOut, yield
  <1> QED  BY <1>2, <1>3, <1>4, <1>5, YieldMoves

LEMMA CompoundMoves ==
    ASSUME Inductive, NEW d \in Depositors, NEW byBot, NEW feeRate \in Nat,
           CompoundPoolYield(d, byBot, feeRate)
    PROVE  PoolMoves(d)
  <1> DEFINE p   == AccruedPool(pool, position[d], now)
             pos == AccruedPosition(pool, position[d], now)
             yield == pos.accrued_yield
             net == yield - Fee(yield, feeRate)
             paidOut == p.total_yield_distributed + net
  <1>1. /\ pool \in PoolType /\ position[d] \in PositionType /\ now \in Nat
    BY DEF Inductive, TypeOK
  <1>2. /\ AccrualFits(pool, position[d], now)
        /\ net \in Nat
        /\ pool' = [p EXCEPT !.current_total_deposits = p.current_total_deposits + net,
                             !.total_pending_yield = p.total_pending_yield - yield,
                             !.total_yield_distributed = paidOut]
        /\ now' = now /\ pendingChange' = pendingChange
    BY PoolAssumption DEF CompoundPoolYield, Fits
  <1>3. p \in PoolType /\ pos \in PositionType  BY <1>1, <1>2, AccrualEffect
  <1>4. yield \in Nat  BY <1>3, PoolAssumption DEF PositionType, U64
  <1>5. p = AccruedPool(pool, position[d], now)  OBVIOUS
  <1> HIDE DEF p, pos, paidOut, net, yield
  <1> QED  BY <1>2, <1>3, <1>4, <1>5, YieldMoves

LEMMA PreferenceMoves ==
    ASSUME Inductive, NEW d \in Depositors, NEW preference,
           SetYieldPreference(d, preference)
    PROVE  PoolMoves(d)
  <1>1. /\ pool.total_pending_yield \in Nat
        /\ pool.current_total_deposits \in Nat
    BY PoolAssumption DEF Inductive, TypeOK, PoolType, U64
  <1>2. pool' = pool /\ now' = now /\ pendingChange' = pendingChange
    BY DEF SetYieldPreference
  <1>3. TakesNothing  BY <1>1, <1>2 DEF TakesNothing
  <1> QED  BY <1>1, <1>2, <1>3 DEF PoolMoves

LEMMA DepositorMoves ==
    ASSUME Inductive, DepositBooks, NEW d \in Depositors, DepositorStep(d)
    PROVE  PoolMoves(d)
  <1>1. ASSUME NEW amount \in Amounts, NEW feeRate \in DepositFees,
               DepositToPool(d, amount, feeRate)
        PROVE  PoolMoves(d)
    BY <1>1, DepositMoves, PoolAssumption
  <1>2. ASSUME NEW amount \in Amounts, WithdrawFromPool(d, amount)
        PROVE  PoolMoves(d)
    BY <1>2, WithdrawMoves, PoolAssumption
  <1>3. ASSUME NEW amount \in Amounts, RequestPoolWithdrawal(d, amount)
        PROVE  PoolMoves(d)
    BY <1>3, RequestMoves, PoolAssumption
  <1>4. CASE ProcessPoolWithdrawal(d)  BY <1>4, ProcessMoves
  <1>5. CASE OperatorReturnDeposit(d)  BY <1>5, ReturnMoves
  <1>6. ASSUME NEW preference \in Preferences, SetYieldPreference(d, preference)
        PROVE  PoolMoves(d)
    BY <1>6, PreferenceMoves
  <1>7. ASSUME NEW byBot \in BOOLEAN, NEW feeRate \in YieldFees,
               ClaimPoolYield(d, byBot, feeRate)
        PROVE  PoolMoves(d)
    BY <1>7, ClaimMoves, PoolAssumption
  <1>8. ASSUME NEW byBot \in BOOLEAN, NEW feeRate \in YieldFees,
               CompoundPoolYield(d, byBot, feeRate)
        PROVE  PoolMoves(d)
    BY <1>8, CompoundMoves, PoolAssumption
  <1> QED
    BY <1>1, <1>2, <1>3, <1>4, <1>5, <1>6, <1>7, <1>8 DEF DepositorStep
-----------------------------------------------------------------------------
(* The terms.  An announcement carries the instant it takes effect.        *)
AnnouncedInTime ==
    pendingChange # NoChange =>
        pendingChange.effective_at = pendingChange.proposed_at + Timelock

LEMMA OthersKeepTerms ==
    ASSUME TypeOK, PoolExists, ~ApplyPoolChanges,
           OperatorStep \/ OutsideStep \/ UNCHANGED vars
    PROVE  TermsOf(pool') = TermsOf(pool)
  <1>1. CASE pool' = pool  BY <1>1
  <1>2. ASSUME NEW terms \in Terms, CreatePool(terms) PROVE FALSE
    BY <1>2 DEF CreatePool, PoolExists
  <1>3. CASE PausePool \/ ResumePool \/ ClosePool \/ ExpireIdlePool
    BY <1>3, StatusStands DEF PausePool, ResumePool, ClosePool, ExpireIdlePool
  <1>4. ASSUME NEW amount \in Amounts, NEW contract \in ContractTerms,
               PoolDeployToContract(amount, contract)
        PROVE  TermsOf(pool') = TermsOf(pool)
    BY <1>4, DeployStands, PoolAssumption
  <1>5. ASSUME NEW principal, NEW interest,
             PoolClaimFromEscrow(principal, interest)
      PROVE  TermsOf(pool') = TermsOf(pool)
    BY <1>5, ClaimFromEscrowStands
  <1> QED
    BY <1>1, <1>2, <1>3, <1>4, <1>5
       DEF OperatorStep, OutsideStep, vars, AuthorizePoolOperator,
           RevokePoolOperator, ProposePoolChanges, CancelPoolChanges,
           ContractRepaysPrincipal, ContractPaysInterest, ContractDefaults,
           BotRefundExpiredLender, SetPlatformPaused, Tick

LEMMA ChangeMoves ==
    ASSUME Inductive, DepositBooks, [Next]_vars
    PROVE  \/ pendingChange' = pendingChange
           \/ pendingChange' = NoChange
           \/ /\ pendingChange = NoChange
              /\ \E change \in Changes :
                    pendingChange' = [proposed_at  |-> now,
                                      effective_at |-> now + Timelock,
                                      change       |-> change]
  <1>1. ASSUME NEW d \in Depositors, DepositorStep(d)
        PROVE  pendingChange' = pendingChange
    BY <1>1, DepositorMoves DEF PoolMoves
  <1>2. ASSUME NEW change \in Changes, ProposePoolChanges(change)
        PROVE  /\ pendingChange = NoChange
               /\ pendingChange' = [proposed_at  |-> now,
                                    effective_at |-> now + Timelock,
                                    change       |-> change]
    BY <1>2 DEF ProposePoolChanges
  <1>3. CASE ExpireIdlePool \/ ApplyPoolChanges \/ CancelPoolChanges
    BY <1>3 DEF ExpireIdlePool, ApplyPoolChanges, CancelPoolChanges
  <1> QED
    BY <1>1, <1>2, <1>3
       DEF Next, OperatorStep, OutsideStep, vars, AuthorizePoolOperator,
           RevokePoolOperator, CreatePool, PausePool, ResumePool, ClosePool,
           PoolDeployToContract, PoolClaimFromEscrow,
           ContractRepaysPrincipal, ContractPaysInterest, ContractDefaults,
           BotRefundExpiredLender, SetPlatformPaused, Tick

LEMMA NextAnnounced ==
    ASSUME Inductive, DepositBooks, AnnouncedInTime, [Next]_vars
    PROVE  AnnouncedInTime'
  BY ChangeMoves DEF AnnouncedInTime

(* One step of TermsChangeOnlyAsAnnounced.                                 *)
TermsStep ==
    /\ PoolExists /\ TermsOf(pool') # TermsOf(pool)
          => /\ pendingChange # NoChange
             /\ now >= pendingChange.proposed_at + Timelock
             /\ \A f \in TermFields :
                    pool'[f] \in {pool[f], pendingChange.change[f]}
    /\ pendingChange' # pendingChange
          => NoChange \in {pendingChange, pendingChange'}

LEMMA NextTerms ==
    ASSUME Inductive, DepositBooks, AnnouncedInTime, [Next]_vars
    PROVE  TermsStep
  <1>1. TypeOK  BY DEF Inductive
  <1>2. pendingChange' # pendingChange =>
          NoChange \in {pendingChange, pendingChange'}
    BY ChangeMoves
  <1>3. ASSUME PoolExists, TermsOf(pool') # TermsOf(pool)
        PROVE  /\ pendingChange # NoChange
               /\ now >= pendingChange.proposed_at + Timelock
               /\ \A f \in TermFields :
                      pool'[f] \in {pool[f], pendingChange.change[f]}
    <2>1. ASSUME NEW d \in Depositors, DepositorStep(d) PROVE FALSE
      BY <1>3, <2>1, DepositorMoves DEF PoolMoves
    <2>2. ApplyPoolChanges
      BY <1>1, <1>3, <2>1, OthersKeepTerms DEF Next
    <2>3. pendingChange # NoChange /\ now >= pendingChange.effective_at
      BY <2>2 DEF ApplyPoolChanges
    <2> QED  BY <1>1, <2>2, <2>3, ApplyIs DEF AnnouncedInTime
  <1> QED  BY <1>2, <1>3 DEF TermsStep

(* Whatever terms, changes, timelock and depositors: no term of a pool     *)
(* ever changes but by the change announced at least Timelock before, and  *)
(* no announcement is ever replaced by another.                            *)
THEOREM TermsAlwaysChangeAsAnnounced == Spec => TermsChangeOnlyAsAnnounced
  <1>1. Init => AnnouncedInTime  BY DEF Init, AnnouncedInTime
  <1>2. Spec => []AnnouncedInTime
    BY <1>1, NextAnnounced, PoolInvariant, DepositorsInvariant, PTL DEF Spec
  <1>3. Inductive /\ DepositBooks /\ AnnouncedInTime /\ [Next]_vars
          => [TermsStep]_vars
    BY NextTerms
  <1>4. Spec => [][TermsStep]_vars
    BY <1>2, <1>3, PoolInvariant, DepositorsInvariant, PTL DEF Spec
  <1> QED  BY <1>4 DEF TermsChangeOnlyAsAnnounced, TermsStep

-----------------------------------------------------------------------------
CreditStep ==
    pool'.total_pending_yield > pool.total_pending_yield
        => pool'.total_pending_yield <= AvailableLiquidity(pool)

LEMMA NextCredit ==
    ASSUME Inductive, DepositBooks, [Next]_vars
    PROVE  CreditStep
  <1>1. ASSUME NEW d \in Depositors, DepositorStep(d) PROVE CreditStep
    BY <1>1, DepositorMoves DEF PoolMoves, CreditStep
  <1>2. CASE OperatorStep \/ OutsideStep \/ UNCHANGED vars
    <2>1. pool'.total_pending_yield = pool.total_pending_yield
      BY <1>2, OthersStand DEF BooksStand
    <2>2. pool.total_pending_yield \in Nat
      BY PoolAssumption DEF Inductive, TypeOK, PoolType, U64
    <2> QED  BY <2>1, <2>2 DEF CreditStep
  <1> QED  BY <1>1, <1>2 DEF Next

(* However many depositors accrue, and in whatever order: yield is credited*)
(* only as far as free deposits not yet promised to others back it.        *)
THEOREM CreditedYieldIsAlwaysBacked == Spec => CreditedYieldIsBacked
  <1>1. Inductive /\ DepositBooks /\ [Next]_vars => [CreditStep]_vars
    BY NextCredit
  <1>2. Spec => [][CreditStep]_vars
    BY <1>1, PoolInvariant, DepositorsInvariant, PTL DEF Spec
  <1> QED  BY <1>2 DEF CreditedYieldIsBacked, CreditStep
-----------------------------------------------------------------------------
(* The idle clock.  Compounding into an emptied pool raises its deposits   *)
(* without stopping the clock, so a pool in use may carry an old stamp.    *)
(* It then counts no depositors at all, and the withdrawal that would      *)
(* empty it again needs one to count down.                                 *)

Holders == {d \in Depositors : position[d].deposit_amount > 0}

IdleBooks ==
    /\ pool.num_depositors <= Cardinality(Holders)
    /\ PoolExists /\ ~PoolIsEmpty(pool) /\ pool.idle_since # 0
          => pool.num_depositors = 0

LEMMA HoldersFinite ==
    IsFiniteSet(Holders) /\ Cardinality(Holders) \in Nat
  BY PoolAssumption, FS_Subset, FS_CardinalityType DEF Holders

LEMMA PoolNumbers ==
    ASSUME TypeOK
    PROVE  /\ pool.current_total_deposits \in Nat
           /\ pool.current_utilized \in Nat
           /\ pool.num_depositors \in Nat
           /\ pool.idle_since \in Nat
           /\ now \in Nat
           /\ \A d \in Depositors : position[d].deposit_amount \in Nat
  BY PoolAssumption DEF TypeOK, PoolType, PositionType, U64

LEMMA DepositWithinTotal ==
    ASSUME TypeOK, TotalsAre(pool, position), NEW d \in Depositors
    PROVE  position[d].deposit_amount <= pool.current_total_deposits
  <1> DEFINE f == DepositsOf(position)
             rest == Total(f, Depositors \ {d})
  <1>1. /\ IsFiniteSet(Depositors)
        /\ position \in [Depositors -> PositionType]
    BY PoolAssumption DEF TypeOK
  <1>2. \A x \in Depositors : f[x] \in Nat /\ f[x] = position[x].deposit_amount
    BY <1>1, PositionNumbers
  <1>3. pool.current_total_deposits = Total(f, Depositors)
    BY DepositTotalIs DEF TotalsAre
  <1> HIDE DEF f
  <1>4. Total(f, Depositors) = f[d] + rest  BY <1>1, <1>2, TotalRemove
  <1>5. IsFiniteSet(Depositors \ {d})  BY <1>1, FS_Subset
  <1>6. rest \in Nat  BY <1>2, <1>5, TotalType
  <1> HIDE DEF rest
  <1> QED  BY <1>2, <1>3, <1>4, <1>6

(* The counter never runs ahead of the depositors who hold something.      *)
LEMMA HoldersFollow ==
    ASSUME TypeOK, TypeOK', NEW d \in Depositors, BooksFollow(d),
           PoolMoves(d), pool.num_depositors <= Cardinality(Holders)
    PROVE  pool'.num_depositors <= Cardinality(Holders')
  <1> DEFINE new == {e \in Depositors : position'[e].deposit_amount > 0}
             dep == position[d].deposit_amount
             dep2 == position'[d].deposit_amount
             n == pool.num_depositors
             n2 == pool'.num_depositors
             t == pool.current_total_deposits
             t2 == pool'.current_total_deposits
  <1>1. /\ IsFiniteSet(Holders) /\ Cardinality(Holders) \in Nat
        /\ IsFiniteSet(new) /\ Cardinality(new) \in Nat
        /\ Holders' = new
    BY PoolAssumption, HoldersFinite, FS_Subset, FS_CardinalityType DEF Holders
  <1>2. /\ \A e \in Depositors \ {d} : e \in new <=> e \in Holders
        /\ new \subseteq Depositors /\ Holders \subseteq Depositors
        /\ d \in new <=> dep2 > 0
        /\ d \in Holders <=> dep > 0
    BY DEF BooksFollow, Holders
  <1>3. /\ dep \in Nat /\ dep2 \in Nat /\ n \in Nat /\ n2 \in Nat
        /\ t \in Nat /\ t2 \in Nat
        /\ t2 = t - dep + dep2
        /\ n <= Cardinality(Holders)
    BY PoolAssumption, PoolNumbers
       DEF BooksFollow, TypeOK, PositionType, PoolType, U64
  <1>4. CASE TakesNothing
    <2>1. t2 >= t /\ n2 = n  BY <1>4 DEF TakesNothing
    <2> HIDE DEF new, dep, dep2, n, n2, t, t2
    <2>2. dep2 >= dep  BY <1>3, <2>1
    <2>3. Holders \subseteq new  BY <1>2, <1>3, <2>2
    <2>4. Cardinality(Holders) <= Cardinality(new)  BY <1>1, <2>3, FS_Subset
    <2>5. n2 <= Cardinality(new)  BY <1>1, <1>3, <2>1, <2>4
    <2> QED  BY <1>1, <2>5 DEF n2
  <1>5. CASE PaysIn(d)
    <2>1. t2 > t /\ n2 = IF dep = 0 THEN n + 1 ELSE n  BY <1>5 DEF PaysIn
    <2> HIDE DEF new, dep, dep2, n, n2, t, t2
    <2>2. dep2 > dep  BY <1>3, <2>1
    <2>3. n2 <= Cardinality(new)
      <3>1. CASE dep = 0
        <4>1. new = Holders \union {d} /\ d \notin Holders
          BY <1>2, <1>3, <2>2, <3>1
        <4>2. Cardinality(new) = Cardinality(Holders) + 1
          BY <1>1, <4>1, FS_AddElement
        <4> QED  BY <1>1, <1>3, <2>1, <3>1, <4>2
      <3>2. CASE dep # 0
        <4>1. new = Holders  BY <1>2, <1>3, <2>2, <3>2
        <4> QED  BY <1>1, <1>3, <2>1, <3>2, <4>1
      <3> QED  BY <3>1, <3>2
    <2> QED  BY <1>1, <2>3 DEF n2
  <1>6. ASSUME NEW amount \in 1 .. dep, PaysOut(d, amount)
        PROVE  n2 <= Cardinality(new)
    <2>1. t2 = t - amount /\ n2 = IF amount = dep THEN n - 1 ELSE n
      BY <1>6 DEF PaysOut
    <2> HIDE DEF new, dep, dep2, n, n2, t, t2
    <2>2. dep2 = dep - amount /\ dep > 0  BY <1>3, <2>1
    <2>3. CASE amount = dep
      <3>1. new = Holders \ {d} /\ d \in Holders
        BY <1>2, <1>3, <2>2, <2>3
      <3>2. Cardinality(new) = Cardinality(Holders) - 1
        BY <1>1, <3>1, FS_RemoveElement
      <3> QED  BY <1>1, <1>3, <2>1, <2>3, <3>2
    <2>4. CASE amount # dep
      <3>1. new = Holders  BY <1>2, <1>3, <2>2, <2>4
      <3> QED  BY <1>1, <1>3, <2>1, <2>4, <3>1
    <2> QED  BY <2>3, <2>4
  <1> QED  BY <1>1, <1>4, <1>5, <1>6 DEF PoolMoves

(* One step of IdleClockStartsAtEmpty.                                     *)
IdleStep ==
    PoolExists /\ ~PoolIsEmpty(pool) /\ PoolIsEmpty(pool')
        => pool'.idle_since = now

LEMMA DepositorIdle ==
    ASSUME Inductive, DepositBooks, IdleBooks, NEW d \in Depositors,
           DepositorStep(d)
    PROVE  IdleBooks' /\ IdleStep
  <1>0. TypeOK /\ TypeOK'
    BY NextInductive DEF Inductive, Next
  <1>1. BooksFollow(d) /\ PoolMoves(d)  BY DepositorBooks, DepositorMoves
  <1>2. pool'.num_depositors <= Cardinality(Holders')
    BY <1>0, <1>1, HoldersFollow DEF IdleBooks
  <1>3. PoolExists
    BY DEF DepositorStep, DepositToPool, WithdrawFromPool,
           RequestPoolWithdrawal, ProcessPoolWithdrawal, OperatorReturnDeposit,
           SetYieldPreference, ClaimPoolYield, CompoundPoolYield, PoolExists
  <1>4. /\ pool.current_total_deposits \in Nat
        /\ pool.current_utilized \in Nat
        /\ pool.num_depositors \in Nat
        /\ pool.idle_since \in Nat
        /\ pool'.current_total_deposits \in Nat
        /\ position[d].deposit_amount \in Nat
        /\ pool'.current_utilized = pool.current_utilized
    BY <1>0, <1>1, PoolNumbers, PoolAssumption
       DEF PoolMoves, TypeOK, PoolType, U64
  <1>5. PoolIsEmpty(pool) => pool.num_depositors = 0
    <2> SUFFICES ASSUME pool.current_total_deposits = 0
                 PROVE  pool.num_depositors = 0
      BY DEF PoolIsEmpty
    <2>1. \A e \in Depositors : position[e].deposit_amount = 0
      BY <1>0, DepositWithinTotal, PoolNumbers DEF DepositBooks
    <2>2. Holders = {}  BY <2>1 DEF Holders
    <2> QED  BY <1>4, <2>2, FS_EmptySet DEF IdleBooks
  <1>6. CASE TakesNothing
    <2>1. /\ pool'.current_total_deposits >= pool.current_total_deposits
          /\ pool'.num_depositors = pool.num_depositors
          /\ pool'.idle_since = pool.idle_since
      BY <1>6 DEF TakesNothing
    <2>2. PoolIsEmpty(pool') => PoolIsEmpty(pool)
      BY <1>4, <2>1 DEF PoolIsEmpty
    <2> QED  BY <1>2, <1>3, <1>5, <2>1, <2>2 DEF IdleBooks, IdleStep
  <1>7. CASE PaysIn(d)
    <2>1. pool'.current_total_deposits > 0 /\ pool'.idle_since = 0
      BY <1>4, <1>7 DEF PaysIn
    <2> QED  BY <1>2, <2>1 DEF IdleBooks, IdleStep, PoolIsEmpty
  <1>8. ASSUME NEW amount \in 1 .. position[d].deposit_amount,
               PaysOut(d, amount)
        PROVE  IdleBooks' /\ IdleStep
    <2>1. ~PoolIsEmpty(pool') => pool'.idle_since = 0
      BY <1>8 DEF PaysOut, StampOf, PoolIsEmpty
    <2>2. ASSUME ~PoolIsEmpty(pool), PoolIsEmpty(pool')
          PROVE  pool'.idle_since = now
      <3>1. pool.current_total_deposits = amount
        BY <1>4, <1>8, <2>2 DEF PaysOut, PoolIsEmpty
      <3>2. position[d].deposit_amount <= pool.current_total_deposits
        BY <1>0, DepositWithinTotal DEF DepositBooks
      <3>3. amount = position[d].deposit_amount  BY <1>4, <3>1, <3>2
      <3>4. pool.num_depositors > 0  BY <1>8, <3>3 DEF PaysOut
      <3>5. pool.idle_since = 0  BY <1>3, <2>2, <3>4 DEF IdleBooks
      <3> QED  BY <1>8, <2>2, <3>5 DEF PaysOut, StampOf, PoolIsEmpty
    <2> QED  BY <1>2, <2>1, <2>2 DEF IdleBooks, IdleStep
  <1> QED  BY <1>1, <1>6, <1>7, <1>8 DEF PoolMoves

-----------------------------------------------------------------------------
(* Everybody else leaves the count of depositors alone, and the clock too, *)
(* unless the pool has just become empty or is in use.                     *)
OthersMove ==
    /\ pool'.num_depositors = pool.num_depositors
    /\ \/ PoolIsEmpty(pool')
       \/ pool'.idle_since = 0
       \/ /\ pool'.idle_since = pool.idle_since
          /\ PoolExists /\ ~PoolIsEmpty(pool)
       \/ pool'.status \notin {"Active", "Paused"}

LEMMA SameFields ==
    ASSUME TypeOK, pool'.num_depositors = pool.num_depositors,
           pool'.idle_since = pool.idle_since,
           pool'.current_total_deposits = pool.current_total_deposits,
           pool'.current_utilized = pool.current_utilized,
           pool'.status = pool.status \/ PoolExists
    PROVE  OthersMove
  <1>1. PoolIsEmpty(pool') <=> PoolIsEmpty(pool)  BY DEF PoolIsEmpty
  <1> QED  BY <1>1 DEF OthersMove, PoolExists

LEMMA StatusMoves ==
    ASSUME TypeOK, NEW s, PoolExists, pool' = [pool EXCEPT !.status = s]
    PROVE  OthersMove
  <1>1. /\ pool'.num_depositors = pool.num_depositors
        /\ pool'.idle_since = pool.idle_since
        /\ pool'.current_total_deposits = pool.current_total_deposits
        /\ pool'.current_utilized = pool.current_utilized
    BY DEF TypeOK, PoolType
  <1> QED  BY <1>1, SameFields

LEMMA CreateMoves ==
    ASSUME Inductive, NEW terms \in Terms, CreatePool(terms)
    PROVE  OthersMove
  <1>1. pool = NoPool  BY DEF Inductive, UncreatedIsFresh, CreatePool
  <1>2. /\ pool'.num_depositors = NoPool.num_depositors
        /\ pool'.current_total_deposits = NoPool.current_total_deposits
        /\ pool'.current_utilized = NoPool.current_utilized
    BY DEF CreatePool, NoPool
  <1>3. /\ NoPool.current_total_deposits = 0 /\ NoPool.current_utilized = 0
    BY DEF NoPool
  <1> QED  BY <1>1, <1>2, <1>3 DEF OthersMove, PoolIsEmpty

LEMMA ApplyMoves ==
    ASSUME TypeOK, ApplyPoolChanges
    PROVE  OthersMove
  <1> DEFINE change == pendingChange.change
             rated == IF change.rate_bps = Keep THEN pool
                      ELSE WithNewRate(pool, change.rate_bps, now)
             ring == PushRateHistory(pool.rate_history,
                        [changed_at |-> CurrentRateStart(pool),
                         rate_bps |-> pool.rate_bps])
             New(f) == IF change[f] = Keep THEN pool[f] ELSE change[f]
  <1>1. pool \in PoolType /\ PoolExists  BY DEF TypeOK, ApplyPoolChanges
  <1>2. /\ rated.num_depositors = pool.num_depositors
        /\ rated.idle_since = pool.idle_since
    <2>1. CASE change.rate_bps = Keep  BY <2>1
    <2>2. CASE change.rate_bps # Keep
      <3>1. rated = [pool EXCEPT !.rate_history = ring,
                                 !.rate_bps = change.rate_bps,
                                 !.rate_updated_at = now]
        BY <2>2 DEF WithNewRate
      <3> HIDE DEF rated, ring, change
      <3> QED  BY <1>1, <3>1 DEF PoolType
    <2> QED  BY <2>1, <2>2
  <1>3. rated \in PoolType
    <2>1. CASE change.rate_bps = Keep  BY <1>1, <2>1
    <2>2. CASE change.rate_bps # Keep
      <3>1. change.rate_bps \in Nat /\ now \in Nat
        BY <2>2 DEF ChangeType, TypeOK, ApplyPoolChanges, PendingChangeType
      <3>2. rated = WithNewRate(pool, change.rate_bps, now)  BY <2>2
      <3> QED  BY <1>1, <3>1, <3>2, NewRateType
    <2> QED  BY <2>1, <2>2
  <1>4. pool' = [rated EXCEPT
            !.capacity                 = New("capacity"),
            !.minimum_deposit          = New("minimum_deposit"),
            !.allowed_loan_type        = New("allowed_loan_type"),
            !.min_ltv_bps              = New("min_ltv_bps"),
            !.max_term_days            = New("max_term_days"),
            !.withdrawal_queue_enabled = New("withdrawal_queue_enabled")]
    BY DEF ApplyPoolChanges, PoolWithChange
  <1> HIDE DEF rated, New
  <1>5. /\ pool'.num_depositors = rated.num_depositors
        /\ pool'.idle_since = rated.idle_since
    BY <1>3, <1>4 DEF PoolType
  <1> HIDE DEF change
  <1>6. /\ pool'.current_total_deposits = pool.current_total_deposits
        /\ pool'.current_utilized = pool.current_utilized
    BY ApplyIs DEF BooksStand
  <1> QED  BY <1>1, <1>2, <1>5, <1>6, SameFields

LEMMA DeployMoves ==
    ASSUME TypeOK, NEW amount \in Nat, NEW contract,
           PoolDeployToContract(amount, contract)
    PROVE  OthersMove
  <1> DEFINE used == pool.current_utilized + amount
  <1>1. /\ pool \in PoolType /\ amount > 0 /\ PoolExists
        /\ amount <= pool.current_total_deposits - pool.current_utilized
        /\ pool' = [pool EXCEPT !.current_utilized = used]
    BY DEF TypeOK, PoolDeployToContract, PoolExists, AvailableLiquidity
  <1>2. pool.current_total_deposits # 0
    BY <1>1, PoolNumbers
  <1> HIDE DEF used
  <1>3. /\ pool'.num_depositors = pool.num_depositors
        /\ pool'.idle_since = pool.idle_since
    BY <1>1 DEF PoolType
  <1> QED  BY <1>1, <1>2, <1>3 DEF OthersMove, PoolIsEmpty

LEMMA ClaimFromEscrowMoves ==
    ASSUME TypeOK, NEW principal, NEW interest,
           PoolClaimFromEscrow(principal, interest)
    PROVE  OthersMove
  <1> DEFINE used == pool.current_utilized - principal
             claimed == [pool EXCEPT !.current_utilized = used]
  <1>1. /\ pool \in PoolType /\ now \in Nat
        /\ used \in U64
        /\ pool' = RefreshIdleSince(claimed, now)
    BY DEF TypeOK, PoolClaimFromEscrow, Fits, U64
  <1> HIDE DEF used
  <1>2. /\ claimed \in PoolType
        /\ claimed.num_depositors = pool.num_depositors
    BY <1>1 DEF PoolType
  <1> HIDE DEF claimed
  <1>3. /\ pool'.num_depositors = pool.num_depositors
        /\ pool'.current_total_deposits = claimed.current_total_deposits
        /\ pool'.current_utilized = claimed.current_utilized
        /\ pool'.idle_since =
             StampOf(claimed.idle_since, claimed.current_total_deposits,
                     claimed.current_utilized, now)
    BY <1>1, <1>2, RefreshRest
  <1> QED  BY <1>3 DEF OthersMove, StampOf, PoolIsEmpty

LEMMA OthersIdle ==
    ASSUME Inductive, DepositBooks, IdleBooks,
           OperatorStep \/ OutsideStep \/ UNCHANGED vars
    PROVE  IdleBooks' /\ IdleStep
  <1>0. TypeOK /\ UtilizedWithinDeposits  BY DEF Inductive
  <1>1. BooksStand  BY OthersStand
  <1>2. OthersMove
    <2>1. CASE pool' = pool
      BY <1>0, <2>1, SameFields
    <2>2. ASSUME NEW terms \in Terms, CreatePool(terms) PROVE OthersMove
      BY <2>2, CreateMoves
    <2>3. CASE PausePool \/ ResumePool \/ ClosePool \/ ExpireIdlePool
      BY <1>0, <2>3, StatusMoves
         DEF PausePool, ResumePool, ClosePool, ExpireIdlePool, PoolExists
    <2>4. CASE ApplyPoolChanges  BY <1>0, <2>4, ApplyMoves
    <2>5. ASSUME NEW amount \in Amounts, NEW contract \in ContractTerms,
                 PoolDeployToContract(amount, contract)
          PROVE  OthersMove
      BY <1>0, <2>5, DeployMoves, PoolAssumption
    <2>6. ASSUME NEW principal, NEW interest,
               PoolClaimFromEscrow(principal, interest)
        PROVE  OthersMove
      BY <1>0, <2>6, ClaimFromEscrowMoves
    <2> QED
      BY <2>1, <2>2, <2>3, <2>4, <2>5, <2>6
         DEF OperatorStep, OutsideStep, vars, AuthorizePoolOperator,
             RevokePoolOperator, ProposePoolChanges, CancelPoolChanges,
             ContractRepaysPrincipal, ContractPaysInterest, ContractDefaults,
             BotRefundExpiredLender, SetPlatformPaused, Tick
  <1>3. Holders' = Holders  BY <1>1 DEF BooksStand, Holders
  <1>4. IdleBooks'
    BY <1>2, <1>3 DEF IdleBooks, OthersMove, PoolExists
  <1>5. PoolIsEmpty(pool') => PoolIsEmpty(pool)
    BY <1>0, <1>1, PoolNumbers
       DEF BooksStand, PoolIsEmpty, UtilizedWithinDeposits
  <1> QED  BY <1>4, <1>5 DEF IdleStep

LEMMA NextIdle ==
    ASSUME Inductive, DepositBooks, IdleBooks, [Next]_vars
    PROVE  IdleBooks' /\ IdleStep
  BY DepositorIdle, OthersIdle DEF Next

LEMMA InitIdle == Init => IdleBooks
  <1>1. Init => pool.num_depositors = 0 /\ ~PoolExists
    BY DEF Init, NoPool, PoolExists
  <1> QED  BY <1>1, HoldersFinite DEF IdleBooks

(* However deposits, compounding and loans follow each other, the          *)
(* instruction that empties a pool starts its idle clock then and there:   *)
(* expire_idle_pool never counts a second the pool was in use.             *)
THEOREM IdleClockAlwaysStartsAtEmpty == Spec => IdleClockStartsAtEmpty
  <1>1. Spec => []IdleBooks
    BY InitIdle, NextIdle, PoolInvariant, DepositorsInvariant, PTL DEF Spec
  <1>2. Inductive /\ DepositBooks /\ IdleBooks /\ [Next]_vars
          => [IdleStep]_vars
    BY NextIdle
  <1>3. Spec => [][IdleStep]_vars
    BY <1>1, <1>2, PoolInvariant, DepositorsInvariant, PTL DEF Spec
  <1> QED  BY <1>3 DEF IdleClockStartsAtEmpty, IdleStep
-----------------------------------------------------------------------------
(* The lemmas of RateHistoryProofs hold of a pool.                         *)
LEMMA PoolRates ==
    ASSUME NEW p \in PoolType
    PROVE  RatesTyped(p)
  BY DEF PoolType, RatesTyped

(* What an instruction of depositor d does to what d is due: the yield is  *)
(* brought up to date, and what d then has less of it has been paid, or    *)
(* it is left as it was.  The rates stay.                                  *)
Before(d) == IF position[d].exists THEN position[d] ELSE FreshPosition(now)

Accrues(d) ==
    LET pos == AccruedPosition(pool, Before(d), now)
    IN  /\ AccrualFits(pool, Before(d), now)
        /\ position'[d].exists
        /\ position'[d].last_yield_update = pos.last_yield_update
        /\ position'[d].deferred_yield = pos.deferred_yield
        /\ position'[d].accrued_yield + YieldPaid'
             = pos.accrued_yield + YieldPaid

Waits(d) ==
    /\ position[d].exists /\ position'[d].exists
    /\ position'[d].deposit_amount = position[d].deposit_amount
    /\ position'[d].last_yield_update = position[d].last_yield_update
    /\ position'[d].deferred_yield = position[d].deferred_yield
    /\ position'[d].accrued_yield = position[d].accrued_yield
    /\ YieldPaid' = YieldPaid

YieldFollows(d) ==
    /\ SameRates(pool', pool)
    /\ now' = now
    /\ Accrues(d) \/ Waits(d)

(* No yield leaves, from the pool p and the position pos as accrued.       *)
Keeps(d, p, pos) ==
    /\ SameRates(pool', p)
    /\ pool'.total_yield_distributed = p.total_yield_distributed
    /\ flows' = flows
    /\ now' = now
    /\ position'[d].exists = pos.exists
    /\ position'[d].last_yield_update = pos.last_yield_update
    /\ position'[d].deferred_yield = pos.deferred_yield
    /\ position'[d].accrued_yield = pos.accrued_yield

LEMMA BeforeIs ==
    ASSUME Inductive, NEW d \in Depositors
    PROVE  /\ pool \in PoolType /\ position[d] \in PositionType /\ now \in Nat
           /\ position \in [Depositors -> PositionType]
           /\ Before(d) \in PositionType /\ Before(d).exists
  <1>1. /\ pool \in PoolType /\ position[d] \in PositionType /\ now \in Nat
        /\ position \in [Depositors -> PositionType]
    BY DEF Inductive, TypeOK
  <1>2. FreshPosition(now) \in PositionType /\ FreshPosition(now).exists
    <2>1. 0 \in U64  BY PoolAssumption DEF U64
    <2>2. NoPosition \in PositionType  BY <2>1 DEF NoPosition, PositionType
    <2> QED  BY <1>1, <2>2 DEF FreshPosition, PositionType
  <1> QED  BY <1>1, <1>2 DEF Before

LEMMA AccrualRates ==
    ASSUME NEW q \in PoolType, NEW b \in PositionType, NEW t \in Nat,
           AccrualFits(q, b, t)
    PROVE  SameRates(AccruedPool(q, b, t), q)
  <1> DEFINE p == AccruedPool(q, b, t)
  <1>1. PICK y \in U64 : p = [q EXCEPT !.total_pending_yield = y]
    BY AccruedPoolType
  <1> HIDE DEF p
  <1>2. SameRates(p, q)  BY <1>1 DEF PoolType, SameRates
  <1> QED  BY <1>2 DEF p

LEMMA RefreshRates ==
    ASSUME NEW p \in PoolType, NEW t \in Nat
    PROVE  LET f == RefreshIdleSince(p, t)
           IN  /\ f \in PoolType /\ SameRates(f, p)
               /\ f.total_yield_distributed = p.total_yield_distributed
  <1> DEFINE f == RefreshIdleSince(p, t)
  <1>1. PICK i \in Nat : f = [p EXCEPT !.idle_since = i] /\ f \in PoolType
    BY RefreshType
  <1> HIDE DEF f
  <1>2. SameRates(f, p)
        /\ f.total_yield_distributed = p.total_yield_distributed
    BY <1>1 DEF PoolType, SameRates
  <1> QED  BY <1>1, <1>2 DEF f

LEMMA WithoutRequestRates ==
    ASSUME NEW p \in PoolType, NEW q \in PositionType
    PROVE  LET f == PoolWithoutRequest(p, q)
           IN  /\ f \in PoolType /\ SameRates(f, p)
               /\ f.total_yield_distributed = p.total_yield_distributed
  <1> DEFINE f == PoolWithoutRequest(p, q)
  <1>1. PICK c \in U64 : f = [p EXCEPT !.pending_withdrawal_requests = c]
                         /\ f \in PoolType
    BY WithoutRequestType
  <1> HIDE DEF f
  <1>2. SameRates(f, p)
        /\ f.total_yield_distributed = p.total_yield_distributed
    BY <1>1 DEF PoolType, SameRates
  <1> QED  BY <1>1, <1>2 DEF f

LEMMA WithoutRequestYield ==
    ASSUME NEW q \in PositionType
    PROVE  LET f == PositionWithoutRequest(q)
           IN  /\ f.exists = q.exists
               /\ f.last_yield_update = q.last_yield_update
               /\ f.deferred_yield = q.deferred_yield
               /\ f.accrued_yield = q.accrued_yield
  BY DEF PositionWithoutRequest, PositionType

LEMMA KeptYieldFollows ==
    ASSUME Inductive, NEW d \in Depositors, AccrualFits(pool, Before(d), now),
           Keeps(d, AccruedPool(pool, Before(d), now),
                    AccruedPosition(pool, Before(d), now))
    PROVE  YieldFollows(d)
  <1> DEFINE p == AccruedPool(pool, Before(d), now)
             pos == AccruedPosition(pool, Before(d), now)
  <1>1. /\ pool \in PoolType /\ Before(d) \in PositionType /\ now \in Nat
        /\ Before(d).exists
    BY BeforeIs
  <1>2. /\ p.total_yield_distributed = pool.total_yield_distributed
        /\ pos.exists = Before(d).exists
    BY <1>1, AccrualEffect
  <1>3. SameRates(p, pool)  BY <1>1, AccrualRates
  <1>4. Keeps(d, p, pos)  OBVIOUS
  <1>5. YieldPaid' = YieldPaid  BY <1>2, <1>4 DEF Keeps, YieldPaid
  <1>6. SameRates(pool', pool)  BY <1>3, <1>4 DEF Keeps, SameRates
  <1> HIDE DEF p, pos
  <1>7. Accrues(d)  BY <1>1, <1>2, <1>4, <1>5 DEF Accrues, Keeps, pos
  <1> QED  BY <1>4, <1>6, <1>7 DEF YieldFollows, Keeps

LEMMA PayPrincipalKeeps ==
    ASSUME Inductive, NEW d \in Depositors, NEW p \in PoolType,
           NEW pos \in PositionType, NEW amount \in Nat,
           amount <= pos.deposit_amount,
           amount <= p.current_total_deposits,
           PayPrincipal(d, p, pos, amount)
    PROVE  Keeps(d, p, pos)
  <1> DEFINE deposits == p.current_total_deposits - amount
             paid == [p EXCEPT !.current_total_deposits = deposits]
             fresh == RefreshIdleSince(paid, now)
             clear == PoolWithoutRequest(fresh, pos)
             mine == pos.deposit_amount - amount
             rest == [pos EXCEPT !.deposit_amount = mine]
  <1>1. /\ now \in Nat /\ position \in [Depositors -> PositionType]
        /\ U64Max \in Nat
    BY PoolAssumption DEF Inductive, TypeOK
  <1>2. deposits \in U64 /\ mine \in U64
    BY <1>1 DEF PoolType, PositionType, U64
  <1>3. /\ pool' = [clear EXCEPT !.num_depositors =
                       IF amount = pos.deposit_amount THEN @ - 1 ELSE @]
        /\ position' = [position EXCEPT ![d] = PositionWithoutRequest(rest)]
        /\ flows' = flows /\ now' = now
    BY DEF PayPrincipal
  <1> HIDE DEF deposits, mine
  <1>4. /\ paid \in PoolType /\ SameRates(paid, p)
        /\ paid.total_yield_distributed = p.total_yield_distributed
    BY <1>2 DEF PoolType, SameRates
  <1>5. /\ rest \in PositionType
        /\ rest.exists = pos.exists
        /\ rest.last_yield_update = pos.last_yield_update
        /\ rest.deferred_yield = pos.deferred_yield
        /\ rest.accrued_yield = pos.accrued_yield
    BY <1>2 DEF PositionType
  <1> HIDE DEF paid, rest
  <1>6. /\ fresh \in PoolType /\ SameRates(fresh, paid)
        /\ fresh.total_yield_distributed = paid.total_yield_distributed
    BY <1>1, <1>4, RefreshRates
  <1> HIDE DEF fresh
  <1>7. /\ clear \in PoolType /\ SameRates(clear, fresh)
        /\ clear.total_yield_distributed = fresh.total_yield_distributed
    BY <1>6, WithoutRequestRates
  <1> HIDE DEF clear
  <1>8. /\ SameRates(pool', clear)
        /\ pool'.total_yield_distributed = clear.total_yield_distributed
    BY <1>3, <1>7 DEF PoolType, SameRates
  <1>9. SameRates(pool', p)  BY <1>4, <1>6, <1>7, <1>8 DEF SameRates
  <1>10. position'[d] = PositionWithoutRequest(rest)  BY <1>1, <1>3
  <1>11. /\ position'[d].exists = pos.exists
         /\ position'[d].last_yield_update = pos.last_yield_update
         /\ position'[d].deferred_yield = pos.deferred_yield
         /\ position'[d].accrued_yield = pos.accrued_yield
    BY <1>5, <1>10, WithoutRequestYield
  <1> QED
    BY <1>3, <1>4, <1>6, <1>7, <1>8, <1>9, <1>11 DEF Keeps

LEMMA QueueKeeps ==
    ASSUME Inductive, NEW d \in Depositors, NEW p \in PoolType,
           NEW pos \in PositionType, NEW amount,
           QueueRequest(d, p, pos, amount)
    PROVE  Keeps(d, p, pos)
  <1> DEFINE q == [pos EXCEPT !.withdrawal_requested = TRUE,
                              !.withdrawal_requested_amount = amount]
  <1>1. /\ pool' = [p EXCEPT !.pending_withdrawal_requests = @ + 1]
        /\ position' = [position EXCEPT ![d] = q]
        /\ flows' = flows /\ now' = now
    BY DEF QueueRequest
  <1>2. /\ SameRates(pool', p)
        /\ pool'.total_yield_distributed = p.total_yield_distributed
    BY <1>1 DEF PoolType, SameRates
  <1>3. position \in [Depositors -> PositionType]  BY DEF Inductive, TypeOK
  <1>4. /\ q.exists = pos.exists
        /\ q.last_yield_update = pos.last_yield_update
        /\ q.deferred_yield = pos.deferred_yield
        /\ q.accrued_yield = pos.accrued_yield
    BY DEF PositionType
  <1> HIDE DEF q
  <1>5. position'[d] = q  BY <1>1, <1>3
  <1> QED  BY <1>1, <1>2, <1>4, <1>5 DEF Keeps

(* Paying out as PayPrincipal is called.                                   *)
LEMMA PaidYieldFollows ==
    ASSUME Inductive, NEW d \in Depositors, NEW amount \in Nat,
           position[d].exists, AccrualFits(pool, position[d], now),
           amount <= position[d].deposit_amount,
           amount <= AvailableLiquidity(AccruedPool(pool, position[d], now)),
           PayPrincipal(d, AccruedPool(pool, position[d], now),
                        AccruedPosition(pool, position[d], now), amount)
    PROVE  YieldFollows(d)
  <1> DEFINE p == AccruedPool(pool, position[d], now)
             pos == AccruedPosition(pool, position[d], now)
  <1>1. /\ pool \in PoolType /\ position[d] \in PositionType /\ now \in Nat
        /\ Before(d) = position[d]
    BY BeforeIs DEF Before
  <1>2. /\ p \in PoolType /\ pos \in PositionType
        /\ pos.deposit_amount = position[d].deposit_amount
    BY <1>1, AccrualEffect
  <1>3. amount <= AvailableLiquidity(p) /\ PayPrincipal(d, p, pos, amount)
    OBVIOUS
  <1> HIDE DEF p, pos
  <1>4. amount <= p.current_total_deposits
    BY <1>2, <1>3, PoolAssumption DEF AvailableLiquidity, PoolType, U64
  <1>5. Keeps(d, p, pos)  BY <1>2, <1>3, <1>4, PayPrincipalKeeps
  <1> QED  BY <1>1, <1>5, KeptYieldFollows DEF p, pos

LEMMA WithdrawYield ==
    ASSUME Inductive, NEW d \in Depositors, NEW amount \in Nat,
           WithdrawFromPool(d, amount)
    PROVE  YieldFollows(d)
  <1> DEFINE p == AccruedPool(pool, position[d], now)
             pos == AccruedPosition(pool, position[d], now)
  <1>1. /\ position[d].exists /\ amount <= position[d].deposit_amount
        /\ AccrualFits(pool, position[d], now)
    BY DEF WithdrawFromPool
  <1>2. CASE amount <= AvailableLiquidity(p) /\ PayPrincipal(d, p, pos, amount)
    BY <1>1, <1>2, PaidYieldFollows
  <1>3. CASE QueueRequest(d, p, pos, amount)
    <2>1. /\ pool \in PoolType /\ position[d] \in PositionType /\ now \in Nat
          /\ Before(d) = position[d]
      BY <1>1, BeforeIs DEF Before
    <2>2. p \in PoolType /\ pos \in PositionType  BY <1>1, <2>1, AccrualEffect
    <2> HIDE DEF p, pos
    <2>3. Keeps(d, p, pos)  BY <1>3, <2>2, QueueKeeps
    <2> QED  BY <1>1, <2>1, <2>3, KeptYieldFollows DEF p, pos
  <1> QED  BY <1>2, <1>3 DEF WithdrawFromPool

LEMMA RequestYield ==
    ASSUME Inductive, NEW d \in Depositors, NEW amount \in Nat,
           RequestPoolWithdrawal(d, amount)
    PROVE  YieldFollows(d)
  <1>1. /\ pool \in PoolType /\ position[d] \in PositionType
        /\ position \in [Depositors -> PositionType]
    BY BeforeIs
  <1>2. position[d].exists /\ QueueRequest(d, pool, position[d], amount)
    BY DEF RequestPoolWithdrawal
  <1>3. Keeps(d, pool, position[d])  BY <1>1, <1>2, QueueKeeps
  <1>4. position'[d].deposit_amount = position[d].deposit_amount
    <2> DEFINE q == [position[d] EXCEPT
                        !.withdrawal_requested = TRUE,
                        !.withdrawal_requested_amount = amount]
    <2>1. position' = [position EXCEPT ![d] = q]
      BY <1>2 DEF QueueRequest
    <2>2. q.deposit_amount = position[d].deposit_amount
      BY <1>1 DEF PositionType
    <2> HIDE DEF q
    <2> QED  BY <1>1, <2>1, <2>2
  <1>5. YieldPaid' = YieldPaid  BY <1>3 DEF Keeps, YieldPaid
  <1>6. Waits(d)  BY <1>2, <1>3, <1>4, <1>5 DEF Keeps, Waits
  <1> QED  BY <1>3, <1>6 DEF Keeps, YieldFollows

LEMMA ProcessYield ==
    ASSUME Inductive, NEW d \in Depositors, ProcessPoolWithdrawal(d)
    PROVE  YieldFollows(d)
  <1>1. position[d].withdrawal_requested_amount \in Nat
    BY PoolAssumption DEF Inductive, TypeOK, PositionType, U64
  <1> QED  BY <1>1, PaidYieldFollows DEF ProcessPoolWithdrawal

LEMMA ReturnYield ==
    ASSUME Inductive, NEW d \in Depositors, OperatorReturnDeposit(d)
    PROVE  YieldFollows(d)
  <1> DEFINE p == AccruedPool(pool, position[d], now)
             pos == AccruedPosition(pool, position[d], now)
             amount == Least(Least(pos.deposit_amount, AvailableLiquidity(p)), vault)
  <1>1. /\ pool \in PoolType /\ position[d] \in PositionType
        /\ now \in Nat /\ vault \in U64
    BY DEF Inductive, TypeOK
  <1>2. AccrualFits(pool, position[d], now) /\ amount > 0 /\ position[d].exists
    BY DEF OperatorReturnDeposit
  <1>3. /\ pos \in PositionType
        /\ pos.deposit_amount = position[d].deposit_amount
    BY <1>1, <1>2, AccrualEffect
  <1>4. AvailableLiquidity(p) \in U64  BY DEF OperatorReturnDeposit, Fits, U64
  <1> HIDE DEF p, pos
  <1>5. /\ amount \in Nat
        /\ amount <= pos.deposit_amount
        /\ amount <= AvailableLiquidity(p)
    BY <1>1, <1>2, <1>3, <1>4, PoolAssumption DEF Least, PositionType, U64
  <1>6. PayPrincipal(d, p, pos, amount)
    BY DEF OperatorReturnDeposit, p, pos
  <1> HIDE DEF amount
  <1> QED  BY <1>2, <1>3, <1>5, <1>6, PaidYieldFollows DEF p, pos

LEMMA PreferenceYield ==
    ASSUME Inductive, NEW d \in Depositors, NEW preference,
           SetYieldPreference(d, preference)
    PROVE  YieldFollows(d)
  <1> DEFINE q == [position[d] EXCEPT !.yield_preference = preference]
  <1>1. /\ position[d] \in PositionType
        /\ position \in [Depositors -> PositionType]
    BY BeforeIs
  <1>2. /\ position[d].exists /\ pool' = pool /\ flows' = flows /\ now' = now
        /\ position' = [position EXCEPT ![d] = q]
    BY DEF SetYieldPreference
  <1>3. /\ q.exists = position[d].exists
        /\ q.deposit_amount = position[d].deposit_amount
        /\ q.last_yield_update = position[d].last_yield_update
        /\ q.deferred_yield = position[d].deferred_yield
        /\ q.accrued_yield = position[d].accrued_yield
    BY <1>1 DEF PositionType
  <1> HIDE DEF q
  <1>4. position'[d] = q  BY <1>1, <1>2
  <1>5. YieldPaid' = YieldPaid  BY <1>2 DEF YieldPaid
  <1>6. Waits(d)  BY <1>2, <1>3, <1>4, <1>5 DEF Waits
  <1>7. SameRates(pool', pool)  BY <1>2 DEF SameRates
  <1> QED  BY <1>2, <1>6, <1>7 DEF YieldFollows

LEMMA DepositYield ==
    ASSUME Inductive, NEW d \in Depositors, NEW amount \in Nat,
           NEW feeRate \in Nat, DepositToPool(d, amount, feeRate)
    PROVE  YieldFollows(d)
  <1> DEFINE p      == AccruedPool(pool, Before(d), now)
             pos    == AccruedPosition(pool, Before(d), now)
             net    == amount - Fee(amount, feeRate)
             total  == p.current_total_deposits + net
             mine   == pos.deposit_amount + net
             funded == [p EXCEPT !.current_total_deposits = total]
             fresh  == RefreshIdleSince(funded, now)
             clear  == PoolWithoutRequest(fresh, pos)
             rest   == [pos EXCEPT !.deposit_amount = mine]
  <1>1. /\ pool \in PoolType /\ Before(d) \in PositionType /\ now \in Nat
        /\ position \in [Depositors -> PositionType]
    BY BeforeIs
  <1>2. /\ AccrualFits(pool, Before(d), now)
        /\ pool.current_total_deposits + net \in U64
        /\ mine \in U64
    BY DEF DepositToPool, Before, Fits, U64
  <1>3. /\ pool' = [clear EXCEPT !.num_depositors =
                       IF pos.deposit_amount = 0 THEN @ + 1 ELSE @]
        /\ position' = [position EXCEPT ![d] = PositionWithoutRequest(rest)]
        /\ flows' = flows /\ now' = now
    BY DEF DepositToPool, Before
  <1>4. /\ p \in PoolType /\ pos \in PositionType
        /\ p.current_total_deposits = pool.current_total_deposits
    BY <1>1, <1>2, AccrualEffect
  <1>5. total \in U64  BY <1>2, <1>4
  <1> HIDE DEF p, pos, net, total, mine
  <1>6. /\ funded \in PoolType /\ SameRates(funded, p)
        /\ funded.total_yield_distributed = p.total_yield_distributed
    BY <1>4, <1>5 DEF PoolType, SameRates
  <1>7. /\ rest \in PositionType
        /\ rest.exists = pos.exists
        /\ rest.last_yield_update = pos.last_yield_update
        /\ rest.deferred_yield = pos.deferred_yield
        /\ rest.accrued_yield = pos.accrued_yield
    BY <1>2, <1>4 DEF PositionType
  <1> HIDE DEF funded, rest
  <1>8. /\ fresh \in PoolType /\ SameRates(fresh, funded)
        /\ fresh.total_yield_distributed = funded.total_yield_distributed
    BY <1>1, <1>6, RefreshRates
  <1> HIDE DEF fresh
  <1>9. /\ clear \in PoolType /\ SameRates(clear, fresh)
        /\ clear.total_yield_distributed = fresh.total_yield_distributed
    BY <1>4, <1>8, WithoutRequestRates
  <1> HIDE DEF clear
  <1>10. /\ SameRates(pool', clear)
         /\ pool'.total_yield_distributed = clear.total_yield_distributed
    BY <1>3, <1>9 DEF PoolType, SameRates
  <1>11. SameRates(pool', p)  BY <1>6, <1>8, <1>9, <1>10 DEF SameRates
  <1>12. position'[d] = PositionWithoutRequest(rest)  BY <1>1, <1>3
  <1>13. /\ position'[d].exists = pos.exists
         /\ position'[d].last_yield_update = pos.last_yield_update
         /\ position'[d].deferred_yield = pos.deferred_yield
         /\ position'[d].accrued_yield = pos.accrued_yield
    BY <1>7, <1>12, WithoutRequestYield
  <1>14. Keeps(d, p, pos)
    BY <1>3, <1>6, <1>8, <1>9, <1>10, <1>11, <1>13 DEF Keeps
  <1> QED  BY <1>2, <1>14, KeptYieldFollows DEF p, pos

(* Claiming and compounding: what is taken of the yield is paid.           *)
LEMMA TakenYieldFollows ==
    ASSUME Inductive, NEW d \in Depositors, position[d].exists,
           AccrualFits(pool, position[d], now),
           LET p == AccruedPool(pool, position[d], now)
               pos == AccruedPosition(pool, position[d], now)
           IN  /\ SameRates(pool', p)
               /\ pool'.total_yield_distributed + flows'.yieldFees =
                    p.total_yield_distributed + flows.yieldFees
                      + pos.accrued_yield
               /\ now' = now
               /\ position'[d].exists = pos.exists
               /\ position'[d].last_yield_update = pos.last_yield_update
               /\ position'[d].deferred_yield = pos.deferred_yield
               /\ position'[d].accrued_yield = 0
    PROVE  YieldFollows(d)
  <1> DEFINE p == AccruedPool(pool, position[d], now)
             pos == AccruedPosition(pool, position[d], now)
  <1>1. /\ pool \in PoolType /\ position[d] \in PositionType /\ now \in Nat
        /\ Before(d) = position[d] /\ flows.yieldFees \in Int
    BY BeforeIs DEF Before, Inductive, TypeOK
  <1>2. /\ p.total_yield_distributed = pool.total_yield_distributed
        /\ pos.exists = position[d].exists
        /\ pos \in PositionType
    BY <1>1, AccrualEffect
  <1>3. SameRates(p, pool)  BY <1>1, AccrualRates
  <1>4. /\ SameRates(pool', p)
        /\ pool'.total_yield_distributed + flows'.yieldFees =
             p.total_yield_distributed + flows.yieldFees + pos.accrued_yield
        /\ now' = now
        /\ position'[d].exists = pos.exists
        /\ position'[d].last_yield_update = pos.last_yield_update
        /\ position'[d].deferred_yield = pos.deferred_yield
        /\ position'[d].accrued_yield = 0
    OBVIOUS
  <1> HIDE DEF p, pos
  <1>5. SameRates(pool', pool)  BY <1>3, <1>4 DEF SameRates
  <1>6. /\ pos.accrued_yield \in Nat /\ pool.total_yield_distributed \in Nat
    BY <1>1, <1>2, PoolAssumption DEF PoolType, PositionType, U64
  <1>7. position'[d].accrued_yield + YieldPaid'
          = pos.accrued_yield + YieldPaid
    BY <1>1, <1>2, <1>4, <1>6 DEF YieldPaid
  <1>8. Accrues(d)
    BY <1>1, <1>2, <1>4, <1>7 DEF Accrues, pos
  <1> QED  BY <1>4, <1>5, <1>8 DEF YieldFollows

LEMMA ClaimYield ==
    ASSUME Inductive, NEW d \in Depositors, NEW byBot, NEW feeRate \in Nat,
           ClaimPoolYield(d, byBot, feeRate)
    PROVE  YieldFollows(d)
  <1> DEFINE p   == AccruedPool(pool, position[d], now)
             pos == AccruedPosition(pool, position[d], now)
             yield == pos.accrued_yield
             net == yield - Fee(yield, feeRate)
             pending == p.total_pending_yield - yield
             paidOut == p.total_yield_distributed + net
             fees == flows.yieldFees + (yield - net)
             q   == [pos EXCEPT !.accrued_yield = 0]
  <1>1. /\ pool \in PoolType /\ position[d] \in PositionType /\ now \in Nat
        /\ position \in [Depositors -> PositionType]
        /\ flows \in [interestIn : Nat, refundedIn : Nat, yieldFees : Int]
    BY DEF Inductive, TypeOK
  <1>2. /\ AccrualFits(pool, position[d], now) /\ position[d].exists
        /\ net \in Nat
        /\ pool' = [p EXCEPT !.total_pending_yield = pending,
                             !.total_yield_distributed = paidOut]
        /\ position' = [position EXCEPT ![d] = q]
        /\ flows' = [flows EXCEPT !.yieldFees = fees]
        /\ now' = now
    BY PoolAssumption DEF ClaimPoolYield, Fits
  <1>3. p \in PoolType /\ pos \in PositionType  BY <1>1, <1>2, AccrualEffect
  <1>4. yield \in Nat /\ p.total_yield_distributed \in Nat
    BY <1>3, PoolAssumption DEF PositionType, PoolType, U64
  <1> HIDE DEF p, pos, net, pending
  <1>5. /\ paidOut = p.total_yield_distributed + net
        /\ fees = flows.yieldFees + (yield - net)
    OBVIOUS
  <1> HIDE DEF yield, paidOut, fees
  <1>6. /\ SameRates(pool', p) /\ pool'.total_yield_distributed = paidOut
    BY <1>2, <1>3 DEF PoolType, SameRates
  <1>7. flows'.yieldFees = fees  BY <1>1, <1>2
  <1>8. /\ q.exists = pos.exists
        /\ q.last_yield_update = pos.last_yield_update
        /\ q.deferred_yield = pos.deferred_yield
        /\ q.accrued_yield = 0
    BY <1>3 DEF PositionType
  <1> HIDE DEF q
  <1>9. position'[d] = q  BY <1>1, <1>2
  <1>10. flows.yieldFees \in Int  BY <1>1
  <1>11. pool'.total_yield_distributed + flows'.yieldFees =
           p.total_yield_distributed + flows.yieldFees + pos.accrued_yield
    BY <1>2, <1>4, <1>5, <1>6, <1>7, <1>10 DEF yield
  <1> QED
    BY <1>2, <1>6, <1>8, <1>9, <1>11, TakenYieldFollows DEF p, pos

LEMMA CompoundYield ==
    ASSUME Inductive, NEW d \in Depositors, NEW byBot, NEW feeRate \in Nat,
           CompoundPoolYield(d, byBot, feeRate)
    PROVE  YieldFollows(d)
  <1> DEFINE p   == AccruedPool(pool, position[d], now)
             pos == AccruedPosition(pool, position[d], now)
             yield == pos.accrued_yield
             fee == Fee(yield, feeRate)
             net == yield - fee
             total == p.current_total_deposits + net
             pending == p.total_pending_yield - yield
             paidOut == p.total_yield_distributed + net
             fees == flows.yieldFees + fee
             mine == pos.deposit_amount + net
             q   == [pos EXCEPT !.deposit_amount = mine, !.accrued_yield = 0]
  <1>1. /\ pool \in PoolType /\ position[d] \in PositionType /\ now \in Nat
        /\ position \in [Depositors -> PositionType]
        /\ flows \in [interestIn : Nat, refundedIn : Nat, yieldFees : Int]
    BY DEF Inductive, TypeOK
  <1>2. /\ AccrualFits(pool, position[d], now) /\ position[d].exists
        /\ pool' = [p EXCEPT !.current_total_deposits = total,
                             !.total_pending_yield = pending,
                             !.total_yield_distributed = paidOut]
        /\ position' = [position EXCEPT ![d] = q]
        /\ flows' = [flows EXCEPT !.yieldFees = fees]
        /\ now' = now
    BY DEF CompoundPoolYield
  <1>3. p \in PoolType /\ pos \in PositionType  BY <1>1, <1>2, AccrualEffect
  <1>4. yield \in Nat /\ p.total_yield_distributed \in Nat
    BY <1>3, PoolAssumption DEF PositionType, PoolType, U64
  <1>f. fee \in Nat  BY <1>4, FeeIsNat
  <1> HIDE DEF p, pos, pending, total, mine
  <1>5. /\ paidOut = p.total_yield_distributed + (yield - fee)
        /\ fees = flows.yieldFees + fee
    OBVIOUS
  <1> HIDE DEF yield, fee, paidOut, fees
  <1>6. /\ SameRates(pool', p) /\ pool'.total_yield_distributed = paidOut
    BY <1>2, <1>3 DEF PoolType, SameRates
  <1>7. flows'.yieldFees = fees  BY <1>1, <1>2
  <1>8. /\ q.exists = pos.exists
        /\ q.last_yield_update = pos.last_yield_update
        /\ q.deferred_yield = pos.deferred_yield
        /\ q.accrued_yield = 0
    BY <1>3 DEF PositionType
  <1> HIDE DEF q
  <1>9. position'[d] = q  BY <1>1, <1>2
  <1>10. flows.yieldFees \in Int  BY <1>1
  <1>11. pool'.total_yield_distributed + flows'.yieldFees =
           p.total_yield_distributed + flows.yieldFees + pos.accrued_yield
    BY <1>4, <1>5, <1>6, <1>7, <1>10, <1>f DEF yield
  <1> QED
    BY <1>2, <1>6, <1>8, <1>9, <1>11, TakenYieldFollows DEF p, pos

LEMMA DepositorYield ==
    ASSUME Inductive, NEW d \in Depositors, DepositorStep(d)
    PROVE  YieldFollows(d)
  <1>1. ASSUME NEW amount \in Amounts, NEW feeRate \in DepositFees,
               DepositToPool(d, amount, feeRate)
        PROVE  YieldFollows(d)
    BY <1>1, DepositYield, PoolAssumption
  <1>2. ASSUME NEW amount \in Amounts, WithdrawFromPool(d, amount)
        PROVE  YieldFollows(d)
    BY <1>2, WithdrawYield, PoolAssumption
  <1>3. ASSUME NEW amount \in Amounts, RequestPoolWithdrawal(d, amount)
        PROVE  YieldFollows(d)
    BY <1>3, RequestYield, PoolAssumption
  <1>4. CASE ProcessPoolWithdrawal(d)  BY <1>4, ProcessYield
  <1>5. CASE OperatorReturnDeposit(d)  BY <1>5, ReturnYield
  <1>6. ASSUME NEW preference \in Preferences, SetYieldPreference(d, preference)
        PROVE  YieldFollows(d)
    BY <1>6, PreferenceYield
  <1>7. ASSUME NEW byBot \in BOOLEAN, NEW feeRate \in YieldFees,
               ClaimPoolYield(d, byBot, feeRate)
        PROVE  YieldFollows(d)
    BY <1>7, ClaimYield, PoolAssumption
  <1>8. ASSUME NEW byBot \in BOOLEAN, NEW feeRate \in YieldFees,
               CompoundPoolYield(d, byBot, feeRate)
        PROVE  YieldFollows(d)
    BY <1>8, CompoundYield, PoolAssumption
  <1> QED
    BY <1>1, <1>2, <1>3, <1>4, <1>5, <1>6, <1>7, <1>8 DEF DepositorStep

-----------------------------------------------------------------------------
(* The books of yield: every deposit is up to date to some past instant,   *)
(* and the rates are in order.                                             *)
RateBooks ==
    /\ now >= 1
    /\ \A d \in Depositors : position[d].last_yield_update <= now
    /\ RatesInOrder(pool, now)

LEMMA SameRatesInOrder ==
    ASSUME NEW p \in PoolType, NEW q, SameRates(q, p), NEW t \in Nat,
           NEW u \in Nat, t <= u, RatesInOrder(p, t)
    PROVE  RatesInOrder(q, u)
  <1>1. CurrentRateStart(q) = CurrentRateStart(p)
    BY DEF SameRates, CurrentRateStart
  <1>2. Timeline(q) = Timeline(p)
    BY <1>1 DEF SameRates, Timeline, Current
  <1>3. CurrentRateStart(p) \in Nat  BY TimelineType, PoolRates
  <1> QED  BY <1>1, <1>2, <1>3 DEF SameRates, RatesInOrder

LEMMA AccruedIs ==
    ASSUME NEW p \in PoolType, NEW b \in PositionType, NEW t \in Nat,
           b.last_yield_update <= t
    PROVE  LET pos == AccruedPosition(p, b, t)
               credited == CreditedYield(p, b, t)
           IN  /\ pos.last_yield_update = t
               /\ pos.accrued_yield = b.accrued_yield + credited
               /\ pos.deferred_yield = OwedYield(p, b, t) - credited
  <1> DEFINE mine == b.accrued_yield + CreditedYield(p, b, t)
             later == OwedYield(p, b, t) - CreditedYield(p, b, t)
  <1>1. ~(t < b.last_yield_update)  BY DEF PositionType
  <1>2. AccruedPosition(p, b, t) =
          [b EXCEPT !.accrued_yield = mine, !.deferred_yield = later,
                    !.last_yield_update = t]
    BY <1>1 DEF AccruedPosition
  <1> HIDE DEF mine, later
  <1>3. /\ AccruedPosition(p, b, t).last_yield_update = t
        /\ AccruedPosition(p, b, t).accrued_yield = mine
        /\ AccruedPosition(p, b, t).deferred_yield = later
    BY <1>2 DEF PositionType
  <1> QED  BY <1>3 DEF mine, later

(* Nothing is due to a depositor who was not there.                        *)
LEMMA DueBefore ==
    ASSUME Inductive, RateBooks, NEW d \in Depositors
    PROVE  /\ Before(d).last_yield_update <= now
           /\ YieldDue(pool, position[d], now) =
                Before(d).accrued_yield + OwedYield(pool, Before(d), now)
           /\ Before(d).accrued_yield \in Nat
           /\ OwedYield(pool, Before(d), now) \in Nat
  <1>1. /\ pool \in PoolType /\ position[d] \in PositionType /\ now \in Nat
        /\ Before(d) \in PositionType
    BY BeforeIs
  <1>2. Before(d).last_yield_update <= now
    BY <1>1 DEF Before, FreshPosition, NoPosition, RateBooks
  <1>3. /\ Before(d).accrued_yield \in Nat
        /\ Before(d).deferred_yield \in Nat
        /\ Before(d).deposit_amount \in Nat
        /\ Before(d).last_yield_update \in Nat
    BY <1>1, PoolAssumption DEF PositionType, U64
  <1>4. EarnedYield(pool, Before(d).deposit_amount,
                    Before(d).last_yield_update, now) \in Nat
    BY <1>1, <1>2, <1>3, EarnedIsNat, PoolRates
  <1>5. OwedYield(pool, Before(d), now) \in Nat  BY <1>3, <1>4 DEF OwedYield
  <1>6. CASE position[d].exists
    <2>1. Before(d) = position[d]  BY <1>6 DEF Before
    <2> QED  BY <1>2, <1>3, <1>5, <1>6, <2>1 DEF YieldDue
  <1>7. CASE ~position[d].exists
    <2>1. Before(d) = FreshPosition(now)  BY <1>7 DEF Before
    <2>2. /\ Before(d).accrued_yield = 0 /\ Before(d).deferred_yield = 0
          /\ Before(d).last_yield_update = now
      BY <2>1 DEF FreshPosition, NoPosition
    <2>3. EarnedYield(pool, Before(d).deposit_amount, now, now) = 0
      BY <1>1, <1>3, NothingEarnedAtOnce, PoolRates
    <2>4. OwedYield(pool, Before(d), now) = 0
      BY <2>2, <2>3 DEF OwedYield
    <2>5. YieldDue(pool, position[d], now) = 0  BY <1>7 DEF YieldDue
    <2> QED  BY <1>2, <1>3, <1>5, <2>2, <2>4, <2>5
  <1> QED  BY <1>6, <1>7

LEMMA DueFollows ==
    ASSUME Inductive, TypeOK', RateBooks, NEW d \in Depositors,
           YieldFollows(d)
    PROVE  /\ YieldDue(pool', position'[d], now) + YieldPaid'
                = YieldDue(pool, position[d], now) + YieldPaid
           /\ position'[d].last_yield_update <= now
  <1>1. /\ pool \in PoolType /\ position[d] \in PositionType /\ now \in Nat
        /\ Before(d) \in PositionType
        /\ pool' \in PoolType /\ position'[d] \in PositionType
        /\ YieldPaid \in Int /\ YieldPaid' \in Int
    <2>1. /\ pool' \in PoolType /\ position'[d] \in PositionType
          /\ flows'.yieldFees \in Int /\ flows.yieldFees \in Int
      BY DEF TypeOK, Inductive
    <2>2. pool \in PoolType  BY BeforeIs
    <2>3. /\ pool.total_yield_distributed \in Nat
          /\ pool'.total_yield_distributed \in Nat
      BY <2>1, <2>2, PoolAssumption DEF PoolType, U64
    <2> QED  BY <2>1, <2>3, BeforeIs DEF YieldPaid
  <1>2. /\ Before(d).last_yield_update <= now
        /\ YieldDue(pool, position[d], now) =
             Before(d).accrued_yield + OwedYield(pool, Before(d), now)
        /\ Before(d).accrued_yield \in Nat
        /\ OwedYield(pool, Before(d), now) \in Nat
    BY DueBefore
  <1>3. /\ position'[d].deposit_amount \in Nat
        /\ position'[d].accrued_yield \in Nat
        /\ position'[d].deferred_yield \in Nat
    BY <1>1, PoolAssumption DEF PositionType, U64
  <1>4. CASE Accrues(d)
    <2> DEFINE pos == AccruedPosition(pool, Before(d), now)
               c == CreditedYield(pool, Before(d), now)
               o == OwedYield(pool, Before(d), now)
    <2>1. /\ pos.last_yield_update = now
          /\ pos.accrued_yield = Before(d).accrued_yield + c
          /\ pos.deferred_yield = o - c
      BY <1>1, <1>2, AccruedIs
    <2>2. /\ position'[d].exists
          /\ position'[d].last_yield_update = pos.last_yield_update
          /\ position'[d].deferred_yield = pos.deferred_yield
          /\ position'[d].accrued_yield + YieldPaid'
               = pos.accrued_yield + YieldPaid
          /\ AccrualFits(pool, Before(d), now)
      BY <1>4 DEF Accrues
    <2>3. c \in Nat
      <3>1. now >= Before(d).last_yield_update  BY <1>1, <1>2 DEF PositionType
      <3> QED  BY <2>2, <3>1, PoolAssumption DEF AccrualFits, Fits
    <2>4. o \in Nat  BY <1>2
    <2> HIDE DEF pos, c, o
    <2>5. EarnedYield(pool', position'[d].deposit_amount, now, now) = 0
      BY <1>1, <1>3, NothingEarnedAtOnce, PoolRates
    <2>6. OwedYield(pool', position'[d], now) = o - c
      <3>1. position'[d].last_yield_update = now  BY <2>1, <2>2
      <3>2. OwedYield(pool', position'[d], now) = (o - c) + 0
        BY <2>1, <2>2, <2>5, <3>1 DEF OwedYield
      <3> QED  BY <2>3, <2>4, <3>2
    <2>7. YieldDue(pool', position'[d], now)
            = position'[d].accrued_yield + (o - c)
      BY <2>2, <2>6 DEF YieldDue
    <2>8. YieldDue(pool, position[d], now) = Before(d).accrued_yield + o
      BY <1>2 DEF o
    <2>9. YieldDue(pool', position'[d], now) + YieldPaid'
            = YieldDue(pool, position[d], now) + YieldPaid
      <3> DEFINE x == position'[d].accrued_yield
                 y == YieldPaid'
                 b == Before(d).accrued_yield
                 z == YieldPaid
      <3>1. /\ x \in Int /\ y \in Int /\ b \in Int /\ z \in Int
            /\ c \in Int /\ o \in Int
        BY <1>1, <1>2, <1>3, <2>3, <2>4
      <3>2. x + y = (b + c) + z  BY <2>1, <2>2
      <3>3. /\ YieldDue(pool', position'[d], now) = x + (o - c)
            /\ YieldDue(pool, position[d], now) = b + o
        BY <2>7, <2>8
      <3> HIDE DEF x, y, b, z
      <3>4. (x + (o - c)) + y = (b + o) + z  BY <3>1, <3>2
      <3> QED  BY <3>3, <3>4 DEF y, z
    <2> QED  BY <1>1, <2>1, <2>2, <2>9
  <1>5. CASE Waits(d)
    <2>1. EarnedYield(pool', position'[d].deposit_amount,
                      position'[d].last_yield_update, now)
            = EarnedYield(pool, position[d].deposit_amount,
                          position[d].last_yield_update, now)
      BY <1>5, SameRatesEarn DEF YieldFollows, Waits
    <2>2. OwedYield(pool', position'[d], now)
            = OwedYield(pool, position[d], now)
      BY <1>5, <2>1 DEF OwedYield, Waits
    <2>3. YieldDue(pool', position'[d], now)
            = YieldDue(pool, position[d], now)
      BY <1>5, <2>2 DEF YieldDue, Waits
    <2>4. YieldPaid' = YieldPaid  BY <1>5 DEF Waits
    <2>5. position'[d].last_yield_update <= now
      BY <1>5 DEF Waits, RateBooks
    <2> QED  BY <2>3, <2>4, <2>5
  <1> QED  BY <1>4, <1>5 DEF YieldFollows

-----------------------------------------------------------------------------
(* What all depositors are due, as a sum.                                  *)
DueTotal(p, q, t) == MapThenSumSet(LAMBDA d : YieldDue(p, q[d], t), Depositors)

DueOf(p, q, t) == [d \in Depositors |-> YieldDue(p, q[d], t)]

LEMMA DueTotalIs ==
    ASSUME NEW p, NEW q, NEW t
    PROVE  DueTotal(p, q, t) = Total(DueOf(p, q, t), Depositors)
  <1> DEFINE f == DueOf(p, q, t)
             Step(g, s) == IF s = {} THEN 0
                           ELSE YieldDue(p, q[Picked(s)], t) + g[s \ {Picked(s)}]
             IsStep(g) == g = [s \in SUBSET Depositors |-> Step(g, s)]
  <1>0. IsFiniteSet(Depositors)  BY PoolAssumption
  <1>1. DueTotal(p, q, t) = (CHOOSE g : IsStep(g))[Depositors]
    BY DEF DueTotal, MapThenSumSet, MapThenFoldSet, Picked
  <1>2. \A g : \A s \in SUBSET Depositors : NextSum(f, g, s) = Step(g, s)
    BY DEF NextSum, Picked, DueOf
  <1> HIDE DEF f, Step
  <1>3. \A g : IsSum(f, Depositors, g) <=> IsStep(g)  BY <1>2 DEF IsSum
  <1>4. PICK g : IsSum(f, Depositors, g)  BY <1>0, SumExists
  <1>5. \E h : IsStep(h)  BY <1>3, <1>4
  <1> HIDE DEF IsStep
  <1>6. IsStep(CHOOSE h : IsStep(h))  BY <1>5
  <1>7. IsSum(f, Depositors, CHOOSE h : IsStep(h))  BY <1>3, <1>6
  <1> QED  BY <1>0, <1>1, <1>7, TotalIs DEF f

LEMMA TotalYieldDueIs ==
    /\ TotalYieldDue = DueTotal(pool, position, now)
    /\ TotalYieldDue' = DueTotal(pool', position', now')
  BY DEF TotalYieldDue, DueTotal, MapThenSumSet, MapThenFoldSet

LEMMA DueNumbers ==
    ASSUME NEW p \in PoolType, NEW q \in [Depositors -> PositionType],
           NEW t \in Nat, NEW d \in Depositors, q[d].last_yield_update <= t
    PROVE  /\ DueOf(p, q, t)[d] = YieldDue(p, q[d], t)
           /\ DueOf(p, q, t)[d] \in Nat
  <1>1. /\ q[d].accrued_yield \in Nat /\ q[d].deferred_yield \in Nat
        /\ q[d].deposit_amount \in Nat /\ q[d].last_yield_update \in Nat
    BY PoolAssumption DEF PositionType, U64
  <1>2. EarnedYield(p, q[d].deposit_amount, q[d].last_yield_update, t) \in Nat
    BY <1>1, EarnedIsNat, PoolRates
  <1>3. OwedYield(p, q[d], t) \in Nat  BY <1>1, <1>2 DEF OwedYield
  <1>4. YieldDue(p, q[d], t) \in Nat  BY <1>1, <1>3 DEF YieldDue
  <1> QED  BY <1>4 DEF DueOf

-----------------------------------------------------------------------------
(* Everybody else pays no yield.  The rates change with the terms or when  *)
(* the pool is created, and otherwise stay.                                *)
Created(q, t) ==
    /\ q.created_at = t
    /\ q.rate_updated_at = 0
    /\ q.rate_history = EmptyRing

RatesMove ==
    \/ SameRates(pool', pool)
    \/ ~PoolExists /\ Created(pool', now)
    \/ \E rate \in Nat : NewRate(pool', pool, rate, now)

LEMMA StatusRates ==
    ASSUME TypeOK, NEW s, pool' = [pool EXCEPT !.status = s]
    PROVE  /\ SameRates(pool', pool)
           /\ pool'.total_yield_distributed = pool.total_yield_distributed
  BY DEF TypeOK, PoolType, SameRates

LEMMA CreateRates ==
    ASSUME Inductive, NEW terms \in Terms, CreatePool(terms)
    PROVE  /\ ~PoolExists /\ Created(pool', now)
           /\ pool'.total_yield_distributed = pool.total_yield_distributed
  <1>1. pool = NoPool /\ ~PoolExists
    BY DEF Inductive, UncreatedIsFresh, CreatePool, PoolExists
  <1>2. /\ pool'.created_at = now
        /\ pool'.rate_updated_at = NoPool.rate_updated_at
        /\ pool'.rate_history = NoPool.rate_history
        /\ pool'.total_yield_distributed = NoPool.total_yield_distributed
    BY DEF CreatePool, NoPool
  <1>3. NoPool.rate_updated_at = 0 /\ NoPool.rate_history = EmptyRing
    BY DEF NoPool
  <1> QED  BY <1>1, <1>2, <1>3 DEF Created

LEMMA ApplyRates ==
    ASSUME TypeOK, ApplyPoolChanges
    PROVE  /\ \/ SameRates(pool', pool)
              \/ \E rate \in Nat : NewRate(pool', pool, rate, now)
           /\ pool'.total_yield_distributed = pool.total_yield_distributed
  <1> DEFINE change == pendingChange.change
             rate == change.rate_bps
             rated == IF rate = Keep THEN pool
                      ELSE WithNewRate(pool, rate, now)
             ring == PushRateHistory(pool.rate_history,
                        [changed_at |-> CurrentRateStart(pool),
                         rate_bps |-> pool.rate_bps])
             New(f) == IF change[f] = Keep THEN pool[f] ELSE change[f]
  <1>1. pool \in PoolType  BY DEF TypeOK
  <1>2. /\ rated \in PoolType
        /\ rated.total_yield_distributed = pool.total_yield_distributed
        /\ SameRates(rated, pool) \/ \E r \in Nat : NewRate(rated, pool, r, now)
    <2>1. CASE rate = Keep  BY <1>1, <2>1 DEF SameRates
    <2>2. CASE rate # Keep
      <3>1. rate \in Nat /\ now \in Nat
        BY <2>2 DEF ChangeType, TypeOK, ApplyPoolChanges, PendingChangeType
      <3>2. rated = WithNewRate(pool, rate, now)  BY <2>2
      <3>3. rated \in PoolType  BY <1>1, <3>1, <3>2, NewRateType
      <3>4. rated = [pool EXCEPT !.rate_history = ring, !.rate_bps = rate,
                                 !.rate_updated_at = now]
        BY <3>2 DEF WithNewRate
      <3>5. ring = PushRateHistory(pool.rate_history, Current(pool))
        BY DEF Current
      <3> HIDE DEF rated, ring, rate
      <3>6. /\ rated.created_at = pool.created_at
            /\ rated.rate_bps = rate
            /\ rated.rate_updated_at = now
            /\ rated.rate_history = ring
            /\ rated.total_yield_distributed = pool.total_yield_distributed
        BY <1>1, <3>4 DEF PoolType
      <3>7. NewRate(rated, pool, rate, now)  BY <3>5, <3>6 DEF NewRate
      <3> QED  BY <3>1, <3>3, <3>6, <3>7
    <2> QED  BY <2>1, <2>2
  <1>3. pool' = [rated EXCEPT
            !.capacity                 = New("capacity"),
            !.minimum_deposit          = New("minimum_deposit"),
            !.allowed_loan_type        = New("allowed_loan_type"),
            !.min_ltv_bps              = New("min_ltv_bps"),
            !.max_term_days            = New("max_term_days"),
            !.withdrawal_queue_enabled = New("withdrawal_queue_enabled")]
    BY DEF ApplyPoolChanges, PoolWithChange
  <1> HIDE DEF rated, New
  <1>4. /\ SameRates(pool', rated)
        /\ pool'.total_yield_distributed = rated.total_yield_distributed
    BY <1>2, <1>3 DEF PoolType, SameRates
  <1>5. CASE SameRates(rated, pool)
    <2>1. SameRates(pool', pool)  BY <1>4, <1>5 DEF SameRates
    <2> QED  BY <1>2, <1>4, <2>1
  <1>6. ASSUME NEW r \in Nat, NewRate(rated, pool, r, now)
        PROVE  \E x \in Nat : NewRate(pool', pool, x, now)
    <2>1. NewRate(pool', pool, r, now)
      BY <1>4, <1>6 DEF SameRates, NewRate
    <2> QED  BY <2>1
  <1> QED  BY <1>2, <1>4, <1>5, <1>6

LEMMA DeployRates ==
    ASSUME TypeOK, NEW amount, NEW contract,
           PoolDeployToContract(amount, contract)
    PROVE  /\ SameRates(pool', pool)
           /\ pool'.total_yield_distributed = pool.total_yield_distributed
  <1>1. /\ pool \in PoolType
        /\ pool' = [pool EXCEPT !.current_utilized = @ + amount]
    BY DEF TypeOK, PoolDeployToContract
  <1> QED  BY <1>1 DEF PoolType, SameRates

LEMMA ClaimFromEscrowRates ==
    ASSUME TypeOK, NEW principal, NEW interest,
           PoolClaimFromEscrow(principal, interest)
    PROVE  /\ SameRates(pool', pool)
           /\ pool'.total_yield_distributed = pool.total_yield_distributed
  <1> DEFINE used == pool.current_utilized - principal
             claimed == [pool EXCEPT !.current_utilized = used]
  <1>1. /\ pool \in PoolType /\ now \in Nat /\ used \in U64
        /\ pool' = RefreshIdleSince(claimed, now)
    BY DEF TypeOK, PoolClaimFromEscrow, Fits, U64
  <1> HIDE DEF used
  <1>2. /\ claimed \in PoolType /\ SameRates(claimed, pool)
        /\ claimed.total_yield_distributed = pool.total_yield_distributed
    BY <1>1 DEF PoolType, SameRates
  <1> HIDE DEF claimed
  <1>3. /\ SameRates(pool', claimed)
        /\ pool'.total_yield_distributed = claimed.total_yield_distributed
    BY <1>1, <1>2, RefreshRates
  <1> QED  BY <1>2, <1>3 DEF SameRates

LEMMA OthersFees ==
    ASSUME TypeOK, OperatorStep \/ OutsideStep \/ UNCHANGED vars
    PROVE  flows'.yieldFees = flows.yieldFees
  <1>1. flows \in [interestIn : Nat, refundedIn : Nat, yieldFees : Int]
    BY DEF TypeOK
  <1>2. CASE flows' = flows  BY <1>2
  <1>3. ASSUME NEW principal, NEW interest,
               PoolClaimFromEscrow(principal, interest)
        PROVE  flows'.yieldFees = flows.yieldFees
    BY <1>1, <1>3 DEF PoolClaimFromEscrow
  <1>4. ASSUME NEW amount, BotRefundExpiredLender(amount)
        PROVE  flows'.yieldFees = flows.yieldFees
    BY <1>1, <1>4 DEF BotRefundExpiredLender
  <1> QED
    BY <1>2, <1>3, <1>4
       DEF OperatorStep, OutsideStep, vars, AuthorizePoolOperator,
           RevokePoolOperator, CreatePool, PausePool, ResumePool, ClosePool,
           ExpireIdlePool, ProposePoolChanges, ApplyPoolChanges,
           CancelPoolChanges, PoolDeployToContract,
           ContractRepaysPrincipal, ContractPaysInterest, ContractDefaults,
           SetPlatformPaused, Tick

LEMMA OthersRates ==
    ASSUME Inductive, OperatorStep \/ OutsideStep \/ UNCHANGED vars
    PROVE  /\ RatesMove
           /\ YieldPaid' = YieldPaid
           /\ now' = now \/ (pool' = pool /\ now' = now + 1)
  <1>0. TypeOK  BY DEF Inductive
  <1>1. /\ RatesMove
        /\ pool'.total_yield_distributed = pool.total_yield_distributed
    <2>1. CASE pool' = pool
      BY <2>1 DEF RatesMove, SameRates
    <2>2. ASSUME NEW terms \in Terms, CreatePool(terms)
          PROVE  /\ RatesMove
                 /\ pool'.total_yield_distributed = pool.total_yield_distributed
      BY <2>2, CreateRates DEF RatesMove
    <2>3. CASE PausePool \/ ResumePool \/ ClosePool \/ ExpireIdlePool
      BY <1>0, <2>3, StatusRates
         DEF PausePool, ResumePool, ClosePool, ExpireIdlePool, RatesMove
    <2>4. CASE ApplyPoolChanges  BY <1>0, <2>4, ApplyRates DEF RatesMove
    <2>5. ASSUME NEW amount \in Amounts, NEW contract \in ContractTerms,
                 PoolDeployToContract(amount, contract)
          PROVE  /\ RatesMove
                 /\ pool'.total_yield_distributed = pool.total_yield_distributed
      BY <1>0, <2>5, DeployRates DEF RatesMove
    <2>6. ASSUME NEW principal, NEW interest,
                 PoolClaimFromEscrow(principal, interest)
          PROVE  /\ RatesMove
                 /\ pool'.total_yield_distributed = pool.total_yield_distributed
      BY <1>0, <2>6, ClaimFromEscrowRates DEF RatesMove
    <2> QED
      BY <2>1, <2>2, <2>3, <2>4, <2>5, <2>6
         DEF OperatorStep, OutsideStep, vars, AuthorizePoolOperator,
             RevokePoolOperator, ProposePoolChanges, CancelPoolChanges,
             ContractRepaysPrincipal, ContractPaysInterest, ContractDefaults,
             BotRefundExpiredLender, SetPlatformPaused, Tick
  <1>2. YieldPaid' = YieldPaid  BY <1>0, <1>1, OthersFees DEF YieldPaid
  <1>3. now' = now \/ (pool' = pool /\ now' = now + 1)
    BY DEF OperatorStep, OutsideStep, vars, AuthorizePoolOperator,
           RevokePoolOperator, CreatePool, PausePool, ResumePool, ClosePool,
           ExpireIdlePool, ProposePoolChanges, ApplyPoolChanges,
           CancelPoolChanges, PoolDeployToContract, PoolClaimFromEscrow,
           ContractRepaysPrincipal, ContractPaysInterest, ContractDefaults,
           BotRefundExpiredLender, SetPlatformPaused, Tick
  <1> QED  BY <1>1, <1>2, <1>3

LEMMA CreatedInOrder ==
    ASSUME NEW q \in PoolType, NEW t \in Nat, Created(q, t)
    PROVE  RatesInOrder(q, t)
  <1>1. q.rate_history.len = 0 /\ q.rate_history.head = 0
    BY DEF Created, EmptyRing
  <1>2. RingFills(q.rate_history)  BY <1>1 DEF RingFills
  <1>3. /\ DOMAIN Timeline(q) = 1 .. 0 + 1
        /\ \A i \in 1 .. 0 + 1 : Timeline(q)[i].changed_at \in Nat
    BY <1>1, TimelineType, PoolRates DEF RateHistoryEntry
  <1>4. \A i, j \in 1 .. 0 + 1 : i = j  OBVIOUS
  <1>5. InOrder(Timeline(q))
    <2> SUFFICES ASSUME NEW i \in 1 .. 0 + 1, NEW j \in 1 .. 0 + 1
                 PROVE  Timeline(q)[i].changed_at <= Timeline(q)[j].changed_at
      BY <1>3 DEF InOrder
    <2> QED  BY <1>3, <1>4
  <1>6. CurrentRateStart(q) <= t  BY DEF Created, CurrentRateStart
  <1> QED  BY <1>2, <1>5, <1>6 DEF RatesInOrder

LEMMA InitRates == Init => RateBooks
  <1> SUFFICES ASSUME Init PROVE RateBooks
    OBVIOUS
  <1>1. pool \in PoolType  BY InitInductive DEF Inductive, TypeOK
  <1>2. Created(pool, 0)  BY DEF Init, NoPool, Created
  <1>3. RatesInOrder(pool, 0)  BY <1>1, <1>2, CreatedInOrder
  <1>4. SameRates(pool, pool)  BY DEF SameRates
  <1>5. RatesInOrder(pool, 1)  BY <1>1, <1>3, <1>4, SameRatesInOrder
  <1>6. now = 1 /\ \A d \in Depositors : position[d].last_yield_update = 0
    BY DEF Init, NoPosition
  <1> QED  BY <1>5, <1>6 DEF RateBooks

(* One step of YieldIsConserved.                                           *)
YieldStep ==
    /\ PoolExists /\ now' = now
    /\ \/ pool'.rate_history = pool.rate_history
       \/ \A d \in Depositors :
              position[d].exists =>
                  Remembers(pool', position[d].last_yield_update)
    => TotalYieldDue' + YieldPaid' = TotalYieldDue + YieldPaid

LEMMA StepTypes ==
    ASSUME Inductive, [Next]_vars
    PROVE  /\ pool \in PoolType /\ pool' \in PoolType
           /\ position \in [Depositors -> PositionType]
           /\ position' \in [Depositors -> PositionType]
           /\ now \in Nat
           /\ YieldPaid \in Int /\ YieldPaid' \in Int
           /\ TypeOK /\ TypeOK'
  <1>1. TypeOK /\ TypeOK'  BY NextInductive DEF Inductive
  <1>2. /\ pool \in PoolType /\ pool' \in PoolType
        /\ flows.yieldFees \in Int /\ flows'.yieldFees \in Int
    BY <1>1 DEF TypeOK
  <1>3. /\ pool.total_yield_distributed \in Nat
        /\ pool'.total_yield_distributed \in Nat
    BY <1>2, PoolAssumption DEF PoolType, U64
  <1>4. YieldPaid \in Int /\ YieldPaid' \in Int
    BY <1>2, <1>3 DEF YieldPaid
  <1> QED  BY <1>1, <1>2, <1>4 DEF TypeOK

LEMMA DepositorConserves ==
    ASSUME Inductive, DepositBooks, RateBooks, NEW d \in Depositors,
           DepositorStep(d)
    PROVE  RateBooks' /\ YieldStep
  <1>0. [Next]_vars  BY DEF Next
  <1>1. /\ pool \in PoolType /\ pool' \in PoolType
        /\ position \in [Depositors -> PositionType]
        /\ position' \in [Depositors -> PositionType]
        /\ now \in Nat /\ TypeOK'
        /\ YieldPaid \in Int /\ YieldPaid' \in Int
    BY <1>0, StepTypes
  <1>2. YieldFollows(d)  BY DepositorYield
  <1>3. SameRates(pool', pool) /\ now' = now  BY <1>2 DEF YieldFollows
  <1>4. \A e \in Depositors \ {d} : position'[e] = position[e]
    BY DepositorBooks DEF BooksFollow
  <1>5. /\ YieldDue(pool', position'[d], now) + YieldPaid'
             = YieldDue(pool, position[d], now) + YieldPaid
        /\ position'[d].last_yield_update <= now
    BY <1>1, <1>2, DueFollows
  <1>6. \A e \in Depositors : position'[e].last_yield_update <= now
    BY <1>4, <1>5 DEF RateBooks
  <1>7. RateBooks'
    <2>1. RatesInOrder(pool', now)
      <3>1. RatesInOrder(pool, now) /\ now <= now  BY <1>1 DEF RateBooks
      <3> QED  BY <1>1, <1>3, <3>1, SameRatesInOrder
    <2> QED  BY <1>3, <1>6, <2>1 DEF RateBooks
  <1>8. TotalYieldDue' + YieldPaid' = TotalYieldDue + YieldPaid
    <2> DEFINE f == DueOf(pool, position, now)
               g == DueOf(pool', position', now)
    <2>1. /\ TotalYieldDue = Total(f, Depositors)
          /\ TotalYieldDue' = Total(g, Depositors)
      BY <1>3, TotalYieldDueIs, DueTotalIs
    <2>2. \A e \in Depositors :
             /\ f[e] = YieldDue(pool, position[e], now)
             /\ g[e] = YieldDue(pool', position'[e], now)
             /\ f[e] \in Nat /\ g[e] \in Nat
      BY <1>1, <1>6, DueNumbers DEF RateBooks
    <2>3. \A e \in Depositors \ {d} : g[e] = f[e]
      <3> SUFFICES ASSUME NEW e \in Depositors \ {d} PROVE g[e] = f[e]
        OBVIOUS
      <3>1. EarnedYield(pool', position[e].deposit_amount,
                        position[e].last_yield_update, now)
              = EarnedYield(pool, position[e].deposit_amount,
                            position[e].last_yield_update, now)
        BY <1>3, SameRatesEarn
      <3>2. YieldDue(pool', position[e], now) = YieldDue(pool, position[e], now)
        BY <3>1 DEF YieldDue, OwedYield
      <3> QED  BY <1>4, <2>2, <3>2
    <2>4. g[d] + YieldPaid' = f[d] + YieldPaid  BY <1>5, <2>2
    <2>5. IsFiniteSet(Depositors)  BY PoolAssumption
    <2> HIDE DEF f, g
    <2>6. Total(g, Depositors) = Total(f, Depositors) - f[d] + g[d]
      BY <2>2, <2>3, <2>5, TotalChange
    <2>7. Total(f, Depositors) \in Nat  BY <2>2, <2>5, TotalType
    <2> QED  BY <1>1, <2>1, <2>2, <2>4, <2>6, <2>7
  <1> QED  BY <1>7, <1>8 DEF YieldStep

LEMMA OthersConserve ==
    ASSUME Inductive, DepositBooks, RateBooks, [Next]_vars,
           OperatorStep \/ OutsideStep \/ UNCHANGED vars
    PROVE  RateBooks' /\ YieldStep
  <1>1. /\ pool \in PoolType /\ pool' \in PoolType
        /\ position \in [Depositors -> PositionType]
        /\ now \in Nat
    BY StepTypes
  <1>2. /\ RatesMove
        /\ YieldPaid' = YieldPaid
        /\ now' = now \/ (pool' = pool /\ now' = now + 1)
    BY OthersRates
  <1>3. position' = position  BY OthersStand DEF BooksStand
  <1>4. /\ now >= 1 /\ RatesInOrder(pool, now)
        /\ \A d \in Depositors :
              /\ position[d].last_yield_update \in Nat
              /\ position[d].last_yield_update <= now
    BY <1>1 DEF RateBooks, PositionType
  <1>5. now' \in Nat /\ now <= now'  BY <1>1, <1>2
  <1>6. RatesInOrder(pool', now')
    <2>1. CASE SameRates(pool', pool)
      BY <1>1, <1>4, <1>5, <2>1, SameRatesInOrder
    <2>2. CASE pool' = pool
      <3>1. SameRates(pool', pool)  BY <2>2 DEF SameRates
      <3> QED  BY <2>1, <3>1
    <2>3. CASE now' = now /\ Created(pool', now)
      BY <1>1, <2>3, CreatedInOrder
    <2>4. ASSUME now' = now, NEW rate \in Nat, NewRate(pool', pool, rate, now)
          PROVE  RatesInOrder(pool', now')
      <3>1. RatesInOrder(pool', now)
        BY <1>1, <1>4, <2>4, RatesStayInOrder, PoolRates
      <3> QED  BY <2>4, <3>1
    <2> QED  BY <1>2, <2>1, <2>2, <2>3, <2>4 DEF RatesMove
  <1>7. RateBooks'
    <2>1. \A d \in Depositors : position'[d].last_yield_update <= now'
      BY <1>1, <1>3, <1>4, <1>5
    <2>2. now' >= 1  BY <1>1, <1>4, <1>5
    <2> QED  BY <1>6, <2>1, <2>2 DEF RateBooks
  <1>8. YieldStep
    <2> SUFFICES ASSUME PoolExists, now' = now,
                        \/ pool'.rate_history = pool.rate_history
                        \/ \A d \in Depositors :
                             position[d].exists =>
                               Remembers(pool', position[d].last_yield_update)
                 PROVE  TotalYieldDue' + YieldPaid' = TotalYieldDue + YieldPaid
      BY DEF YieldStep
    <2>1. ASSUME NEW d \in Depositors
          PROVE  YieldDue(pool', position[d], now)
                   = YieldDue(pool, position[d], now)
      <3> DEFINE a == position[d].deposit_amount
                 last == position[d].last_yield_update
      <3>1. a \in Nat /\ last \in Nat /\ last <= now
        BY <1>1, <1>4, PoolAssumption DEF PositionType, U64
      <3>2. position[d].exists =>
              EarnedYield(pool', a, last, now) = EarnedYield(pool, a, last, now)
        <4>1. CASE SameRates(pool', pool)  BY <4>1, SameRatesEarn
        <4>2. ASSUME NEW rate \in Nat, NewRate(pool', pool, rate, now),
                     position[d].exists
              PROVE  EarnedYield(pool', a, last, now)
                       = EarnedYield(pool, a, last, now)
          <5>1. Remembers(pool', last)
                \/ pool'.rate_history = pool.rate_history
            BY <4>2
          <5> HIDE DEF a, last
          <5> QED  BY <1>1, <1>4, <3>1, <4>2, <5>1, EarnedStands,
                      PoolRates
        <4> QED  BY <1>2, <4>1, <4>2 DEF RatesMove
      <3> QED  BY <3>2 DEF YieldDue, OwedYield
    <2>2. DueOf(pool', position', now) = DueOf(pool, position, now)
      BY <1>3, <2>1 DEF DueOf
    <2>3. TotalYieldDue' = TotalYieldDue
      BY <2>2, TotalYieldDueIs, DueTotalIs
    <2> QED  BY <1>2, <2>3
  <1> QED  BY <1>7, <1>8

LEMMA NextConserves ==
    ASSUME Inductive, DepositBooks, RateBooks, [Next]_vars
    PROVE  RateBooks' /\ YieldStep
  BY DepositorConserves, OthersConserve DEF Next

(* The rates a pool has had are kept in the order of their times, and no   *)
(* deposit is credited for time that has not passed: what the segments of  *)
(* calculate_earned_yield are cut from is always a history.                *)
THEOREM RateBooksAreInOrder == Spec => []RateBooks
  BY InitRates, NextConserves, PoolInvariant, DepositorsInvariant, PTL DEF Spec

(* Whatever rates, deposits and withdrawals do, an instruction lowers what *)
(* all depositors together are due by exactly the yield it pays out, as    *)
(* long as the ring remembers the rates they are still to be paid at.      *)
THEOREM YieldIsAlwaysConserved == Spec => YieldIsConserved
  <1>1. Inductive /\ DepositBooks /\ RateBooks /\ [Next]_vars
          => [YieldStep]_vars
    BY NextConserves
  <1>2. Spec => [][YieldStep]_vars
    BY <1>1, RateBooksAreInOrder, PoolInvariant, DepositorsInvariant, PTL
       DEF Spec
  <1> QED  BY <1>2 DEF YieldIsConserved, YieldStep
=============================================================================
