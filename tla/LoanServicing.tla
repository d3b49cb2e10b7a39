--------------------------- MODULE LoanServicing ----------------------------
(***************************************************************************)
(* A funded loan: interest and scheduled principal, payments and what the  *)
(* lenders' escrows get of them, the bot's transfers to the lenders against*)
(* collateral, recalls by lenders of demand loans, and full and partial    *)
(* liquidation (instructions/lending.rs, payment_operations.rs and         *)
(* admin_operations.rs, utils/interest.rs, utils/liquidation.rs).          *)
(*                                                                         *)
(* Callers choose the order in which they pass the lenders' accounts; the  *)
(* one passed last gets the rounding remainder, so distributions have a    *)
(* parameter `last`.  The oracle may quote any price of Prices, whole USDC *)
(* units per unit of collateral.                                           *)
(*                                                                         *)
(* Left out: escrow_token_account, which is set whenever escrow_amount is, *)
(* the bot's own token accounts, and the reimbursement of the bot from the *)
(* operations fund.  Proposals, Trading and Revolving extend this module.  *)
(***************************************************************************)
EXTENDS DebtContract

CONSTANTS
    Payments,         \* the amounts payments and liquidations call with
    TopUps,           \* the amounts add_collateral is called with
    Prices,           \* the prices the oracle may quote
    InterestDenom,    \* ANNUALIZED_BPS_DENOMINATOR, of interest_rate
    InterestFrequency,\* DebtContract.interest_frequency, in days
    BalanceCap,       \* MAX_OUTSTANDING_BALANCE_MULTIPLIER
    Day,              \* clock units in a day
    Grace,            \* RECALL_GRACE_PERIOD_SECONDS
    RecallFeeBps,     \* RECALL_FEE_BPS
    PrepaymentFeeBps, \* PREPAYMENT_FEE_BPS
    LiquidationFeeBps,\* LIQUIDATION_FEE_BPS
    PartialCapBps,    \* PARTIAL_LIQUIDATION_CAP_BPS
    BufferBps,        \* CollateralType.liquidation_buffer_bps
    MaxCollateral     \* bound on add_collateral

ASSUME ServicingConstantsAreNumbers ==
    /\ Payments \subseteq Nat /\ TopUps \subseteq Nat /\ Prices \subseteq Nat
    /\ InterestDenom \in Nat \ {0}
    /\ InterestFrequency \in Nat \ {0}
    /\ BalanceCap \in Nat \ {0} /\ Day \in Nat \ {0} /\ Grace \in Nat
    /\ RecallFeeBps \in 0 .. BpsDenom /\ PrepaymentFeeBps \in 0 .. BpsDenom
    /\ LiquidationFeeBps \in Nat /\ PartialCapBps \in 0 .. BpsDenom
    /\ BufferBps \in Nat /\ MaxCollateral \in Nat

ASSUME LendersAreFinite == IsFiniteSet(Lenders)   \* keys of 32 bytes

OnLoan == contract.status \in {"Active", "PendingRecall"}

(* Instructions that name the contract's collateral account, its collateral*)
(* type or its price feed fail on a loan that was listed without any.      *)
HasCollateralAccount == terms.collateral_amount > 0

-----------------------------------------------------------------------------
(* calculate_interest and process_automatic_interest: interest is added to *)
(* the balance, up to a cap, or kept apart as accrued_interest.            *)
Interest(principal, elapsed) ==
    (principal * terms.interest_rate * elapsed) \div InterestDenom

WithInterest(c) ==
    LET elapsed == now - c.last_interest_update
    IN  IF elapsed <= 0 THEN c
        ELSE IF terms.interest_payment_type = "OutstandingBalance"
        THEN [c EXCEPT
                !.outstanding_balance = Lesser(@ + Interest(@, elapsed),
                                               c.target_amount * BalanceCap),
                !.last_interest_update = now]
        ELSE [c EXCEPT
                !.accrued_interest = @ + Interest(c.target_amount, elapsed),
                !.last_interest_update = now]

(* process_scheduled_principal_payments: after whole periods the balance   *)
(* shrinks by what was due, as if it had been paid.                        *)
PeriodsElapsed(c) ==
    IF terms.principal_frequency = 0 THEN 0
    ELSE (now - c.last_principal_payment) \div (terms.principal_frequency * Day)

ScheduledPrincipal(c) ==
    LET days == PeriodsElapsed(c) * terms.principal_frequency
        expected == Lesser((c.target_amount * days) \div terms.term_days,
                           c.target_amount)
    IN  MinusSaturating(expected, c.total_principal_paid)

WithSchedule(c) ==
    IF PeriodsElapsed(c) = 0 THEN c
    ELSE [c EXCEPT
            !.outstanding_balance = @ - ScheduledPrincipal(c),
            !.total_principal_paid = @ + ScheduledPrincipal(c),
            !.last_principal_payment =
                @ + PeriodsElapsed(c) * terms.principal_frequency * Day]

ScheduleFits(c) ==
    PeriodsElapsed(c) > 0 => ScheduledPrincipal(c) <= c.outstanding_balance

(* update_contract_state and distribute_to_escrows do this and, despite    *)
(* its name, the latter does no more.                                      *)
UpdateContractState ==
    /\ ~isPaused
    /\ contract.status = "Active"
    /\ ScheduleFits(WithInterest(contract))
    /\ contract' = WithSchedule(WithInterest(contract))
    /\ UNCHANGED <<now, isPaused, terms, contribution, escrow, approved,
                   usdc, collateral, treasuryUsdc, totalDebt>>

-----------------------------------------------------------------------------
(* What each lender gets when amount is split pro rata: everybody's share  *)
(* is rounded down but the last lender's, who gets what is left.           *)
FaultyLenderShare(l, last, amount) ==  \* the remainder goes to nobody
    Share(contribution[l].contribution_amount, contract.funded_amount, amount)

LenderShare(l, last, amount) ==
    LET RoundedDown(k) == Share(contribution[k].contribution_amount,
                                contract.funded_amount, amount)
    IN  IF l = last
        THEN MinusSaturating(amount,
                MapThenSumSet(RoundedDown, contract.contributions \ {last}))
        ELSE RoundedDown(l)

FaultyCredited(e, interest, principal) ==  \* escrow_amount is forgotten
    [e EXCEPT !.available_interest = @ + interest,
              !.available_principal = @ + principal,
              !.usdc = @ + interest + principal]

Credited(e, interest, principal) ==
    [e EXCEPT !.available_interest = @ + interest,
              !.available_principal = @ + principal,
              !.escrow_amount = @ + interest + principal,
              !.usdc = @ + interest + principal]

(* All lenders' accounts are there, and none is left over.                 *)
LendersPassed(last) ==
    /\ last \in contract.contributions
    /\ \A l \in contract.contributions : contribution[l].exists /\ escrow[l].exists

-----------------------------------------------------------------------------
(* make_payment and make_payment_with_distribution: interest first, then   *)
(* principal, of which committed loans with a schedule keep a fee.         *)
PrincipalAllocation(principal) ==
    LET fee == IF terms.loan_type = "Committed" /\ terms.principal_frequency > 0
               THEN BpsOf(principal, PrepaymentFeeBps) ELSE 0
    IN  [effective |-> principal - fee, fee |-> fee]

Payment(amount) ==
    LET c == WithSchedule(WithInterest(contract))
        paid == Lesser(amount, c.outstanding_balance + c.accrued_interest)
        interest == Lesser(paid, c.accrued_interest)
        allocation == PrincipalAllocation(paid - interest)
    IN  [paid |-> paid, interest |-> interest,
         effective |-> allocation.effective, fee |-> allocation.fee,
         contract |->
           [c EXCEPT !.accrued_interest = @ - interest,
                     !.outstanding_balance = @ - allocation.effective,
                     !.total_principal_paid = @ + allocation.effective]]

FaultyRepaid(c) ==  \* capitalised interest is forgotten
    c.total_principal_paid >= c.funded_amount /\ c.accrued_interest = 0

Repaid(c) == c.outstanding_balance = 0 /\ c.accrued_interest = 0

MayPay(amount) ==
    /\ ~isPaused
    /\ contract.status = "Active"
    /\ amount > 0
    /\ ScheduleFits(WithInterest(contract))
    /\ Payment(amount).paid > 0

(* The debt shrinks; when nothing is left of it the loan is completed and  *)
(* the borrower gets the collateral back.                                  *)
Settle(payment) ==
    /\ totalDebt' = MinusSaturating(totalDebt, payment.effective)
    /\ IF Repaid(payment.contract)
       THEN /\ contract' = [payment.contract EXCEPT !.status = "Completed",
                                                    !.collateral_amount = 0]
            /\ collateral' = IF contract.collateral_amount > 0 THEN 0
                             ELSE collateral
       ELSE /\ contract' = payment.contract
            /\ UNCHANGED collateral

MakePayment(amount) ==
    LET payment == Payment(amount)
    IN  /\ MayPay(amount)
        /\ Settle(payment)
        /\ usdc' = usdc + payment.paid
        /\ UNCHANGED <<now, isPaused, terms, contribution, escrow, approved,
                       treasuryUsdc>>

MakePaymentWithDistribution(amount, last) ==
    LET payment == Payment(amount)
    IN  /\ MayPay(amount)
        /\ LendersPassed(last)
        /\ Settle(payment)
        /\ escrow' = [l \in Lenders |->
             IF l \notin contract.contributions THEN escrow[l]
             ELSE Credited(escrow[l],
                           LenderShare(l, last, payment.interest)
                             + LenderShare(l, last, payment.fee),
                           LenderShare(l, last, payment.effective))]
        /\ UNCHANGED <<now, isPaused, terms, contribution, approved, usdc,
                       treasuryUsdc>>

AddCollateral(amount) ==
    /\ ~isPaused
    /\ amount > 0
    /\ OnLoan
    /\ HasCollateralAccount
    /\ collateral + amount <= MaxCollateral
    /\ collateral' = collateral + amount
    /\ contract' = [contract EXCEPT !.collateral_amount = @ + amount]
    /\ UNCHANGED <<now, isPaused, terms, contribution, escrow, approved,
                   usdc, treasuryUsdc, totalDebt>>

-----------------------------------------------------------------------------
(* Automated transfers: the bot pays the lenders' wallets what is due, out *)
(* of its own pocket, and takes collateral for it.                         *)

(* calculate_collateral_withdraw                                           *)
CollateralWithdraw(amount, paid, debt) ==
    IF paid = 0 \/ amount = 0 THEN 0 ELSE Share(paid, debt, amount)

CollateralIsEnough(amount, paid, debt) ==
    paid > 0 /\ amount > 0 =>
        /\ debt > 0
        /\ CollateralWithdraw(amount, paid, debt) <= Lesser(amount, collateral)

(* The due dates follow the last updates, as update_bot_tracking sets them.*)
(* distribute_to_escrows alone leaves them behind; a transfer that is early*)
(* because of that is left out.                                            *)
InterestPaymentDue ==
    now >= contract.last_interest_update + InterestFrequency * Day

PrincipalPaymentDue ==
    /\ terms.principal_frequency > 0
    /\ now >= contract.last_principal_payment + terms.principal_frequency * Day

(* Interest that is accrued apart is paid by the bot.  Interest added to   *)
(* the balance leaves nothing accrued to pay.                              *)
AutomatedInterestTransfer(last) ==
    LET c == WithInterest(contract)
        paidByBot == terms.interest_payment_type = "CollateralTransfer"
        withdrawn == IF paidByBot
                     THEN CollateralWithdraw(c.collateral_amount,
                             c.accrued_interest, c.outstanding_balance)
                     ELSE 0
        fromContract == IF paidByBot THEN 0 ELSE c.accrued_interest
    IN  /\ ~isPaused
        /\ contract.status = "Active"
        /\ InterestPaymentDue
        /\ LendersPassed(last)
        /\ usdc >= fromContract
        /\ paidByBot => CollateralIsEnough(c.collateral_amount,
                            c.accrued_interest, c.outstanding_balance)
        /\ contract' = [c EXCEPT !.accrued_interest = 0,
                                 !.last_interest_update = now,
                                 !.collateral_amount = @ - withdrawn]
        /\ collateral' = collateral - withdrawn
        /\ usdc' = usdc - fromContract
        /\ UNCHANGED <<now, isPaused, terms, contribution, escrow, approved,
                       treasuryUsdc, totalDebt>>

(* Whatever total_principal_paid has come to since the last transfer.  The *)
(* share of the collateral is taken of the balance before this period's    *)
(* interest and principal.                                                 *)
AutomatedPrincipalTransfer(last) ==
    LET c == WithSchedule(WithInterest(contract))
        debt == contract.outstanding_balance
        withdrawn == CollateralWithdraw(c.collateral_amount,
                                        c.total_principal_paid, debt)
    IN  /\ ~isPaused
        /\ contract.status = "Active"
        /\ PrincipalPaymentDue
        /\ ScheduleFits(WithInterest(contract))
        /\ c.total_principal_paid > 0
        /\ LendersPassed(last)
        /\ CollateralIsEnough(c.collateral_amount, c.total_principal_paid, debt)
        /\ contract' = [c EXCEPT !.collateral_amount = @ - withdrawn,
                                 !.total_principal_paid = 0,
                                 !.last_principal_payment = now]
        /\ collateral' = collateral - withdrawn
        /\ UNCHANGED <<now, isPaused, terms, contribution, escrow, approved,
                       usdc, treasuryUsdc, totalDebt>>

-----------------------------------------------------------------------------
(* Recalls: a lender of a demand loan asks for its money back; the borrower*)
(* repays it within the grace period, or the bot does afterwards.          *)

FaultyRequestRecall(l) ==  \* also of a loan that is paid back
    /\ ~isPaused
    /\ terms.loan_type = "Demand"
    /\ ~contract.recall_requested
    /\ contribution[l].exists /\ ~contribution[l].is_refunded
    /\ contract' = [contract EXCEPT !.status = "PendingRecall",
                                    !.recall_requested = TRUE,
                                    !.recall_requested_at = now,
                                    !.recall_requested_by = l]
    /\ UNCHANGED <<now, isPaused, terms, contribution, escrow, approved,
                   usdc, collateral, treasuryUsdc, totalDebt>>

RequestRecall(l) ==
    /\ ~isPaused
    /\ contract.status = "Active"
    /\ terms.loan_type = "Demand"
    /\ ~contract.recall_requested
    /\ contribution[l].exists /\ ~contribution[l].is_refunded
    /\ contribution[l].contribution_amount > 0
    /\ contract' = [contract EXCEPT !.status = "PendingRecall",
                                    !.recall_requested = TRUE,
                                    !.recall_requested_at = now,
                                    !.recall_requested_by = l]
    /\ UNCHANGED <<now, isPaused, terms, contribution, escrow, approved,
                   usdc, collateral, treasuryUsdc, totalDebt>>

(* The recalling lender's part of the debt, calculate_recall_debt_share,   *)
(* and of the collateral, calculate_proportional_collateral.               *)
FaultyRecallPart(l, amount) ==  \* rounded up, at the others' expense
    LET funded == contract.funded_amount
    IN  (contribution[l].contribution_amount * amount + funded - 1) \div funded

RecallPart(l, amount) ==
    Share(contribution[l].contribution_amount, contract.funded_amount, amount)

FaultyWithoutLender(l) ==  \* the request stays
    LET remaining == contract.contributions \ {l}
        debt == contract.outstanding_balance
                  - RecallPart(l, contract.outstanding_balance)
    IN  [contract EXCEPT
            !.outstanding_balance = debt,
            !.collateral_amount = @ - RecallPart(l, @),
            !.funded_amount = @ - contribution[l].contribution_amount,
            !.contributions = remaining,
            !.num_contributions = Cardinality(remaining),
            !.status = IF debt = 0 \/ remaining = {} THEN "Completed"
                       ELSE "Active"]

WithoutLender(l) ==
    LET remaining == contract.contributions \ {l}
        debt == contract.outstanding_balance
                  - RecallPart(l, contract.outstanding_balance)
    IN  [contract EXCEPT
            !.outstanding_balance = debt,
            !.collateral_amount = @ - RecallPart(l, @),
            !.funded_amount = @ - contribution[l].contribution_amount,
            !.contributions = remaining,
            !.num_contributions = Cardinality(remaining),
            !.recall_requested = FALSE,
            !.recall_requested_at = 0,
            !.recall_requested_by = Nobody,
            !.status = IF debt = 0 \/ remaining = {} THEN "Completed"
                       ELSE "Active"]

MaySettleRecall(l) ==
    /\ terms.loan_type = "Demand"
    /\ contract.status = "PendingRecall"
    /\ contract.recall_requested
    /\ l = contract.recall_requested_by
    /\ ~contribution[l].is_refunded
    /\ contribution[l].contribution_amount > 0
    /\ escrow[l].exists
    /\ HasCollateralAccount
    /\ contract.funded_amount >= contribution[l].contribution_amount
    /\ collateral >= RecallPart(l, contract.collateral_amount)
    /\ l \in contract.contributions
    /\ totalDebt >= RecallPart(l, contract.outstanding_balance)

SettleRecall(l, received) ==
    /\ contract' = WithoutLender(l)
    /\ contribution' = [contribution EXCEPT ![l].is_refunded = TRUE]
    /\ escrow' = [escrow EXCEPT ![l] = Credited(@, 0, received)]
    /\ collateral' = collateral - RecallPart(l, contract.collateral_amount)
    /\ totalDebt' = totalDebt - RecallPart(l, contract.outstanding_balance)
    /\ UNCHANGED <<now, isPaused, terms, approved, usdc>>

BorrowerRepayRecall(l) ==
    /\ MaySettleRecall(l)
    /\ now < contract.recall_requested_at + Grace
    /\ SettleRecall(l, RecallPart(l, contract.outstanding_balance))
    /\ UNCHANGED treasuryUsdc

(* The recall fee is taken from what the lender gets and shared with the   *)
(* frontend as the listing fee is.                                         *)
ProcessRecall(l, paidFrontend) ==
    LET debtShare == RecallPart(l, contract.outstanding_balance)
        fee == BpsOf(debtShare, RecallFeeBps)
        frontendShare == IF terms.frontend /\ paidFrontend
                         THEN BpsOf(fee, FrontendShareBps) ELSE 0
    IN  /\ ~isPaused
        /\ MaySettleRecall(l)
        /\ now >= contract.recall_requested_at + Grace
        /\ SettleRecall(l, debtShare - fee)
        /\ treasuryUsdc' = treasuryUsdc + fee - frontendShare

-----------------------------------------------------------------------------
(* Liquidations by the bot.  They go on while the platform is paused.      *)

(* calculate_collateral_to_seize, rounded up, and never more than there is *)
CollateralToSeize(repaid, amount, value) ==
    LET numerator == repaid * (BpsDenom + LiquidationFeeBps) * amount
        denominator == value * BpsDenom
    IN  Lesser((numerator + denominator - 1) \div denominator, amount)

(* calculate_liquidation_debt                                              *)
DebtOf(c) == c.outstanding_balance + c.accrued_interest

FaultyTimeTriggered ==  \* a recall is no reason
    /\ terms.loan_type = "Committed"
    /\ now >= contract.created_at + terms.term_days * Day

TimeTriggered ==
    IF terms.loan_type = "Demand" THEN contract.status = "PendingRecall"
    ELSE now >= contract.created_at + terms.term_days * Day

PriceTriggered(value) ==
    /\ DebtOf(contract) # 0 /\ terms.ltv_floor_bps # 0
    /\ value * BpsDenom <= DebtOf(contract) * terms.ltv_floor_bps

(* The lenders' escrows when amount is distributed to them as principal,   *)
(* and what that takes from the contract's account.                        *)
EscrowsWith(amount, last) ==
    [l \in Lenders |->
        IF l \in contract.contributions
        THEN Credited(escrow[l], 0, LenderShare(l, last, amount))
        ELSE escrow[l]]

SharesOf(amount, last) ==
    MapThenSumSet(LAMBDA l : LenderShare(l, last, amount),
                  contract.contributions)

(* liquidate_contract, with finalize_full_liquidation: what the debt was   *)
(* is retired from total_debt as far as it was lent and not paid back.     *)
Liquidate(price, last) ==
    LET value == collateral * price
        c == WithInterest(contract)
        botPays == Lesser(DebtOf(c), value)
        retired == MinusSaturating(c.funded_amount, c.total_principal_paid)
    IN  /\ OnLoan /\ HasCollateralAccount
        /\ TimeTriggered \/ PriceTriggered(value)
        /\ DebtOf(c) > 0
        /\ contract.funded_amount > 0
        /\ LendersPassed(last)
        /\ usdc + botPays >= SharesOf(botPays, last)
        /\ escrow' = EscrowsWith(botPays, last)
        /\ usdc' = usdc + botPays - SharesOf(botPays, last)
        /\ contract' = [c EXCEPT
                          !.status = "Liquidated",
                          !.uncollectable_balance = DebtOf(c) - botPays,
                          !.outstanding_balance = 0,
                          !.collateral_amount = 0,
                          !.accrued_interest = 0]
        /\ collateral' = 0
        /\ totalDebt' = MinusSaturating(totalDebt, retired)
        /\ UNCHANGED <<now, isPaused, terms, contribution, approved,
                       treasuryUsdc>>

(* partial_liquidate: no more than a part of the debt, for collateral      *)
(* worth that much and a fee.  check_health lets a full liquidation's case *)
(* through as well.                                                        *)
Unhealthy(value, debt) ==
    /\ terms.ltv_floor_bps # 0
    /\ (value * BpsDenom) \div debt <= terms.ltv_floor_bps + BufferBps

FaultyAfterPartial(c, repaid, seized) ==  \* collateral_amount is forgotten
    IF c.outstanding_balance = repaid
    THEN [c EXCEPT !.status = "Completed",
                   !.outstanding_balance = 0,
                   !.total_principal_paid = @ + repaid,
                   !.uncollectable_balance = @ + c.accrued_interest,
                   !.accrued_interest = 0,
                   !.collateral_amount = 0]
    ELSE [c EXCEPT !.outstanding_balance = @ - repaid,
                   !.total_principal_paid = @ + repaid]

AfterPartial(c, repaid, seized) ==
    IF c.outstanding_balance = repaid
    THEN [c EXCEPT !.status = "Completed",
                   !.outstanding_balance = 0,
                   !.total_principal_paid = @ + repaid,
                   !.uncollectable_balance = @ + c.accrued_interest,
                   !.accrued_interest = 0,
                   !.collateral_amount = 0]
    ELSE [c EXCEPT !.outstanding_balance = @ - repaid,
                   !.total_principal_paid = @ + repaid,
                   !.collateral_amount = @ - seized]

(* toBorrower: whether the borrower's token account was passed along to    *)
(* receive the collateral that is left when the loan is completed.         *)
PartialLiquidate(amount, price, last, toBorrower) ==
    LET c == WithInterest(contract)
        pledged == Lesser(collateral, c.collateral_amount)
        value == pledged * price
        repaid == Lesser(amount, Lesser(BpsOf(DebtOf(c), PartialCapBps),
                                        c.outstanding_balance))
        seized == CollateralToSeize(repaid, pledged, value)
        left == collateral - seized
    IN  /\ OnLoan /\ HasCollateralAccount
        /\ amount > 0
        /\ DebtOf(c) > 0 /\ Unhealthy(value, DebtOf(c))
        /\ repaid > 0 /\ value > 0 /\ seized > 0
        /\ c.funded_amount > 0
        /\ LendersPassed(last)
        /\ usdc + repaid >= SharesOf(repaid, last)
        /\ totalDebt >= repaid
        /\ escrow' = EscrowsWith(repaid, last)
        /\ usdc' = usdc + repaid - SharesOf(repaid, last)
        /\ contract' = AfterPartial(c, repaid, seized)
        /\ collateral' = IF contract'.status = "Completed" /\ toBorrower
                         THEN 0 ELSE left
        /\ totalDebt' = totalDebt - repaid
        /\ UNCHANGED <<now, isPaused, terms, contribution, approved,
                       treasuryUsdc>>

-----------------------------------------------------------------------------
(* What lenders are told they may claim, and claiming it.                  *)

(* update_lender_escrow compares the lender's entitlement with what is     *)
(* still unclaimed: total_interest_claimed and total_principal_claimed are *)
(* never written.                                                          *)
UpdateLenderEscrow(l) ==
    LET entitled(total) == Share(contribution[l].contribution_amount,
                                 contract.funded_amount, total)
        Raised(available, total) ==
            available + MinusSaturating(entitled(total), available)
    IN  /\ ~isPaused
        /\ contract.status = "Active"
        /\ contribution[l].exists /\ escrow[l].exists
        /\ contract.funded_amount > 0
        /\ escrow' = [escrow EXCEPT
             ![l].available_interest = Raised(@, contract.accrued_interest),
             ![l].available_principal = Raised(@, contract.total_principal_paid)]
        /\ UNCHANGED <<now, isPaused, terms, contract, contribution, approved,
                       usdc, collateral, treasuryUsdc, totalDebt>>

(* The escrow is closed when nothing more can come and nothing stays in it.*)
ClaimFromEscrow(l) ==
    LET e == escrow[l]
        total == e.available_interest + e.available_principal
        closes == /\ contract.status \in {"Completed", "Liquidated"}
                  /\ e.escrow_amount = total
    IN  /\ e.exists /\ total > 0
        /\ e.usdc >= total
        /\ IF closes
           THEN e.usdc = total /\ escrow' = [escrow EXCEPT ![l] = NoEscrow]
           ELSE /\ e.escrow_amount >= total
                /\ escrow' = [escrow EXCEPT
                     ![l] = [e EXCEPT !.escrow_amount = @ - total,
                                      !.available_interest = 0,
                                      !.available_principal = 0,
                                      !.usdc = @ - total]]
        /\ UNCHANGED <<now, isPaused, terms, contract, contribution, approved,
                       usdc, collateral, treasuryUsdc, totalDebt>>

-----------------------------------------------------------------------------
BorrowerServices ==
    \/ \E amount \in Payments :
          \/ MakePayment(amount)
          \/ \E last \in Lenders : MakePaymentWithDistribution(amount, last)
    \/ \E amount \in TopUps : AddCollateral(amount)
    \/ \E l \in Lenders : BorrowerRepayRecall(l)

LenderServices ==
    \E l \in Lenders : RequestRecall(l) \/ ClaimFromEscrow(l)

SettleAt(price) ==
    \/ \E l \in Lenders, paid \in BOOLEAN : ProcessRecall(l, paid)
    \/ \E last \in Lenders : Liquidate(price, last)

SettleByBot == \E price \in Prices : SettleAt(price)

BotServices ==
    \/ UpdateContractState
    \/ \E l \in Lenders : UpdateLenderEscrow(l)
    \/ \E last \in Lenders : AutomatedInterestTransfer(last)
                             \/ AutomatedPrincipalTransfer(last)
    \/ SettleByBot
    \/ \E amount \in Payments, price \in Prices, last \in Lenders,
         toBorrower \in BOOLEAN :
          PartialLiquidate(amount, price, last, toBorrower)

ServicingNext == BorrowerServices \/ LenderServices \/ BotServices

LoanNext == ListingNext \/ ServicingNext

LoanSpec == Init /\ [][LoanNext]_vars

(* The bot goes through the loans that are being recalled.  That some price*)
(* would make them unhealthy is no help to it: it sees the highest one.    *)
SettlePendingRecall == contract.status = "PendingRecall" /\ SettleAt(Max(Prices))

FairLoanSpec == LoanSpec /\ WF_vars(SettlePendingRecall)

-----------------------------------------------------------------------------
(* The loan at the moment it has been funded, by the lenders who have a    *)
(* stake in it: what the last contribution leaves behind.  Revolving,      *)
(* Proposals and Trading start there.                                      *)
FundedContract(stake) ==
    LET funders == {l \in Lenders : stake[l] > 0}
    IN  Activated([NoContract EXCEPT
            !.target_amount = terms.target_amount,
            !.funded_amount = terms.target_amount,
            !.num_contributions = Cardinality(funders),
            !.contributions = funders,
            !.created_at = now,
            !.expires_at = now + ListingLife,
            !.listing_fee_paid = BpsOf(terms.target_amount, ListingFeeBps),
            !.collateral_amount = terms.collateral_amount])

StakesAre(stake) ==
    /\ MapThenSumSet(LAMBDA l : stake[l], Lenders) = terms.target_amount
    /\ Cardinality({l \in Lenders : stake[l] > 0}) <= terms.max_lenders
    /\ contribution = [l \in Lenders |->
         IF stake[l] = 0 THEN NoContribution
         ELSE [exists |-> TRUE, contribution_amount |-> stake[l],
               is_refunded |-> FALSE, last_contributed_at |-> now]]
    /\ escrow = [l \in Lenders |-> [NoEscrow EXCEPT !.exists = stake[l] > 0]]

FundedInit ==
    /\ now = 1
    /\ isPaused = FALSE
    /\ terms \in Offers
    /\ approved = {}
    /\ collateral = terms.collateral_amount
    /\ treasuryUsdc = 0
    /\ usdc = 0
    /\ totalDebt = OtherDebt + terms.target_amount
    /\ \E stake \in [Lenders -> Amounts \union {0}] :
          StakesAre(stake) /\ contract = FundedContract(stake)

-----------------------------------------------------------------------------
EscrowTotal == MapThenSumSet(LAMBDA l : escrow[l].usdc, Lenders)

(* What a lender's escrow says it holds is what its token account holds,   *)
(* through payments, recalls, liquidations, claims and the closing of the  *)
(* escrow.                                                                 *)
EscrowsHoldTheirAmount ==
    \A l \in Lenders : escrow[l].usdc = escrow[l].escrow_amount

(* A recall is pending exactly while contract.recall_requested says so,    *)
(* and then the lender it names is still in the loan and has an escrow to  *)
(* be paid into.  This is of the instructions in this module: a            *)
(* process_proposal_recall (module Proposals) makes the loan Active again  *)
(* whatever lender's request is on its books (proposals.rs:796-813).       *)
RecallNamesALender ==
    OnLoan =>
        /\ contract.recall_requested <=> contract.status = "PendingRecall"
        /\ contract.recall_requested =>
              /\ contract.recall_requested_by \in contract.contributions
              /\ escrow[contract.recall_requested_by].exists

(* The contract's collateral account holds what the contract says it does, *)
(* from the listing to the end of the loan: a partial liquidation's view   *)
(* of the collateral and a full one's, which read one each, are the same.  *)
CollateralIsHeld ==
    IsOpen \/ OnLoan => collateral = contract.collateral_amount

(* No loan ends, by payment, recall or liquidation, with debt on its books *)
(* that nobody can pay any more.                                           *)
NoDebtIsLeftBehind ==
    contract.status \in {"Completed", "Liquidated"} =>
        contract.outstanding_balance = 0

(* Whatever order the lenders' accounts are passed in, all of a payment or *)
(* of the proceeds of a liquidation reaches the escrows, and no more: what *)
(* undistributed payments have left in the contract's account stays there. *)
DistributionsAreExact ==
    [][/\ OnLoan /\ usdc' # usdc => escrow' = escrow
       /\ OnLoan /\ EscrowTotal' > EscrowTotal =>
            \A amount \in Payments, last \in contract.contributions :
                MakePaymentWithDistribution(amount, last) =>
                    EscrowTotal' = EscrowTotal + Payment(amount).paid]_vars

(* A recall, by the borrower or by the bot, is not at the expense of the   *)
(* lenders who stay: per unit of their money there is afterwards no less   *)
(* debt owed to them and no less collateral behind it than before.         *)
RecallSparesTheOthers ==
    [][(contract.status = "PendingRecall"
          /\ contract'.contributions # contract.contributions) =>
          /\ contract'.outstanding_balance * contract.funded_amount >=
               contract.outstanding_balance * contract'.funded_amount
          /\ contract'.collateral_amount * contract.funded_amount >=
               contract.collateral_amount * contract'.funded_amount]_vars

(* Every recall of a collateralised loan comes to an end, though the       *)
(* platform may be paused at any time: the bot may then still liquidate.   *)
RecallIsSettled ==
    (contract.status = "PendingRecall" /\ HasCollateralAccount)
        ~> contract.status # "PendingRecall"

-----------------------------------------------------------------------------
(* What the repository says that the code does not keep.                   *)

(* lending.rs:3590, about update_lender_escrow: what lenders are told they *)
(* may claim is off by at most (num_lenders - 1) units.  Stated while all  *)
(* payments made have gone to the escrows and no interest is due.          *)
CreditedIsThere ==
    usdc = 0 /\ contract.accrued_interest = 0 =>
        \A l \in Lenders :
            escrow[l].available_interest + escrow[l].available_principal
                <= escrow[l].usdc + terms.max_lenders - 1
=============================================================================
