------------------------------ MODULE Revolving ------------------------------
(***************************************************************************)
(* A revolving facility, from the moment its lenders have funded it: their *)
(* money stays in the contract's account, the borrower draws on it, repays *)
(* and draws again, pays interest on what is drawn and standby fees on what*)
(* is not, until the facility is closed (instructions/revolving.rs, and    *)
(* the branches for contract.is_revolving of instructions/lending.rs,      *)
(* payment_operations.rs, admin_operations.rs and utils/interest.rs).      *)
(*                                                                         *)
(* contract and terms are those of LoanServicing, whose arithmetic is used *)
(* here, but not its interest: WithInterest is for loans that are drawn at *)
(* once.  facility holds the fields of DebtContract that only a revolving  *)
(* one has.  total_draws is left out: it tells the first draw, which sets  *)
(* last_interest_update to the time every later draw has just brought it   *)
(* to.  Lenders claim from their escrows as in LoanServicing; here they    *)
(* wait, since nothing depends on it.                                      *)
(***************************************************************************)
EXTENDS LoanServicing

CONSTANTS
    StandbyFeeRate,   \* DebtContract.standby_fee_rate, of InterestDenom
    LtvRatio          \* DebtContract.ltv_ratio, of BpsDenom

(* create_debt_contract: a rate below the interest rate, no schedule.      *)
ASSUME RevolvingConstants ==
    /\ \A offer \in Offers : StandbyFeeRate \in 1 .. (offer.interest_rate - 1)
    /\ LtvRatio \in Nat
    /\ \A offer \in Offers : offer.principal_frequency = 0

VARIABLE facility

revolvingVars == <<vars, facility>>

-----------------------------------------------------------------------------
(* checkpoint_standby_fees and process_automatic_interest: what has come   *)
(* due since the last time, on what was undrawn and drawn in that time.    *)
WithStandbyFees(f) ==
    IF f.revolving_closed \/ now <= f.last_standby_fee_update THEN f
    ELSE [f EXCEPT
            !.accrued_standby_fees = @ +
                ((f.credit_limit - f.drawn_amount) * StandbyFeeRate
                    * (now - f.last_standby_fee_update)) \div InterestDenom,
            !.last_standby_fee_update = now]

WithDrawnInterest(c, f) ==
    IF c.last_interest_update = 0 \/ now <= c.last_interest_update THEN c
    ELSE [c EXCEPT
            !.accrued_interest =
                Lesser(@ + Interest(f.drawn_amount, now - c.last_interest_update),
                       f.credit_limit * BalanceCap),
            !.last_interest_update = now]

(* checked_sub of the drawn amount from the limit                          *)
LimitCoversDrawn ==
    ~facility.revolving_closed => facility.drawn_amount <= facility.credit_limit

Charged == WithDrawnInterest(contract, facility)

(* check_revolving_completion                                              *)
FaultyRevolvingCompletion(c, f) ==  \* standby fees are forgotten
    f.revolving_closed /\ f.drawn_amount = 0 /\ c.accrued_interest = 0

RevolvingCompletion(c, f) ==
    /\ f.revolving_closed
    /\ f.drawn_amount = 0
    /\ c.accrued_interest = 0
    /\ f.accrued_standby_fees = 0

(* outstanding_balance follows drawn_amount; a closed facility of which    *)
(* nothing is owed is completed.                                           *)
Settled(c, f) ==
    [c EXCEPT !.outstanding_balance = f.drawn_amount,
              !.status = IF RevolvingCompletion(c, f) THEN "Completed" ELSE @]

Matured == now >= contract.created_at + terms.term_days * Day

-----------------------------------------------------------------------------
(* draw_from_revolving.  The ratio that must not exceed ltv_ratio is the   *)
(* value of the collateral over the debt.                                  *)
RatioAllowsDraw(c, f, amount, price) ==
    LtvRatio > 0 =>
        /\ HasCollateralAccount
        /\ (contract.collateral_amount * price * BpsDenom)
              \div (f.drawn_amount + amount + c.accrued_interest
                      + f.accrued_standby_fees) <= LtvRatio

FaultyDrawFromRevolving(amount, price) ==  \* without charging first
    /\ ~isPaused
    /\ contract.status = "Active"
    /\ ~facility.revolving_closed
    /\ amount > 0
    /\ amount <= Lesser(facility.available_amount, usdc)
    /\ facility' = [facility EXCEPT !.drawn_amount = @ + amount,
                                    !.available_amount = @ - amount]
    /\ contract' = [contract EXCEPT
                      !.outstanding_balance = facility.drawn_amount + amount,
                      !.last_interest_update = IF @ = 0 THEN now ELSE @]
    /\ usdc' = usdc - amount
    /\ totalDebt' = totalDebt + amount
    /\ UNCHANGED <<now, isPaused, terms, contribution, escrow, approved,
                   collateral, treasuryUsdc>>

DrawFromRevolving(amount, price) ==
    LET f == WithStandbyFees(facility)
        drawn == [f EXCEPT !.drawn_amount = @ + amount,
                           !.available_amount = @ - amount]
    IN  /\ ~isPaused
        /\ contract.status = "Active"
        /\ ~facility.revolving_closed
        /\ amount > 0
        /\ amount <= facility.available_amount
        /\ amount <= usdc
        /\ terms.term_days > 0 => ~Matured
        /\ LimitCoversDrawn
        /\ RatioAllowsDraw(Charged, f, amount, price)
        /\ facility' = drawn
        /\ contract' = [Charged EXCEPT
                          !.outstanding_balance = drawn.drawn_amount,
                          !.last_interest_update = now]
        /\ usdc' = usdc - amount
        /\ totalDebt' = totalDebt + amount
        /\ UNCHANGED <<now, isPaused, terms, contribution, escrow, approved,
                       collateral, treasuryUsdc>>

FaultyRepayRevolving(amount) ==  \* total_debt is forgotten
    LET f == WithStandbyFees(facility)
        repaid == [f EXCEPT !.drawn_amount = @ - amount,
                            !.available_amount = @ + amount]
    IN  /\ OnLoan
        /\ amount > 0
        /\ amount <= facility.drawn_amount
        /\ LimitCoversDrawn
        /\ facility' = repaid
        /\ contract' = Settled(Charged, repaid)
        /\ usdc' = usdc + amount
        /\ UNCHANGED <<now, isPaused, terms, contribution, escrow, approved,
                       collateral, treasuryUsdc, totalDebt>>

RepayRevolving(amount) ==
    LET f == WithStandbyFees(facility)
        repaid == [f EXCEPT !.drawn_amount = @ - amount,
                            !.available_amount =
                                IF f.revolving_closed THEN 0 ELSE @ + amount]
    IN  /\ OnLoan
        /\ amount > 0
        /\ amount <= facility.drawn_amount
        /\ LimitCoversDrawn
        /\ totalDebt >= amount
        /\ facility' = repaid
        /\ contract' = Settled(Charged, repaid)
        /\ usdc' = usdc + amount
        /\ totalDebt' = totalDebt - amount
        /\ UNCHANGED <<now, isPaused, terms, contribution, escrow, approved,
                       collateral, treasuryUsdc>>

-----------------------------------------------------------------------------
(* close_revolving_facility and bot_close_matured_revolving.  Before the   *)
(* maturity of a committed facility the borrower pays the standby fee for  *)
(* the rest of the term, on what could still be drawn.                     *)
Closed(f, fee) ==
    [f EXCEPT !.revolving_closed = TRUE,
              !.available_amount = 0,
              !.accrued_standby_fees = @ + fee]

EarlyTerminationFee ==
    IF terms.loan_type = "Committed" /\ terms.term_days > 0 /\ ~Matured
    THEN (facility.available_amount * StandbyFeeRate
            * (contract.created_at + terms.term_days * Day - now))
                \div InterestDenom
    ELSE 0

CloseFacility(fee) ==
    LET closed == Closed(WithStandbyFees(facility), fee)
    IN  /\ contract.status = "Active"
        /\ ~facility.revolving_closed
        /\ LimitCoversDrawn
        /\ facility' = closed
        /\ contract' = [Charged EXCEPT
             !.status = IF RevolvingCompletion(Charged, closed)
                        THEN "Completed" ELSE @]
        /\ usdc' = usdc + fee
        /\ UNCHANGED <<now, isPaused, terms, contribution, escrow, approved,
                       collateral, treasuryUsdc, totalDebt>>

CloseRevolvingFacility == CloseFacility(EarlyTerminationFee)

BotCloseMaturedRevolving ==
    /\ ~isPaused
    /\ terms.loan_type = "Committed" /\ terms.term_days > 0
    /\ Matured
    /\ CloseFacility(0)

SweepContractPool ==
    /\ ~isPaused
    /\ contract.status \in {"Completed", "Liquidated"}
    /\ contract.contributions = {}
    /\ usdc' = 0
    /\ UNCHANGED <<now, isPaused, terms, contract, contribution, escrow,
                   approved, collateral, treasuryUsdc, totalDebt, facility>>

-----------------------------------------------------------------------------
(* distribute_standby_fees pays the lenders' escrows out of the contract's *)
(* account, whether the borrower has paid the fees into it or not.         *)
EscrowsWithInterest(amount, last) ==
    [l \in Lenders |->
        IF l \in contract.contributions
        THEN Credited(escrow[l], LenderShare(l, last, amount), 0)
        ELSE escrow[l]]

DistributeStandbyFees(last) ==
    LET f == WithStandbyFees(facility)
        fees == f.accrued_standby_fees
        paid == [f EXCEPT !.accrued_standby_fees = 0,
                          !.available_amount =
                              IF f.revolving_closed THEN @
                              ELSE MinusSaturating(@, fees)]
    IN  /\ OnLoan
        /\ LimitCoversDrawn
        /\ usdc >= fees
        /\ contract.funded_amount > 0
        /\ LendersPassed(last)
        /\ escrow' = EscrowsWithInterest(fees, last)
        /\ usdc' = usdc - fees
        /\ facility' = paid
        /\ contract' = [contract EXCEPT
             !.status = IF RevolvingCompletion(contract, paid)
                        THEN "Completed" ELSE @]
        /\ UNCHANGED <<now, isPaused, terms, contribution, approved,
                       collateral, treasuryUsdc, totalDebt>>

(* make_payment and make_payment_with_distribution: interest first, then   *)
(* standby fees, and no more than that.                                    *)
Pays(amount) ==
    LET f == WithStandbyFees(facility)
        interest == Lesser(amount, Charged.accrued_interest)
        paid == [f EXCEPT !.accrued_standby_fees = @ - (amount - interest)]
        settled == Settled([Charged EXCEPT !.accrued_interest = @ - interest],
                           paid)
    IN  /\ ~isPaused
        /\ OnLoan
        /\ amount > 0
        /\ LimitCoversDrawn
        /\ amount <= Charged.accrued_interest + f.accrued_standby_fees
        /\ facility' = paid
        /\ IF settled.status = "Completed"
           THEN /\ contract' = [settled EXCEPT !.collateral_amount = 0]
                /\ collateral' = IF contract.collateral_amount > 0 THEN 0
                                 ELSE collateral
           ELSE contract' = settled /\ UNCHANGED collateral

PayCharges(amount) ==
    /\ Pays(amount)
    /\ usdc' = usdc + amount
    /\ UNCHANGED <<now, isPaused, terms, contribution, escrow, approved,
                   treasuryUsdc, totalDebt>>

PayChargesWithDistribution(amount, last) ==
    /\ Pays(amount)
    /\ contract.funded_amount > 0
    /\ LendersPassed(last)
    /\ escrow' = EscrowsWithInterest(amount, last)
    /\ UNCHANGED <<now, isPaused, terms, contribution, approved, usdc,
                   treasuryUsdc, totalDebt>>

(* automated_interest_transfer to a facility's lenders, due or not: out of *)
(* the contract's account, or by the bot against collateral.               *)
FacilityInterestTransfer(last) ==
    LET f == WithStandbyFees(facility)
        c == IF facility.drawn_amount > 0 THEN Charged ELSE contract
        paidByBot == terms.interest_payment_type = "CollateralTransfer"
        withdrawn == IF paidByBot
                     THEN CollateralWithdraw(c.collateral_amount,
                             c.accrued_interest, c.outstanding_balance)
                     ELSE 0
        fromContract == IF paidByBot THEN 0 ELSE c.accrued_interest
    IN  /\ ~isPaused
        /\ OnLoan
        /\ LimitCoversDrawn
        /\ LendersPassed(last)
        /\ usdc >= fromContract
        /\ paidByBot => CollateralIsEnough(c.collateral_amount,
                            c.accrued_interest, c.outstanding_balance)
        /\ facility' = f
        /\ contract' = Settled([c EXCEPT !.accrued_interest = 0,
                                         !.last_interest_update = now,
                                         !.collateral_amount = @ - withdrawn],
                               f)
        /\ collateral' = collateral - withdrawn
        /\ usdc' = usdc - fromContract
        /\ UNCHANGED <<now, isPaused, terms, contribution, escrow, approved,
                       treasuryUsdc, totalDebt>>

(* update_contract_state and distribute_to_escrows leave the standby fees. *)
UpdateFacilityState ==
    /\ ~isPaused
    /\ contract.status = "Active"
    /\ contract' = Charged
    /\ UNCHANGED <<now, isPaused, terms, contribution, escrow, approved,
                   usdc, collateral, treasuryUsdc, totalDebt, facility>>

-----------------------------------------------------------------------------
(* Recalls.  Asking for one closes the facility.  The lender gets its whole*)
(* contribution: its part of what is drawn from the borrower or the bot,   *)
(* the rest from the contract's account.                                   *)
RequestFacilityRecall(l) ==
    /\ RequestRecall(l)
    /\ facility' = [facility EXCEPT !.revolving_closed = TRUE,
                                    !.available_amount = 0]

PoolRepay(l) == contribution[l].contribution_amount
                  - RecallPart(l, contract.outstanding_balance)

FaultySettleFacilityRecall(l) ==  \* the limit is not lowered
    LET recalled == WithoutLender(l)
        left == [facility EXCEPT !.drawn_amount = recalled.outstanding_balance,
                                 !.available_amount = @ + PoolRepay(l)]
    IN  /\ MaySettleRecall(l)
        /\ PoolRepay(l) >= 0 /\ usdc >= PoolRepay(l)
        /\ facility' = left
        /\ contract' = [recalled EXCEPT
             !.status = IF \/ RevolvingCompletion(recalled, left)
                           \/ recalled.contributions = {}
                        THEN "Completed" ELSE "Active"]
        /\ contribution' = [contribution EXCEPT ![l].is_refunded = TRUE]
        /\ escrow' = [escrow EXCEPT ![l] =
                        Credited(@, 0, contribution[l].contribution_amount)]
        /\ usdc' = usdc - PoolRepay(l)
        /\ collateral' = collateral - RecallPart(l, contract.collateral_amount)
        /\ totalDebt' = totalDebt - RecallPart(l, contract.outstanding_balance)
        /\ UNCHANGED <<now, isPaused, terms, approved>>

SettleFacilityRecall(l) ==
    LET recalled == WithoutLender(l)
        drawn == recalled.outstanding_balance
        left == [facility EXCEPT
                   !.drawn_amount = drawn,
                   !.credit_limit = recalled.funded_amount,
                   !.available_amount =
                       IF facility.revolving_closed THEN 0
                       ELSE MinusSaturating(recalled.funded_amount, drawn)]
    IN  /\ MaySettleRecall(l)
        /\ PoolRepay(l) >= 0 /\ usdc >= PoolRepay(l)
        /\ facility' = left
        /\ contract' = [recalled EXCEPT
             !.status = IF \/ RevolvingCompletion(recalled, left)
                           \/ recalled.contributions = {}
                        THEN "Completed" ELSE "Active"]
        /\ contribution' = [contribution EXCEPT ![l].is_refunded = TRUE]
        /\ escrow' = [escrow EXCEPT ![l] =
                        Credited(@, 0, contribution[l].contribution_amount)]
        /\ usdc' = usdc - PoolRepay(l)
        /\ collateral' = collateral - RecallPart(l, contract.collateral_amount)
        /\ totalDebt' = totalDebt - RecallPart(l, contract.outstanding_balance)
        /\ UNCHANGED <<now, isPaused, terms, approved>>

BorrowerRepayFacilityRecall(l) ==
    /\ now < contract.recall_requested_at + Grace
    /\ SettleFacilityRecall(l)
    /\ UNCHANGED treasuryUsdc

(* The bot pays the fee on top.                                            *)
ProcessFacilityRecall(l, paidFrontend) ==
    LET fee == BpsOf(RecallPart(l, contract.outstanding_balance), RecallFeeBps)
        frontendShare == IF terms.frontend /\ paidFrontend
                         THEN BpsOf(fee, FrontendShareBps) ELSE 0
    IN  /\ ~isPaused
        /\ now >= contract.recall_requested_at + Grace
        /\ SettleFacilityRecall(l)
        /\ treasuryUsdc' = treasuryUsdc + fee - frontendShare

-----------------------------------------------------------------------------
(* Liquidations.  calculate_liquidation_debt counts the standby fees.      *)
FacilityDebt(c, f) == f.drawn_amount + c.accrued_interest + f.accrued_standby_fees

FacilityPriceTriggered(value) ==
    LET debt == FacilityDebt(contract, facility)
    IN  /\ debt # 0 /\ terms.ltv_floor_bps # 0
        /\ value * BpsDenom <= debt * terms.ltv_floor_bps

(* A facility liquidated because its time is over is closed first, and the *)
(* standby fees since the last checkpoint are not charged any more.  What  *)
(* could still be drawn is distributed along with what the bot pays.       *)
LiquidateFacility(price, last) ==
    LET value == collateral * price
        f == WithStandbyFees([facility EXCEPT
                                !.revolving_closed = @ \/ TimeTriggered])
        debt == FacilityDebt(Charged, f)
        botPays == Lesser(debt, value)
        distributed == botPays + Lesser(f.available_amount, usdc)
    IN  /\ OnLoan /\ HasCollateralAccount
        /\ TimeTriggered \/ FacilityPriceTriggered(value)
        /\ f.revolving_closed \/ LimitCoversDrawn
        /\ debt > 0
        /\ contract.funded_amount > 0
        /\ LendersPassed(last)
        /\ usdc + botPays >= SharesOf(distributed, last)
        /\ contract.outstanding_balance = f.drawn_amount
        /\ escrow' = EscrowsWith(distributed, last)
        /\ usdc' = usdc + botPays - SharesOf(distributed, last)
        /\ facility' = [f EXCEPT !.revolving_closed = TRUE,
                                 !.credit_limit = 0,
                                 !.drawn_amount = 0,
                                 !.accrued_standby_fees = 0,
                                 !.available_amount = 0]
        /\ contract' = [Charged EXCEPT
                          !.status = "Liquidated",
                          !.uncollectable_balance = debt - botPays,
                          !.outstanding_balance = 0,
                          !.collateral_amount = 0,
                          !.accrued_interest = 0]
        /\ collateral' = 0
        /\ totalDebt' = MinusSaturating(totalDebt, contract.outstanding_balance)
        /\ UNCHANGED <<now, isPaused, terms, contribution, approved,
                       treasuryUsdc>>

(* partial_liquidate lowers the limit with what is drawn and computes what *)
(* may be drawn anew, of a closed facility too.                            *)
PartiallyLiquidateFacility(amount, price, last, toBorrower) ==
    LET f == WithStandbyFees(facility)
        debt == FacilityDebt(Charged, f)
        pledged == Lesser(collateral, contract.collateral_amount)
        value == pledged * price
        repaid == Lesser(amount, Lesser(BpsOf(debt, PartialCapBps),
                                        contract.outstanding_balance))
        seized == CollateralToSeize(repaid, pledged, value)
        limit == MinusSaturating(f.credit_limit, repaid)
        drawn == f.drawn_amount - repaid
        left == [f EXCEPT !.credit_limit = limit,
                          !.drawn_amount = drawn,
                          !.available_amount = MinusSaturating(limit, drawn)]
        c == [Charged EXCEPT !.outstanding_balance = drawn,
                             !.total_principal_paid = @ + repaid,
                             !.collateral_amount = @ - seized]
        completed == RevolvingCompletion(Charged, left)
    IN  /\ OnLoan /\ HasCollateralAccount
        /\ amount > 0
        /\ LimitCoversDrawn
        /\ debt > 0 /\ Unhealthy(value, debt)
        /\ repaid > 0 /\ value > 0 /\ seized > 0
        /\ contract.funded_amount > 0
        /\ LendersPassed(last)
        /\ usdc + repaid >= SharesOf(repaid, last)
        /\ totalDebt >= repaid
        /\ escrow' = EscrowsWith(repaid, last)
        /\ usdc' = usdc + repaid - SharesOf(repaid, last)
        /\ facility' = [left EXCEPT !.available_amount =
                                        IF completed THEN 0 ELSE @]
        /\ contract' = [c EXCEPT
                          !.status = IF completed THEN "Completed" ELSE @,
                          !.collateral_amount = IF completed THEN 0 ELSE @]
        /\ collateral' = IF completed /\ toBorrower THEN 0
                         ELSE collateral - seized
        /\ totalDebt' = totalDebt - repaid
        /\ UNCHANGED <<now, isPaused, terms, contribution, approved,
                       treasuryUsdc>>

-----------------------------------------------------------------------------
(* Activation by activate_open_contract_funding: nothing is drawn, and the *)
(* lenders' money stays where it is.                                       *)
RevolvingInit ==
    /\ now = 1
    /\ isPaused = FALSE
    /\ terms \in Offers
    /\ approved = {}
    /\ collateral = terms.collateral_amount
    /\ treasuryUsdc = 0
    /\ usdc = terms.target_amount
    /\ totalDebt = OtherDebt
    /\ \E stake \in [Lenders -> Amounts \union {0}] :
          /\ StakesAre(stake)
          /\ contract = [FundedContract(stake) EXCEPT
                           !.outstanding_balance = 0,
                           !.last_interest_update = 0,
                           !.last_principal_payment = 0]
    /\ facility = [credit_limit |-> terms.target_amount,
                   drawn_amount |-> 0,
                   available_amount |-> terms.target_amount,
                   accrued_standby_fees |-> 0,
                   last_standby_fee_update |-> now,
                   revolving_closed |-> FALSE]

BorrowerUsesFacility ==
    \/ \E amount \in Amounts, price \in Prices : DrawFromRevolving(amount, price)
    \/ \E amount \in Amounts : RepayRevolving(amount)
    \/ \E amount \in Payments :
          \/ PayCharges(amount)
          \/ \E last \in Lenders : PayChargesWithDistribution(amount, last)
    \/ CloseRevolvingFacility
    \/ SweepContractPool
    \/ \E l \in Lenders : BorrowerRepayFacilityRecall(l)

LendersUseFacility == \E l \in Lenders : RequestFacilityRecall(l)

BotKeepsFacility ==
    \/ UpdateFacilityState
    \/ BotCloseMaturedRevolving
    \/ \E last \in Lenders : DistributeStandbyFees(last)
                             \/ FacilityInterestTransfer(last)
    \/ \E l \in Lenders, paid \in BOOLEAN : ProcessFacilityRecall(l, paid)
    \/ \E price \in Prices, last \in Lenders : LiquidateFacility(price, last)
    \/ \E amount \in Payments, price \in Prices, last \in Lenders,
         toBorrower \in BOOLEAN :
          PartiallyLiquidateFacility(amount, price, last, toBorrower)

TimePasses == Tick /\ UNCHANGED facility

(* A pause only takes steps away and changes nothing in the facility: it is*)
(* left out here.                                                          *)
RevolvingNext ==
    \/ BorrowerUsesFacility
    \/ LendersUseFacility
    \/ BotKeepsFacility
    \/ TimePasses

RevolvingSpec == RevolvingInit /\ [][RevolvingNext]_revolvingVars

-----------------------------------------------------------------------------
(* Through draws, repayments, recalls and partial liquidations, the balance*)
(* is what is drawn, what is drawn and what may be drawn fit the limit,    *)
(* and the limit is covered by the lenders who are still in the facility:  *)
(* nobody draws on the money of a lender who has left.                     *)
FacilityAddsUp ==
    OnLoan => /\ contract.outstanding_balance = facility.drawn_amount
              /\ facility.drawn_amount + facility.available_amount
                    <= facility.credit_limit
              /\ facility.credit_limit <= contract.funded_amount

(* A facility's part of State.total_debt is what is drawn of it, at every  *)
(* moment and after its end: unlike a loan that is drawn at once, it takes *)
(* nothing along and leaves nothing behind.                                *)
TotalDebtIsDrawn == totalDebt = OtherDebt + facility.drawn_amount

(* A closed facility of which nothing is owed is completed by whichever    *)
(* step pays the last of it, since no later step could do it: payments and *)
(* repayments would be refused.  And it is completed no sooner.  Excepted  *)
(* is a facility whose limit partial liquidations have brought to nothing: *)
(* its interest is capped at nothing from then on, by any step.            *)
ClosedFacilityCompletes ==
    LET owesNothing == /\ facility.drawn_amount = 0
                       /\ contract.accrued_interest = 0
                       /\ facility.accrued_standby_fees = 0
    IN  /\ contract.status = "Active" /\ facility.credit_limit > 0 =>
              ~(facility.revolving_closed /\ owesNothing)
        /\ contract.status = "Completed" /\ contract.contributions # {} =>
              owesNothing

(* What is owed for the time that has passed, charged already or not.      *)
ChargesDue == Charged.accrued_interest
                + WithStandbyFees(facility).accrued_standby_fees

(* Drawing, repaying or having collateral sold changes what is charged     *)
(* from now on, never what is due for the time before.                     *)
PastChargesStand ==
    [][(/\ facility'.drawn_amount # facility.drawn_amount
        /\ contract'.contributions = contract.contributions
        /\ contract'.status # "Liquidated") =>
           ChargesDue' = ChargesDue]_revolvingVars
=============================================================================
