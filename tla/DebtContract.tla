---------------------------- MODULE DebtContract ----------------------------
(***************************************************************************)
(* One debt contract from its listing to its funding, its cancellation or  *)
(* its expiry: the borrower, the lenders, the bot and the contract's own   *)
(* token accounts (instructions/lending.rs, contexts/lending.rs,           *)
(* state/mod.rs).  LoanServicing goes on from there: payments, recalls and *)
(* liquidations of the funded loan.                                        *)
(*                                                                         *)
(* An instruction either runs to its end or leaves every account as it     *)
(* was, so each one is a single action whose conjuncts are its checks; a   *)
(* token transfer or a checked_sub is a check that the balance suffices.   *)
(*                                                                         *)
(* Left out: revolving contracts (is_revolving = FALSE throughout), keys   *)
(* and mints, the SOL operations fund, events, and counters nothing reads  *)
(* back.  Callers own the tokens they pay with; the borrower is none of    *)
(* the Lenders, which is what validate_not_self_funding demands.           *)
(***************************************************************************)
EXTENDS Integers, FiniteSets, FiniteSetsExt

CONSTANTS
    Lenders,
    Nobody,           \* recall_requested_by outside a recall
    Offers,           \* the terms create_debt_contract may be called with
    Amounts,          \* the amounts lenders and the authority call with
    OtherDebt,        \* the part of State.total_debt other contracts make up
    ListingLife,      \* CONTRACT_EXPIRATION_SECONDS
    Cooldown,         \* WITHDRAWAL_COOLDOWN_SECONDS
    BpsDenom,         \* 10_000
    ListingFeeBps,    \* State.primary_listing_fee_bps, of BpsDenom
    FrontendShareBps, \* FRONTEND_FEE_SHARE_BPS
    MaxTime           \* bound on the clock

(* What create_debt_contract makes sure of before it lists a contract.     *)
ValidOffer(offer) ==
    /\ offer.target_amount \in Nat \ {0}
    /\ offer.max_lenders \in Nat \ {0}
    /\ offer.collateral_amount \in Nat
    /\ offer.ltv_floor_bps \in Nat
    /\ offer.ltv_floor_bps = 0 <=> offer.collateral_amount = 0
    /\ offer.partial_funding \in BOOLEAN
    /\ offer.allow_partial_fill \in BOOLEAN
    /\ IF offer.allow_partial_fill
       THEN /\ offer.partial_funding
            /\ offer.min_partial_fill_bps \in 1 .. BpsDenom
       ELSE offer.min_partial_fill_bps = 0
    /\ offer.allowlist \in BOOLEAN
    /\ offer.frontend \in BOOLEAN
    /\ offer.loan_type \in {"Demand", "Committed"}
    /\ offer.interest_rate \in Nat \ {0}
    /\ offer.interest_payment_type \in
          {"OutstandingBalance", "CollateralTransfer"}
    /\ offer.interest_payment_type = "CollateralTransfer" =>
          offer.collateral_amount > 0
    /\ offer.term_days \in Nat
    /\ offer.principal_frequency \in Nat
    /\ offer.principal_frequency > 0 =>
          offer.collateral_amount > 0 /\ offer.term_days > 0

ASSUME OffersAreValid == \A offer \in Offers : ValidOffer(offer)

ASSUME ConstantsAreNumbers ==
    /\ Nobody \notin Lenders
    /\ Amounts \subseteq Nat
    /\ OtherDebt \in Nat
    /\ ListingLife \in Nat
    /\ Cooldown \in Nat
    /\ BpsDenom \in Nat \ {0}
    /\ ListingFeeBps \in 0 .. BpsDenom
    /\ FrontendShareBps \in 0 .. BpsDenom
    /\ MaxTime \in Nat

VARIABLES
    now,              \* Clock::unix_timestamp
    isPaused,         \* State.is_paused
    terms,            \* the fields of DebtContract that only an approved
                      \* proposal changes (Proposals);
                      \* before the listing, what the borrower will ask for
    contract,         \* the other fields of DebtContract
    contribution,     \* LenderContribution of each lender
    escrow,           \* LenderEscrow of each lender and its token account
    approved,         \* lenders with an ApprovedFunder account
    usdc,             \* balance of contract.loan_token_account
    collateral,       \* balance of contract.collateral_token_account
    treasuryUsdc,     \* balance of Treasury.treasury_usdc_account
    totalDebt         \* State.total_debt

vars == <<now, isPaused, terms, contract, contribution, escrow, approved,
          usdc, collateral, treasuryUsdc, totalDebt>>

-----------------------------------------------------------------------------
OpenStatuses == {"OpenNotFunded", "OpenPartiallyFunded"}
Statuses == {"Uncreated", "Active", "PendingRecall", "Completed",
             "Liquidated", "Cancelled"} \union OpenStatuses

Lesser(a, b) == IF a <= b THEN a ELSE b

MinusSaturating(a, b) == IF a >= b THEN a - b ELSE 0

(* part/whole of amount, rounded down                                      *)
Share(part, whole, amount) == (part * amount) \div whole

BpsOf(amount, bps) == (amount * bps) \div BpsDenom

NoContribution == [exists |-> FALSE, contribution_amount |-> 0,
                   is_refunded |-> FALSE, last_contributed_at |-> 0]

NoEscrow == [exists |-> FALSE, escrow_amount |-> 0, available_interest |-> 0,
             available_principal |-> 0, usdc |-> 0]

(* The contributions of contract.contributions, which is a Vec without     *)
(* duplicates: it is modelled as a set of lenders.                         *)
NoContract ==
    [status |-> "Uncreated", target_amount |-> 0, funded_amount |-> 0,
     num_contributions |-> 0, contributions |-> {}, created_at |-> 0,
     expires_at |-> 0, listing_fee_paid |-> 0, collateral_amount |-> 0,
     outstanding_balance |-> 0, accrued_interest |-> 0,
     last_interest_update |-> 0, last_principal_payment |-> 0,
     total_principal_paid |-> 0, uncollectable_balance |-> 0,
     recall_requested |-> FALSE, recall_requested_at |-> 0,
     recall_requested_by |-> Nobody]

IsOpen == contract.status \in OpenStatuses

(* The lenders whose contribution is in the contract and not paid back.    *)
Contributors ==
    {l \in Lenders : contribution[l].exists /\ ~contribution[l].is_refunded}

TotalOf(lenders) ==
    MapThenSumSet(LAMBDA l : contribution[l].contribution_amount, lenders)

-----------------------------------------------------------------------------
(* create_debt_contract.  The listing fee goes to the treasury, except for *)
(* the share of the frontend that brought the borrower; paidFrontend says  *)
(* whether the frontend's token account was passed along.                  *)
CreateDebtContract(paidFrontend) ==
    LET fee == BpsOf(terms.target_amount, ListingFeeBps)
        frontendShare == IF terms.frontend /\ paidFrontend
                         THEN BpsOf(fee, FrontendShareBps) ELSE 0
    IN  /\ ~isPaused
        /\ contract.status = "Uncreated"
        /\ contract' = [NoContract EXCEPT
                          !.status = "OpenNotFunded",
                          !.target_amount = terms.target_amount,
                          !.created_at = now,
                          !.expires_at = now + ListingLife,
                          !.listing_fee_paid = fee,
                          !.collateral_amount = terms.collateral_amount]
        /\ collateral' = terms.collateral_amount
        /\ treasuryUsdc' = treasuryUsdc + fee - frontendShare
        /\ totalDebt' = totalDebt + terms.target_amount
        /\ UNCHANGED <<now, isPaused, terms, contribution, escrow, approved,
                       usdc>>

(* approve_funder and revoke_funder: an approval is read only by contracts *)
(* with an allowlist, so only those are given any here.                    *)
ApproveFunder(l) ==
    /\ contract.status # "Uncreated" /\ terms.allowlist
    /\ l \notin approved
    /\ approved' = approved \union {l}
    /\ UNCHANGED <<now, isPaused, terms, contract, contribution, escrow,
                   usdc, collateral, treasuryUsdc, totalDebt>>

RevokeFunder(l) ==
    /\ l \in approved
    /\ approved' = approved \ {l}
    /\ UNCHANGED <<now, isPaused, terms, contract, contribution, escrow,
                   usdc, collateral, treasuryUsdc, totalDebt>>

-----------------------------------------------------------------------------
(* activate_open_contract_funding: what has been funded becomes the loan   *)
(* and goes to the borrower.                                               *)
MayActivate(c, balance) == c.funded_amount > 0 /\ balance >= c.funded_amount

FaultyActivated(c) ==  \* the loan stays as large as was asked for
    [c EXCEPT !.status = "Active",
              !.outstanding_balance = c.target_amount,
              !.last_interest_update = now,
              !.last_principal_payment = now]

Activated(c) ==
    [c EXCEPT !.status = "Active",
              !.target_amount = c.funded_amount,
              !.outstanding_balance = c.funded_amount,
              !.last_interest_update = now,
              !.last_principal_payment = now]

(* finalize_contribution_to_contract: the last lender there is room for    *)
(* must bring all that is missing.                                         *)
FaultyFillsListing(amount) ==  \* the last lender may bring less
    IF terms.partial_funding THEN TRUE
    ELSE contract.funded_amount = 0 /\ amount = contract.target_amount

FillsListing(amount) ==
    IF terms.partial_funding
    THEN contract.num_contributions + 1 >= terms.max_lenders =>
            amount = contract.target_amount - contract.funded_amount
    ELSE contract.funded_amount = 0 /\ amount = contract.target_amount

MayContribute(l, amount) ==
    /\ ~contribution[l].exists
    /\ IsOpen /\ now < contract.expires_at
    /\ amount > 0
    /\ terms.allowlist => l \in approved
    /\ contract.num_contributions < terms.max_lenders
    /\ FillsListing(amount)
    /\ contract.funded_amount + amount <= contract.target_amount

WithContribution(c, l, amount) ==
    [c EXCEPT !.funded_amount = @ + amount,
              !.num_contributions = @ + 1,
              !.contributions = @ \union {l}]

ContributeToContract(l, amount) ==
    LET funded == WithContribution(contract, l, amount)
    IN  /\ ~isPaused
        /\ MayContribute(l, amount)
        /\ contribution' = [contribution EXCEPT ![l] =
                             [exists |-> TRUE, contribution_amount |-> amount,
                              is_refunded |-> FALSE,
                              last_contributed_at |-> now]]
        /\ escrow' = [escrow EXCEPT ![l] =
                        [NoEscrow EXCEPT !.exists = TRUE,
                                         !.usdc = escrow[l].usdc]]
        /\ IF funded.funded_amount >= funded.target_amount
           THEN /\ MayActivate(funded, usdc + amount)
                /\ contract' = Activated(funded)
                /\ usdc' = usdc + amount - funded.funded_amount
           ELSE /\ contract' = [funded EXCEPT !.status =
                                  IF @ = "OpenNotFunded"
                                  THEN "OpenPartiallyFunded" ELSE @]
                /\ usdc' = usdc + amount
        /\ UNCHANGED <<now, isPaused, terms, approved, collateral,
                       treasuryUsdc, totalDebt>>

FaultyWithdrawContribution(l) ==  \* the place on the list stays taken
    /\ IsOpen
    /\ contribution[l].exists
    /\ now - contribution[l].last_contributed_at >= Cooldown
    /\ usdc' = usdc - contribution[l].contribution_amount
    /\ contract' = [contract EXCEPT
                      !.funded_amount = @ - contribution[l].contribution_amount]
    /\ contribution' = [contribution EXCEPT ![l] = NoContribution]
    /\ UNCHANGED <<now, isPaused, terms, escrow, approved, collateral,
                   treasuryUsdc, totalDebt>>

WithdrawContribution(l) ==
    LET amount == contribution[l].contribution_amount
        funded == contract.funded_amount - amount
    IN  /\ IsOpen
        /\ contribution[l].exists
        /\ escrow[l].exists
        /\ escrow[l].escrow_amount = 0
        /\ escrow[l].available_interest = 0
        /\ escrow[l].available_principal = 0
        /\ now - contribution[l].last_contributed_at >= Cooldown
        /\ usdc >= amount /\ funded >= 0
        /\ contract.num_contributions > 0
        /\ l \in contract.contributions
        /\ usdc' = usdc - amount
        /\ contract' = [contract EXCEPT
                          !.funded_amount = funded,
                          !.num_contributions = @ - 1,
                          !.contributions = @ \ {l},
                          !.status = IF funded = 0 THEN "OpenNotFunded"
                                     ELSE "OpenPartiallyFunded"]
        /\ contribution' = [contribution EXCEPT ![l] = NoContribution]
        /\ escrow' = [escrow EXCEPT ![l] =
                        [NoEscrow EXCEPT !.usdc = escrow[l].usdc]]
        /\ UNCHANGED <<now, isPaused, terms, approved, collateral,
                       treasuryUsdc, totalDebt>>

-----------------------------------------------------------------------------
(* The ways a listing ends without being filled.                           *)

FaultyCancelled(c) ==  \* the books are emptied before the refunds
    [c EXCEPT !.status = "Cancelled", !.collateral_amount = 0,
              !.funded_amount = 0]

Cancelled(c) == [c EXCEPT !.status = "Cancelled", !.collateral_amount = 0]

CollateralCovers == collateral >= contract.collateral_amount

FaultyCancelContract ==  \* a running loan may be cancelled, too
    /\ contract.status \in OpenStatuses \union {"Active"}
    /\ CollateralCovers
    /\ contract' = Cancelled(contract)
    /\ collateral' = collateral - contract.collateral_amount
    /\ UNCHANGED <<now, isPaused, terms, contribution, escrow, approved,
                   usdc, treasuryUsdc, totalDebt>>

CancelContract ==
    /\ IsOpen
    /\ CollateralCovers
    /\ contract' = Cancelled(contract)
    /\ collateral' = collateral - contract.collateral_amount
    /\ UNCHANGED <<now, isPaused, terms, contribution, escrow, approved,
                   usdc, treasuryUsdc, totalDebt>>

(* has_met_partial_fill_threshold                                          *)
FaultyMetFillThreshold ==  \* any funding will do
    contract.funded_amount > 0

MetFillThreshold ==
    /\ contract.funded_amount > 0
    /\ contract.funded_amount * BpsDenom >=
         contract.target_amount * terms.min_partial_fill_bps

ShouldActivateOnExpiry == terms.allow_partial_fill /\ MetFillThreshold

(* What the borrower gets back of the listing fee: a frontend's share is   *)
(* kept back whether or not the frontend was paid it.                      *)
ListingFeeRefund ==
    contract.listing_fee_paid
        - (IF terms.frontend
           THEN BpsOf(contract.listing_fee_paid, FrontendShareBps) ELSE 0)

ActivateExpired ==
    /\ ShouldActivateOnExpiry
    /\ MayActivate(contract, usdc)
    /\ contract' = Activated(contract)
    /\ usdc' = usdc - contract.funded_amount
    /\ UNCHANGED <<collateral, treasuryUsdc>>

FaultyCancelExpired ==  \* the treasury is not asked what it has
    /\ ~ShouldActivateOnExpiry
    /\ CollateralCovers
    /\ contract' = [Cancelled(contract) EXCEPT !.listing_fee_paid = 0]
    /\ collateral' = collateral - contract.collateral_amount
    /\ treasuryUsdc' = treasuryUsdc - ListingFeeRefund
    /\ UNCHANGED usdc

CancelExpired ==
    /\ ~ShouldActivateOnExpiry
    /\ CollateralCovers
    /\ treasuryUsdc >= ListingFeeRefund
    /\ contract' = [Cancelled(contract) EXCEPT !.listing_fee_paid = 0]
    /\ collateral' = collateral - contract.collateral_amount
    /\ treasuryUsdc' = treasuryUsdc - ListingFeeRefund
    /\ UNCHANGED usdc

ExpireContract ==
    /\ IsOpen
    /\ now >= contract.expires_at
    /\ ActivateExpired \/ CancelExpired
    /\ UNCHANGED <<now, isPaused, terms, contribution, escrow, approved,
                   totalDebt>>

CloseListing ==
    /\ contract.status = "OpenPartiallyFunded"
    /\ terms.allow_partial_fill
    /\ MetFillThreshold
    /\ MayActivate(contract, usdc)
    /\ contract' = Activated(contract)
    /\ usdc' = usdc - contract.funded_amount
    /\ UNCHANGED <<now, isPaused, terms, contribution, escrow, approved,
                   collateral, treasuryUsdc, totalDebt>>

(* refund_lender by the lender, bot_refund_expired_lender by the bot: the  *)
(* same effect.  The caller may have the lender's escrow closed with it.   *)
FaultyRefundLender(l, closeEscrow) ==  \* the refund is not marked
    /\ contract.status = "Cancelled"
    /\ contribution[l].exists /\ ~contribution[l].is_refunded
    /\ usdc >= contribution[l].contribution_amount
    /\ contract.funded_amount >= contribution[l].contribution_amount
    /\ usdc' = usdc - contribution[l].contribution_amount
    /\ contract' = [contract EXCEPT
                      !.funded_amount = @ - contribution[l].contribution_amount]
    /\ UNCHANGED <<now, isPaused, terms, contribution, escrow, approved,
                   collateral, treasuryUsdc, totalDebt>>

RefundLender(l, closeEscrow) ==
    LET amount == contribution[l].contribution_amount
    IN  /\ contract.status = "Cancelled"
        /\ contribution[l].exists /\ ~contribution[l].is_refunded
        /\ usdc >= amount /\ contract.funded_amount >= amount
        /\ closeEscrow => escrow[l].exists
        /\ usdc' = usdc - amount
        /\ contribution' = [contribution EXCEPT ![l].is_refunded = TRUE]
        /\ contract' = [contract EXCEPT !.funded_amount = @ - amount]
        /\ escrow' = IF closeEscrow
                     THEN [escrow EXCEPT ![l] =
                             [NoEscrow EXCEPT !.usdc = escrow[l].usdc]]
                     ELSE escrow
        /\ UNCHANGED <<now, isPaused, terms, approved, collateral,
                       treasuryUsdc, totalDebt>>

-----------------------------------------------------------------------------
(* The platform around the contract.                                       *)

TogglePause ==
    /\ isPaused' = ~isPaused
    /\ UNCHANGED <<now, terms, contract, contribution, escrow, approved,
                   usdc, collateral, treasuryUsdc, totalDebt>>

WithdrawFromTreasury(amount) ==
    /\ amount > 0 /\ treasuryUsdc >= amount
    /\ treasuryUsdc' = treasuryUsdc - amount
    /\ UNCHANGED <<now, isPaused, terms, contract, contribution, escrow,
                   approved, usdc, collateral, totalDebt>>

Tick ==
    /\ now < MaxTime
    /\ now' = now + 1
    /\ UNCHANGED <<isPaused, terms, contract, contribution, escrow, approved,
                   usdc, collateral, treasuryUsdc, totalDebt>>

Init ==
    /\ now = 1
    /\ isPaused = FALSE
    /\ terms \in Offers
    /\ contract = NoContract
    /\ contribution = [l \in Lenders |-> NoContribution]
    /\ escrow = [l \in Lenders |-> NoEscrow]
    /\ approved = {}
    /\ usdc = 0
    /\ collateral = 0
    /\ treasuryUsdc = 0
    /\ totalDebt = OtherDebt

BorrowerStep ==
    \/ \E paid \in BOOLEAN : CreateDebtContract(paid)
    \/ \E l \in Lenders : ApproveFunder(l) \/ RevokeFunder(l)
    \/ CancelContract
    \/ CloseListing

LenderStep ==
    \E l \in Lenders :
        \/ \E amount \in Amounts : ContributeToContract(l, amount)
        \/ WithdrawContribution(l)
        \/ \E closeEscrow \in BOOLEAN : RefundLender(l, closeEscrow)

PlatformStep ==
    \/ ExpireContract
    \/ TogglePause
    \/ \E amount \in Amounts : WithdrawFromTreasury(amount)
    \/ Tick

ListingNext == BorrowerStep \/ LenderStep \/ PlatformStep

ListingSpec == Init /\ [][ListingNext]_vars

(* The bot goes through the lenders of a cancelled contract and refunds    *)
(* them; that it keeps doing so is the only fairness assumed.              *)
Refunds(l) == \E closeEscrow \in BOOLEAN : RefundLender(l, closeEscrow)

FairListingSpec == ListingSpec /\ \A l \in Lenders : WF_vars(Refunds(l))

-----------------------------------------------------------------------------
ContractType ==
    [status : Statuses, target_amount : Nat, funded_amount : Nat,
     num_contributions : Nat, contributions : SUBSET Lenders,
     created_at : Nat, expires_at : Nat, listing_fee_paid : Nat,
     collateral_amount : Nat, outstanding_balance : Nat,
     accrued_interest : Nat, last_interest_update : Nat,
     last_principal_payment : Nat, total_principal_paid : Nat,
     uncollectable_balance : Nat, recall_requested : BOOLEAN,
     recall_requested_at : Nat,
     recall_requested_by : Lenders \union {Nobody}]

ContributionType ==
    [exists : BOOLEAN, contribution_amount : Nat, is_refunded : BOOLEAN,
     last_contributed_at : Nat]

EscrowType ==
    [exists : BOOLEAN, escrow_amount : Nat, available_interest : Nat,
     available_principal : Nat, usdc : Nat]

(* Every account is well formed and no token account is overdrawn, the     *)
(* treasury's included when it pays listing fees back.                     *)
TypeOK ==
    /\ now \in Nat
    /\ isPaused \in BOOLEAN
    /\ terms \in Offers
    /\ contract \in ContractType
    /\ contribution \in [Lenders -> ContributionType]
    /\ escrow \in [Lenders -> EscrowType]
    /\ approved \subseteq Lenders
    /\ usdc \in Nat
    /\ collateral \in Nat
    /\ treasuryUsdc \in Nat
    /\ totalDebt \in Nat

(* Until the loan starts, the contract's account holds exactly what its    *)
(* lenders have put in and not taken back or been refunded: nobody is paid *)
(* twice, and what everybody is owed is there.                             *)
FundingIsBacked ==
    IsOpen \/ contract.status = "Cancelled" =>
        /\ contract.funded_amount = TotalOf(Contributors)
        /\ usdc = contract.funded_amount

(* contributions and num_contributions, kept by hand in seven handlers,    *)
(* name exactly the lenders with money in the contract.                    *)
ContributorsAreListed ==
    contract.status # "Cancelled" =>
        /\ contract.contributions = Contributors
        /\ contract.num_contributions = Cardinality(contract.contributions)

(* An open listing can still be filled: there is an amount missing and a   *)
(* place for a lender to bring it.                                         *)
ListingHasRoom ==
    IsOpen => /\ contract.funded_amount < contract.target_amount
              /\ contract.num_contributions < terms.max_lenders

(* However a loan starts (by the last contribution, by the borrower's      *)
(* close_listing, by the bot at expiry), it is for what the lenders put    *)
(* in, the borrower gets all of it, and it is what was asked for or at     *)
(* least the threshold the borrower set.                                   *)
LoanIsWhatWasLent ==
    [][(IsOpen /\ contract'.status = "Active") =>
          LET lent == MapThenSumSet(
                        LAMBDA l : contribution'[l].contribution_amount,
                        contract'.contributions)
          IN  /\ contract'.outstanding_balance = lent
              /\ contract'.target_amount = lent
              /\ usdc' = 0
              /\ \/ lent = contract.target_amount
                 \/ /\ terms.allow_partial_fill
                    /\ lent * BpsDenom >=
                         contract.target_amount * terms.min_partial_fill_bps]_vars

(* ContractStatus::valid_transitions                                       *)
ValidTransitions(status) ==
    CASE status = "Uncreated" -> {"OpenNotFunded"}
      [] status = "OpenNotFunded" ->
            {"OpenPartiallyFunded", "Active", "Cancelled"}
      [] status = "OpenPartiallyFunded" ->
            {"OpenNotFunded", "Active", "Cancelled"}
      [] status = "Active" -> {"PendingRecall", "Completed", "Liquidated"}
      [] status = "PendingRecall" -> {"Active", "Completed", "Liquidated"}
      [] OTHER -> {}

(* Handlers assign the status without asking valid_transitions; those of   *)
(* this module and of the servicing module still never make a move it does *)
(* not list.  (process_proposal_recall, proposals.rs:809, sets a status    *)
(* too; it is in the module Proposals.)                                    *)
StatusMovesAsDocumented ==
    [][contract'.status # contract.status =>
          contract'.status \in ValidTransitions(contract.status)]_vars

(* Every lender of a cancelled contract is refunded in the end.            *)
LendersAreRefunded ==
    contract.status = "Cancelled" ~> Contributors = {}
-----------------------------------------------------------------------------
(* A listing as Fundraising sees it.                                       *)
Phase ==
    CASE contract.status = "Uncreated" -> "unlisted"
      [] IsOpen -> "open"
      [] contract.status = "Cancelled" -> "cancelled"
      [] OTHER -> "lent"

(* The smallest amount that has_met_partial_fill_threshold lets through.   *)
LeastFill ==
    IF terms.allow_partial_fill
    THEN (terms.target_amount * terms.min_partial_fill_bps + BpsDenom - 1)
            \div BpsDenom
    ELSE terms.target_amount

Raising == INSTANCE Fundraising WITH
    phase <- Phase,
    goal <- terms.target_amount,
    least <- LeastFill,
    stakes <- [l \in Lenders |-> IF l \in Contributors
                                 THEN contribution[l].contribution_amount
                                 ELSE 0],
    pot <- usdc,
    loan <- contract.outstanding_balance

(* Whatever lenders, borrower and bot do in whatever order, with approvals,*)
(* cooldowns, expiries, refunds and pauses: the money of a listing goes    *)
(* where Fundraising says, and nowhere else.                               *)
RaisesFunds == Raising!Spec
=============================================================================
