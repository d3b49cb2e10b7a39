------------------------------ MODULE Positions ------------------------------
(***************************************************************************)
(* A trade of a position in a running loan: what changes hands, of the     *)
(* loan's books and of the price (instructions/trading.rs,                 *)
(* utils/trading.rs).  Trading has the market around it; Proposals has     *)
(* trades beside proposals.                                                *)
(***************************************************************************)
EXTENDS LoanServicing

CONSTANTS
    TradeAmounts,     \* the amounts that are listed and transferred
    TradePrices,      \* the prices that are offered and paid
    MinListing,       \* MIN_LISTING_AMOUNT
    MinTimeLeft,      \* 30 days: what must remain of a committed loan
    RatioScale,       \* 1_000_000
    TradeFeeBps       \* secondary_listing_fee_bps and secondary_buyer_fee_bps

ASSUME PositionConstants ==
    /\ TradeAmounts \subseteq Nat /\ TradePrices \subseteq Nat
    /\ MinListing \in Nat \ {0}
    /\ MinTimeLeft \in Nat /\ RatioScale \in Nat \ {0}
    /\ TradeFeeBps \in 0 .. BpsDenom

(* validate_trade_conditions                                               *)
MayTrade(l) ==
    /\ contract.status = "Active"
    /\ terms.loan_type = "Committed" =>
          contract.created_at + terms.term_days * Day - now >= MinTimeLeft
    /\ contribution[l].exists
    /\ contribution[l].contribution_amount >= MinListing
    /\ ~contribution[l].is_refunded

(* validate_min_remainder and enforce_partial_lender_cap: what stays with  *)
(* the seller is worth listing, and there is a place for the buyer.        *)
FaultyMayDivide(total, amount) ==  \* the cap is forgotten
    /\ amount <= total
    /\ amount < total => total - amount >= MinListing

MayDivide(total, amount) ==
    /\ amount <= total
    /\ amount < total => /\ total - amount >= MinListing
                         /\ contract.num_contributions < terms.max_lenders

(* compute_transfer_computation: what of a balance goes with amount        *)
SplitOff(balance, amount, total) ==
    (balance * ((amount * RatioScale) \div total)) \div RatioScale

FaultySyncContributions(seller, buyer, left) ==  \* the seller always goes
    (contract.contributions \ {seller}) \union {buyer}

SyncContributions(seller, buyer, left) ==
    (IF left = 0 THEN contract.contributions \ {seller}
     ELSE contract.contributions) \union {buyer}

(* execute_position_transfer: the books of the seller's escrow are split,  *)
(* its tokens stay where they are.  The accounts of the buyer are created: *)
(* who had a position in the loan before cannot buy one.                   *)
FaultySplitEscrow(e, amount, total) ==  \* the seller's book is not lowered
    [e EXCEPT !.available_interest = @ - SplitOff(@, amount, total),
              !.available_principal = @ - SplitOff(@, amount, total)]

SplitEscrow(e, amount, total) ==
    [e EXCEPT !.escrow_amount = @ - SplitOff(@, amount, total),
              !.available_interest = @ - SplitOff(@, amount, total),
              !.available_principal = @ - SplitOff(@, amount, total)]

ExecutePositionTransfer(seller, buyer, amount) ==
    LET total == contribution[seller].contribution_amount
        from == escrow[seller]
        lenders == SyncContributions(seller, buyer, total - amount)
    IN  /\ ~contribution[buyer].exists /\ ~escrow[buyer].exists
        /\ contribution[seller].exists /\ from.exists
        /\ 0 < amount
        /\ seller \in contract.contributions
        /\ contribution' = [contribution EXCEPT
              ![seller].contribution_amount = total - amount,
              ![buyer] = [exists |-> TRUE, contribution_amount |-> amount,
                          is_refunded |-> FALSE, last_contributed_at |-> now]]
        /\ escrow' = [escrow EXCEPT
              ![seller] = SplitEscrow(from, amount, total),
              ![buyer] = [exists |-> TRUE, usdc |-> @.usdc,
                 escrow_amount |->
                     SplitOff(from.escrow_amount, amount, total),
                 available_interest |->
                     SplitOff(from.available_interest, amount, total),
                 available_principal |->
                     SplitOff(from.available_principal, amount, total)]]
        /\ contract' = [contract EXCEPT
              !.contributions = lenders,
              !.num_contributions = Cardinality(lenders)]

(* handle_payment_transfer: both sides pay a fee on the price, of which a  *)
(* frontend that takes part gets its share.                                *)
HandlePaymentTransfer(price, frontend) ==
    LET fee == 2 * BpsOf(price, TradeFeeBps)
        frontendShare == IF frontend THEN BpsOf(fee, FrontendShareBps) ELSE 0
    IN  treasuryUsdc' = treasuryUsdc + fee - frontendShare
=============================================================================
