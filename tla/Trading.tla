------------------------------- MODULE Trading -------------------------------
(***************************************************************************)
(* The market for positions in a running loan (instructions/trading.rs,    *)
(* contexts/trading.rs, state/trading.rs, utils/trading.rs): lenders list  *)
(* a position or a part of it, buyers make offers, seller and buyer sign   *)
(* the acceptance together, or transfer a position directly.  The module   *)
(* starts from a funded loan that goes on meanwhile (LoanServicing): what  *)
(* was listed may have been sold, recalled or paid since.                  *)
(*                                                                         *)
(* Left out: asking prices, types and statistics of listings and the       *)
(* events, which are for display; calculate_position_value, which no       *)
(* instruction reads; ltv_ratio, above a threshold of which no position of *)
(* the loan is ever tradeable; who pays with what wallet.                  *)
(***************************************************************************)
EXTENDS Positions

CONSTANTS
    Nonces,           \* a lender's listings are told apart by a nonce
    MaxListingLife,   \* MAX_TRADE_LISTING_DURATION_SECONDS
    MaxListings,      \* bound on the listings that exist at once
    MaxOffers         \* bound on the offers that exist at once

ASSUME TradingConstants ==
    /\ MaxListingLife \in Nat
    /\ MaxListings \in Nat \ {0} /\ MaxOffers \in Nat \ {0}

VARIABLES
    listings,             \* TradeListing by its seller and nonce
    offers,               \* TradeOffer by its listing and buyer
    has_active_proposal   \* DebtContract.has_active_proposal

tradeVars == <<listings, offers, has_active_proposal>>
allVars == <<vars, tradeVars>>

(* is_active is FALSE only of accounts that are closed.                    *)
NoListing == [exists |-> FALSE, amount |-> 0, expires_at |-> 0]

NoOffer == [exists |-> FALSE, amount |-> 0, price |-> 0, expires_at |-> 0]

ListingKeys == Lenders \X Nonces
OfferKeys == ListingKeys \X Lenders

-----------------------------------------------------------------------------
MayListAmount(total, amount) ==
    /\ MinListing <= amount /\ amount <= total
    /\ amount < total => total - amount >= MinListing

Open(accounts) == {key \in DOMAIN accounts : accounts[key].exists}

InWindow(expiry) == now < expiry /\ expiry <= now + MaxListingLife

CreateTradeListing(l, nonce, amount, expiry) ==
    /\ ~isPaused
    /\ ~has_active_proposal
    /\ ~listings[<<l, nonce>>].exists
    /\ Cardinality(Open(listings)) < MaxListings
    /\ MayTrade(l)
    /\ MayListAmount(contribution[l].contribution_amount, amount)
    /\ InWindow(expiry)
    /\ listings' = [listings EXCEPT ![<<l, nonce>>] =
                      [exists |-> TRUE, amount |-> amount,
                       expires_at |-> expiry]]
    /\ UNCHANGED <<vars, offers, has_active_proposal>>

ListingIsValid(key) == listings[key].exists /\ now < listings[key].expires_at

(* An offer is for all that is listed.                                     *)
CreateTradeOffer(key, buyer, price, expiry) ==
    /\ ~isPaused
    /\ ListingIsValid(key)
    /\ ~offers[<<key, buyer>>].exists
    /\ Cardinality(Open(offers)) < MaxOffers
    /\ price > 0
    /\ InWindow(expiry)
    /\ offers' = [offers EXCEPT ![<<key, buyer>>] =
                    [exists |-> TRUE, amount |-> listings[key].amount,
                     price |-> price, expires_at |-> expiry]]
    /\ UNCHANGED <<vars, listings, has_active_proposal>>

-----------------------------------------------------------------------------
(* The status of the loan and the remainder are looked at again, the other *)
(* conditions of a trade are not: that the position is still in the loan   *)
(* is found out by the transfer.                                           *)
AcceptTradeOffer(key, buyer, frontend) ==
    LET seller == key[1]
        offer == offers[<<key, buyer>>]
    IN  /\ contract.status = "Active"
        /\ ~isPaused
        /\ ~has_active_proposal
        /\ ListingIsValid(key)
        /\ offer.exists /\ now < offer.expires_at
        /\ offer.amount = listings[key].amount
        /\ MayDivide(contribution[seller].contribution_amount, offer.amount)
        /\ ExecutePositionTransfer(seller, buyer, offer.amount)
        /\ HandlePaymentTransfer(offer.price, frontend)
        /\ listings' = [listings EXCEPT ![key] = NoListing]
        /\ offers' = [offers EXCEPT ![<<key, buyer>>] = NoOffer]
        /\ UNCHANGED <<now, isPaused, terms, approved, usdc, collateral,
                       totalDebt, has_active_proposal>>

TransferLenderPosition(seller, buyer, amount, price, frontend) ==
    /\ ~isPaused
    /\ ~has_active_proposal
    /\ MayTrade(seller)
    /\ MayDivide(contribution[seller].contribution_amount, amount)
    /\ ExecutePositionTransfer(seller, buyer, amount)
    /\ HandlePaymentTransfer(price, frontend)
    /\ UNCHANGED <<now, isPaused, terms, approved, usdc, collateral,
                   totalDebt, tradeVars>>

-----------------------------------------------------------------------------
(* cancel_trade_listing by the seller at any time, expire_trade_listing by *)
(* the bot in time: both close the account, whose nonce is free again.     *)
CancelTradeListing(key) ==
    /\ listings[key].exists
    /\ listings' = [listings EXCEPT ![key] = NoListing]
    /\ UNCHANGED <<vars, offers, has_active_proposal>>

ExpireTradeListing(key) ==
    /\ listings[key].exists
    /\ now >= listings[key].expires_at
    /\ listings' = [listings EXCEPT ![key] = NoListing]
    /\ UNCHANGED <<vars, offers, has_active_proposal>>

(* An offer outlives its listing, and is good for another one under the    *)
(* same nonce; its buyer may take it back only between the two.            *)
CancelOrphanedTradeOffer(key, buyer) ==
    /\ offers[<<key, buyer>>].exists
    /\ ~listings[key].exists
    /\ offers' = [offers EXCEPT ![<<key, buyer>>] = NoOffer]
    /\ UNCHANGED <<vars, listings, has_active_proposal>>

-----------------------------------------------------------------------------
MarketStep ==
    \/ \E l \in Lenders, n \in Nonces, amount \in TradeAmounts,
         life \in 1 .. MaxListingLife :
          CreateTradeListing(l, n, amount, now + life)
    \/ \E key \in ListingKeys, buyer \in Lenders :
          \/ \E price \in TradePrices, life \in 1 .. MaxListingLife :
                CreateTradeOffer(key, buyer, price, now + life)
          \/ \E frontend \in BOOLEAN : AcceptTradeOffer(key, buyer, frontend)
          \/ CancelOrphanedTradeOffer(key, buyer)
    \/ \E seller, buyer \in Lenders, amount \in TradeAmounts,
         price \in TradePrices, frontend \in BOOLEAN :
          TransferLenderPosition(seller, buyer, amount, price, frontend)
    \/ \E key \in ListingKeys :
          CancelTradeListing(key) \/ ExpireTradeListing(key)

(* Proposals come and go, as Proposals has it.                             *)
ToggleProposal ==
    /\ has_active_proposal' = ~has_active_proposal
    /\ UNCHANGED <<vars, listings, offers>>

(* What fills and empties the escrows, and recalls.  The platform is not   *)
(* paused here: that would only bar steps.                                 *)
LoanStep ==
    /\ \/ \E amount \in Payments, last \in Lenders :
             MakePaymentWithDistribution(amount, last)
       \/ LenderServices
       \/ \E l \in Lenders : BorrowerRepayRecall(l)
       \/ SettleByBot
       \/ Tick
    /\ UNCHANGED tradeVars

TradingInit ==
    /\ FundedInit
    /\ listings = [key \in ListingKeys |-> NoListing]
    /\ offers = [key \in OfferKeys |-> NoOffer]
    /\ has_active_proposal = FALSE

TradingNext == MarketStep \/ ToggleProposal \/ LoanStep

TradingSpec == TradingInit /\ [][TradingNext]_allVars

-----------------------------------------------------------------------------
(* Whatever is listed more than once, sold in part, recalled or listed and *)
(* recalled, in any order: the contract's lenders are those who own a part *)
(* of it, and the parts, by which everything is shared out, add up.        *)
PositionsAddUp ==
    OnLoan =>
        /\ contract.contributions =
              {l \in Contributors : contribution[l].contribution_amount > 0}
        /\ contract.funded_amount = TotalOf(contract.contributions)
        /\ contract.num_contributions = Cardinality(contract.contributions)

(* There are never more lenders than the borrower allowed, though listings *)
(* of parts made when there was room are accepted when there is none.      *)
LendersStayWithinCap ==
    contract.num_contributions <= terms.max_lenders

(* Trades neither add to what the escrows of a loan say they hold, taken   *)
(* together, nor lose any of it: it is what their accounts hold.           *)
EscrowsAddUp ==
    MapThenSumSet(LAMBDA l : escrow[l].escrow_amount, Lenders) = EscrowTotal
=============================================================================
