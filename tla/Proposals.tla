------------------------------ MODULE Proposals ------------------------------
(***************************************************************************)
(* Proposals to amend the terms of a running loan                          *)
(* (instructions/proposals.rs, contexts/proposals.rs, state/proposals.rs): *)
(* borrower and lenders propose, vote, withdraw and close proposals, and   *)
(* lenders of demand loans may pledge to recall their money if a proposal  *)
(* fails, which the bot then processes.  The module starts from a funded   *)
(* loan; payments, recalls, liquidations and claims of LoanServicing and   *)
(* trades of positions go on around.                                       *)
(*                                                                         *)
(* Of the terms, those are amended that the model of the loan reads.       *)
(* Left out: the frequency of interest payments and ltv_ratio, the numbers *)
(* of rejections and of money pledged, which nothing reads, and who pays   *)
(* rent.  A vote's account outlives its proposal's.  The borrower may buy  *)
(* positions, too, which makes it no other party than it was: only lenders *)
(* buy here.                                                               *)
(***************************************************************************)
EXTENDS Positions

CONSTANTS
    Borrower,
    ProposedTerms,    \* the texts create_term_proposal may be called with
    ProposalExpiry,   \* PROPOSAL_EXPIRY_SECONDS
    ProposalCooldown, \* PROPOSAL_COOLDOWN_SECONDS
    MaxProposals,     \* bound on proposal_count
    MaxDemandProposals\* the same, of a demand loan, on which there are pledges

(* validate_proposed_terms, but for the comparison with the terms in force *)
ValidProposal(text) ==
    text \in [interest_rate : Nat \ {0}, term_days : Nat \ {0},
             principal_frequency : Nat,
             interest_payment_type :
                {"OutstandingBalance", "CollateralTransfer"},
             ltv_floor_bps : Nat]

AmendedFields == {"interest_rate", "term_days", "principal_frequency",
                  "interest_payment_type", "ltv_floor_bps"}

ASSUME ProposalConstants ==
    /\ Borrower \notin Lenders
    /\ \A text \in ProposedTerms : ValidProposal(text)
    /\ \A offer \in Offers : AmendedFields \subseteq DOMAIN offer
    /\ ProposalExpiry \in Nat /\ ProposalCooldown \in Nat
    /\ MaxProposals \in Nat /\ MaxDemandProposals \in Nat

VARIABLES
    proposals,            \* TermAmendmentProposal and its votes, by its id
    proposal_count,       \* DebtContract.proposal_count
    has_active_proposal,  \* DebtContract.has_active_proposal
    cooldown_until        \* ProposerCooldown of each participant

proposalVars == <<proposals, proposal_count, has_active_proposal,
                  cooldown_until>>
allVars == <<vars, proposalVars>>

Parties == Lenders \union {Borrower}
Ids == 1 .. MaxProposals

(* build_participant_snapshot                                              *)
Participants ==
    {Borrower} \union
        {l \in contract.contributions : ~contribution[l].is_refunded}

AmendableTerms(t) ==
    [interest_rate |-> t.interest_rate, term_days |-> t.term_days,
     principal_frequency |-> t.principal_frequency,
     interest_payment_type |-> t.interest_payment_type,
     ltv_floor_bps |-> t.ltv_floor_bps]

(* The voters whose vote is Approve have voted: a vote against is the last *)
(* one.  recall_pledged_count counts the votes with a pledge, pledged are  *)
(* their voters.                                                           *)
NoProposal ==
    [status |-> "None", proposer |-> Borrower, text |-> <<>>,
     participants |-> {}, voted |-> {}, approvals |-> 0, expires_at |-> 0,
     pledged |-> {}, recalls_processed |-> 0, recall_grace_start |-> 0]

(* What nothing reads of a proposal that was turned down is forgotten, and *)
(* so is who made it.                                                      *)
Decided(status) == [NoProposal EXCEPT !.status = status]

FaultyDecidedWithPledges(proposal, status) ==  \* no grace after an expiry
    [Decided(status) EXCEPT
        !.pledged = proposal.pledged,
        !.recall_grace_start = IF status = "Rejected" THEN now ELSE 0]

DecidedWithPledges(proposal, status) ==
    [Decided(status) EXCEPT
        !.pledged = proposal.pledged,
        !.recall_grace_start = IF proposal.pledged # {} THEN now ELSE 0]

(* apply_approved_terms: what was due by the old terms is settled first,   *)
(* and the new term, from when interest was last settled, is not over yet. *)
ApplyApprovedTerms(text) ==
    /\ ScheduleFits(WithInterest(contract))
    /\ WithInterest(contract).last_interest_update + text.term_days * Day >= now
    /\ contract' = WithSchedule(WithInterest(contract))
    /\ terms' = [terms EXCEPT
                   !.interest_rate = text.interest_rate,
                   !.term_days = text.term_days,
                   !.principal_frequency = text.principal_frequency,
                   !.interest_payment_type = text.interest_payment_type,
                   !.ltv_floor_bps = text.ltv_floor_bps]

(* A proposal that all participants have approved is carried out at once.  *)
Tallied(id, proposal) ==
    LET approved_by_all ==
            proposal.approvals >= Cardinality(proposal.participants)
    IN  /\ proposals' = [proposals EXCEPT ![id] =
              [proposal EXCEPT !.status = IF approved_by_all THEN "Approved"
                                          ELSE "Pending"]]
        /\ has_active_proposal' = ~approved_by_all
        /\ IF approved_by_all THEN ApplyApprovedTerms(proposal.text)
           ELSE UNCHANGED <<contract, terms>>
        /\ UNCHANGED <<now, isPaused, contribution, escrow, approved, usdc,
                       collateral, treasuryUsdc, totalDebt>>

(* Only lenders of demand loans, with money in this one, may pledge.       *)
MayPledge(p) ==
    /\ terms.loan_type = "Demand"
    /\ p \in Lenders
    /\ contribution[p].exists /\ ~contribution[p].is_refunded
    /\ contribution[p].contribution_amount > 0

CreateTermProposal(p, text, pledge) ==
    LET id == proposal_count + 1
    IN  /\ ~isPaused
        /\ contract.status = "Active"
        /\ ~has_active_proposal
        /\ id \in Ids
        /\ terms.loan_type = "Demand" => id <= MaxDemandProposals
        /\ p \in Participants
        /\ text # AmendableTerms(terms)
        /\ pledge => MayPledge(p)
        /\ now >= cooldown_until[p]
        /\ proposal_count' = id
        /\ Tallied(id, [NoProposal EXCEPT
                          !.proposer = p,
                          !.text = text,
                          !.participants = Participants,
                          !.voted = {p},
                          !.approvals = 1,
                          !.expires_at = now + ProposalExpiry,
                          !.pledged = IF pledge THEN {p} ELSE {}])
        /\ UNCHANGED cooldown_until

IsPending(id) == proposals[id].status = "Pending"

FaultyMayVote(id, p) ==  \* a vote may be repeated
    /\ ~isPaused
    /\ has_active_proposal
    /\ IsPending(id)
    /\ now < proposals[id].expires_at
    /\ p \in proposals[id].participants
    /\ p # proposals[id].proposer

MayVote(id, p) ==
    /\ ~isPaused
    /\ has_active_proposal
    /\ IsPending(id)
    /\ now < proposals[id].expires_at
    /\ p \in proposals[id].participants
    /\ p # proposals[id].proposer
    /\ p \notin proposals[id].voted

WithPledge(id, p, pledge) ==
    [proposals[id] EXCEPT !.pledged = IF pledge THEN @ \union {p} ELSE @]

(* vote_on_proposal, for and against                                       *)
Approve(id, p, pledge) ==
    /\ MayVote(id, p)
    /\ pledge => MayPledge(p)
    /\ Tallied(id, [WithPledge(id, p, pledge) EXCEPT !.voted = @ \union {p},
                                                     !.approvals = @ + 1])
    /\ UNCHANGED <<proposal_count, cooldown_until>>

(* The proposal fails: its proposer has to wait, and the grace period of   *)
(* the recalls that were pledged starts.                                   *)
FaultyFail(id, proposal, status) ==  \* the flag stays
    /\ proposals' =
          [proposals EXCEPT ![id] = DecidedWithPledges(proposal, status)]
    /\ cooldown_until' =
          [cooldown_until EXCEPT ![proposal.proposer] = now + ProposalCooldown]
    /\ UNCHANGED <<vars, proposal_count, has_active_proposal>>

Fail(id, proposal, status) ==
    /\ proposals' =
          [proposals EXCEPT ![id] = DecidedWithPledges(proposal, status)]
    /\ has_active_proposal' = FALSE
    /\ cooldown_until' =
          [cooldown_until EXCEPT ![proposal.proposer] = now + ProposalCooldown]
    /\ UNCHANGED <<vars, proposal_count>>

Reject(id, p, pledge) ==
    /\ MayVote(id, p)
    /\ pledge => MayPledge(p)
    /\ Fail(id, WithPledge(id, p, pledge), "Rejected")

ExpireTermProposal(id) ==
    /\ IsPending(id)
    /\ now >= proposals[id].expires_at
    /\ Fail(id, proposals[id], "Expired")

(* The pledges of a cancelled proposal are void.                           *)
CancelTermProposal(id) ==
    /\ IsPending(id)
    /\ proposals' =
          [proposals EXCEPT ![id] = Decided("Cancelled")]
    /\ has_active_proposal' = FALSE
    /\ UNCHANGED <<vars, proposal_count, cooldown_until>>

-----------------------------------------------------------------------------
IsDecided(id) ==
    proposals[id].status \in {"Approved", "Rejected", "Expired", "Cancelled"}

HasFailed(id) == proposals[id].status \in {"Rejected", "Expired"}

(* The contract's collateral account is there until liquidate_contract     *)
(* closes it.  The account of a loan that was completed may have been      *)
(* closed as well, by a partial liquidation that left nothing in it or by  *)
(* the repayment of a loan against native tokens: of that loan, pledges    *)
(* may be processed here that the program would refuse.                    *)
CollateralAccountIsOpen ==
    HasCollateralAccount /\ contract.status # "Liquidated"

(* process_proposal_recall: as a recall that was asked for is settled, but *)
(* whatever the status of the loan, and with a request that is pending     *)
(* left on its books.                                                      *)
MayProcess(id, l) ==
    /\ terms.loan_type = "Demand"
    /\ HasFailed(id)
    /\ l \in proposals[id].pledged
    /\ proposals[id].recall_grace_start > 0
    /\ now >= proposals[id].recall_grace_start + Grace
    /\ contribution[l].exists /\ ~contribution[l].is_refunded
    /\ contribution[l].contribution_amount > 0
    /\ escrow[l].exists
    /\ CollateralAccountIsOpen
    /\ contract.funded_amount >= contribution[l].contribution_amount
    /\ collateral >= RecallPart(l, contract.collateral_amount)
    /\ l \in contract.contributions
    /\ totalDebt >= RecallPart(l, contract.outstanding_balance)

ProcessProposalRecall(id, l, paidFrontend) ==
    LET debtShare == RecallPart(l, contract.outstanding_balance)
        fee == BpsOf(debtShare, RecallFeeBps)
        frontendShare == IF terms.frontend /\ paidFrontend
                         THEN BpsOf(fee, FrontendShareBps) ELSE 0
    IN  /\ MayProcess(id, l)
        /\ contract' = [WithoutLender(l) EXCEPT
              !.recall_requested = contract.recall_requested,
              !.recall_requested_at = contract.recall_requested_at,
              !.recall_requested_by = contract.recall_requested_by]
        /\ contribution' = [contribution EXCEPT ![l].is_refunded = TRUE]
        /\ escrow' = [escrow EXCEPT ![l] = Credited(@, 0, debtShare - fee)]
        /\ collateral' = collateral - RecallPart(l, contract.collateral_amount)
        /\ totalDebt' = totalDebt - debtShare
        /\ treasuryUsdc' = treasuryUsdc + fee - frontendShare
        /\ proposals' = [proposals EXCEPT ![id].recalls_processed = @ + 1]
        /\ UNCHANGED <<now, isPaused, terms, approved, usdc, proposal_count,
                       has_active_proposal, cooldown_until>>

FaultyCloseProposalAccounts(id) ==  \* one recall is as good as all
    /\ IsDecided(id)
    /\ ~(HasFailed(id) /\ proposals[id].pledged # {}
           /\ proposals[id].recalls_processed = 0)
    /\ proposals' = [proposals EXCEPT ![id] = NoProposal]
    /\ has_active_proposal' = FALSE
    /\ UNCHANGED <<vars, proposal_count, cooldown_until>>

(* close_proposal_accounts resets the flag whichever proposal has set it.  *)
CloseProposalAccounts(id) ==
    /\ IsDecided(id)
    /\ ~(HasFailed(id) /\ proposals[id].recalls_processed <
                             Cardinality(proposals[id].pledged))
    /\ proposals' = [proposals EXCEPT ![id] = NoProposal]
    /\ has_active_proposal' = FALSE
    /\ UNCHANGED <<vars, proposal_count, cooldown_until>>

-----------------------------------------------------------------------------
ProposalStep ==
    \/ \E p \in Parties, text \in ProposedTerms, pledge \in BOOLEAN :
          CreateTermProposal(p, text, pledge)
    \/ \E id \in Ids, p \in Parties, pledge \in BOOLEAN :
          Approve(id, p, pledge) \/ Reject(id, p, pledge)
    \/ \E id \in Ids : \/ CancelTermProposal(id)
                       \/ ExpireTermProposal(id)
                       \/ CloseProposalAccounts(id)

ProcessPledges ==
    \E id \in Ids, l \in Lenders, paid \in BOOLEAN :
        ProcessProposalRecall(id, l, paid)

(* Meanwhile lenders leave by recalls, the loan is paid back or liquidated,*)
(* and escrows are emptied and closed.                                     *)
LoanStep == ServicingNext /\ UNCHANGED proposalVars

(* accept_trade_offer and transfer_lender_position: lenders leave and      *)
(* others join while no proposal is flagged.  Listings and offers are      *)
(* Trading's; accepting one, it is not asked again whether the position    *)
(* might be listed (MayTrade).                                             *)
TradePosition(seller, buyer, amount, price, frontend) ==
    /\ contract.status = "Active"
    /\ ~isPaused
    /\ ~has_active_proposal
    /\ MayDivide(contribution[seller].contribution_amount, amount)
    /\ ExecutePositionTransfer(seller, buyer, amount)
    /\ HandlePaymentTransfer(price, frontend)
    /\ UNCHANGED <<now, isPaused, terms, approved, usdc, collateral,
                   totalDebt, proposalVars>>

TradeStep ==
    \E seller, buyer \in Lenders, amount \in TradeAmounts,
      price \in TradePrices, frontend \in BOOLEAN :
        TradePosition(seller, buyer, amount, price, frontend)

PassingTime == Tick /\ UNCHANGED proposalVars

ProposalsInit ==
    /\ FundedInit
    /\ proposals = [id \in Ids |-> NoProposal]
    /\ proposal_count = 0
    /\ has_active_proposal = FALSE
    /\ cooldown_until = [p \in Parties |-> 0]

ProposalsNext ==
    ProposalStep \/ ProcessPledges \/ LoanStep \/ TradeStep \/ PassingTime

ProposalsSpec == ProposalsInit /\ [][ProposalsNext]_allVars

-----------------------------------------------------------------------------
PossibleTerms ==
    ProposedTerms \union {AmendableTerms(offer) : offer \in Offers}

(* The code counts approvals against the number of participants at the     *)
(* time of the proposal, while lenders are recalled and, when the flag has *)
(* gone down under a pending proposal, sell to others: what it implements  *)
(* is that the terms change only by the consent of everybody who was in    *)
(* the loan when the proposal was made.  Who has joined since is not asked.*)
Consented == INSTANCE Consent WITH
    Texts <- PossibleTerms,
    Ballots <- Ids,
    inForce <- AmendableTerms(terms),
    members <- Participants,
    ballots <- {[name |-> id,
                 text |-> proposals[id].text,
                 electorate |-> proposals[id].participants,
                 agreed |-> proposals[id].voted] :
                   id \in {i \in Ids :
                             proposals[i].status \in {"Pending", "Approved"}}}

TermsChangeByConsent == Consented!Spec

(* However proposals end, in whatever order they are voted down, expired,  *)
(* cancelled and closed, the flag does not stay behind: while it is up,    *)
(* there is a proposal to be voted on, and so a way to take it down.  A    *)
(* flag left up would bar all proposals and all trades for good.           *)
FlagIsNotStuck ==
    has_active_proposal => IsPending(proposal_count)

(* A failed proposal is closed, after which no pledge on it can be called  *)
(* in, only when every lender who pledged is out of the loan.              *)
PledgesAreKept ==
    [][\A id \in Ids :
          (/\ HasFailed(id)
           /\ proposals[id].pledged \intersect contract.contributions # {})
              => HasFailed(id)']_allVars

(* Once the grace period is over, the bot can call in every pledge on a    *)
(* failed proposal, of a secured loan that is still running, whatever      *)
(* recalls, payments, partial liquidations, claims and trades the pledger  *)
(* has stayed in the loan through.  (Of a loan that has ended, the lender's*)
(* escrow or the collateral account may be closed, without which no pledge *)
(* can be processed; and total_debt, which does not grow with the interest *)
(* that is added to the balance, must cover the balance.)                  *)
PledgesCanBeCalledIn ==
    \A id \in Ids, l \in Lenders :
        (/\ HasFailed(id)
         /\ l \in proposals[id].pledged \intersect contract.contributions
         /\ now >= proposals[id].recall_grace_start + Grace
         /\ OnLoan /\ HasCollateralAccount
         /\ totalDebt >= contract.outstanding_balance)
            => MayProcess(id, l)

(* tests/security_regression_static.ts:1052, "accept_trade_offer must fail *)
(* with ProposalAlreadyActive for active proposals", which it does when    *)
(* the flag is up: a proposal that is pending is flagged.                  *)
PendingIsFlagged ==
    \A id \in Ids : IsPending(id) => has_active_proposal
=============================================================================
