--------------------------- MODULE ProposalsProofs ---------------------------
(* Theorems about the proposals to amend a loan, for any parties, texts,   *)
(* delays and any number of proposals.                                     *)
EXTENDS Proposals, FiniteSetTheorems, TLAPS

Stages == {"None", "Pending", "Approved", "Rejected", "Expired", "Cancelled"}

ProposalType ==
    [status : Stages, proposer : Parties, text : ProposedTerms \union {<<>>},
     participants : SUBSET Parties, voted : SUBSET Parties, approvals : Nat,
     expires_at : Nat, pledged : SUBSET Lenders, recalls_processed : Nat,
     recall_grace_start : Nat]

ProposalsTypeOK ==
    /\ now \in Nat
    /\ proposals \in [Ids -> ProposalType]
    /\ proposal_count \in 0 .. MaxProposals
    /\ has_active_proposal \in BOOLEAN
    /\ cooldown_until \in [Parties -> Nat]

(* The accounts proposals read of the loan: a contribution is there as     *)
(* long as its lender is in it, and is not refunded.                       *)
IsIn(c) == c.exists /\ ~c.is_refunded

AccountsAreThere ==
    /\ "contributions" \in DOMAIN contract
    /\ AmendedFields \subseteq DOMAIN terms
    /\ DOMAIN contribution = Lenders
    /\ \A l \in Lenders :
          {"exists", "is_refunded"} \subseteq DOMAIN contribution[l]
    /\ contract.contributions \subseteq Lenders
    /\ \A l \in contract.contributions : IsIn(contribution[l])

(* Identifiers are given out one after the other.                          *)
LaterIdsAreFree ==
    \A id \in Ids : id > proposal_count => proposals[id].status = "None"

(* Every approval is the vote of a participant of its own, and what there  *)
(* is to vote on is a text.                                                *)
VotesAreCounted ==
    \A id \in Ids :
        /\ proposals[id].participants # {} =>
              proposals[id].text \in ProposedTerms
        /\ proposals[id].voted \subseteq proposals[id].participants
        /\ proposals[id].approvals = Cardinality(proposals[id].voted)

(* Every recall that is processed takes a lender who pledged out.          *)
RecallsAreCounted ==
    \A id \in Ids :
        proposals[id].recalls_processed <=
            Cardinality(proposals[id].pledged \ contract.contributions)

(* Who pledges has an account, and so cannot join the loan again.          *)
Known == {l \in Lenders : contribution[l].exists}

PledgersAreKnown == \A id \in Ids : proposals[id].pledged \subseteq Known

ProposalsInductive ==
    /\ ProposalsTypeOK
    /\ AccountsAreThere
    /\ LaterIdsAreFree
    /\ VotesAreCounted
    /\ PledgersAreKnown
    /\ RecallsAreCounted
    /\ FlagIsNotStuck
-----------------------------------------------------------------------------
(* The lenders of the loan: who leaves does so for good, and who joins had *)
(* no account in it before.                                                *)
LendersStay ==
    /\ contract'.contributions = contract.contributions
    /\ contribution' = contribution

LenderLeaves(l) ==
    /\ contract'.contributions = contract.contributions \ {l}
    /\ contribution' = [contribution EXCEPT ![l].is_refunded = TRUE]

LenderJoins(seller, buyer) ==
    /\ ~contribution[buyer].exists
    /\ contribution'[buyer].exists
    /\ \A l \in Lenders \ {buyer} :
          /\ contribution'[l].exists = contribution[l].exists
          /\ contribution'[l].is_refunded = contribution[l].is_refunded
    /\ contract'.contributions \in
          {contract.contributions \union {buyer},
           (contract.contributions \ {seller}) \union {buyer}}

LendersMove ==
    /\ AccountsAreThere'
    /\ \/ LendersStay
       \/ \E l \in contract.contributions : LenderLeaves(l)
       \/ \E seller \in contract.contributions, buyer \in Lenders :
             LenderJoins(seller, buyer)

LEMMA UpdatesLeaveLenders ==
    ASSUME AccountsAreThere
    PROVE  /\ "contributions" \in DOMAIN WithInterest(contract)
           /\ WithInterest(contract).contributions = contract.contributions
           /\ "contributions" \in DOMAIN WithSchedule(WithInterest(contract))
           /\ WithSchedule(WithInterest(contract)).contributions =
                contract.contributions
  <1>1. \A c : "contributions" \in DOMAIN c =>
           /\ "contributions" \in DOMAIN WithInterest(c)
           /\ WithInterest(c).contributions = c.contributions
    BY DEF WithInterest
  <1>2. \A c : "contributions" \in DOMAIN c =>
           /\ "contributions" \in DOMAIN WithSchedule(c)
           /\ WithSchedule(c).contributions = c.contributions
    BY DEF WithSchedule
  <1> QED  BY <1>1, <1>2 DEF AccountsAreThere

LEMMA LeavingMovesLenders ==
    ASSUME AccountsAreThere, NEW l \in Lenders, l \in contract.contributions,
           UNCHANGED terms, "contributions" \in DOMAIN contract',
           contract'.contributions = contract.contributions \ {l},
           contribution' = [contribution EXCEPT ![l].is_refunded = TRUE]
    PROVE  LendersMove
  <1>1. /\ DOMAIN contribution' = Lenders
        /\ \A k \in Lenders \ {l} : contribution'[k] = contribution[k]
        /\ contribution'[l] = [contribution[l] EXCEPT !.is_refunded = TRUE]
    BY DEF AccountsAreThere
  <1>2. \A k \in Lenders :
           {"exists", "is_refunded"} \subseteq DOMAIN contribution'[k]
    BY <1>1 DEF AccountsAreThere
  <1>3. AccountsAreThere'  BY <1>1, <1>2 DEF AccountsAreThere
  <1> QED  BY <1>3 DEF LendersMove, LenderLeaves

LEMMA StayingMovesLenders ==
    ASSUME AccountsAreThere, AmendedFields \subseteq DOMAIN terms',
           UNCHANGED contribution,
           "contributions" \in DOMAIN contract',
           contract'.contributions = contract.contributions
    PROVE  LendersMove
  BY DEF AccountsAreThere, LendersMove, LendersStay

LEMMA WithoutLenderLeaves ==
    ASSUME AccountsAreThere, NEW l
    PROVE  /\ "contributions" \in DOMAIN WithoutLender(l)
           /\ WithoutLender(l).contributions = contract.contributions \ {l}
  BY DEF AccountsAreThere, WithoutLender

LEMMA RecallMovesLenders ==
    ASSUME AccountsAreThere, NEW l \in Lenders, NEW received,
           MaySettleRecall(l), SettleRecall(l, received)
    PROVE  LendersMove
  BY WithoutLenderLeaves, LeavingMovesLenders
     DEF MaySettleRecall, SettleRecall

LEMMA PaymentLeavesLenders ==
    ASSUME AccountsAreThere, NEW amount, Settle(Payment(amount))
    PROVE  /\ "contributions" \in DOMAIN contract'
           /\ contract'.contributions = contract.contributions
  <1> DEFINE c == WithSchedule(WithInterest(contract))
             payment == Payment(amount)
  <1>1. /\ "contributions" \in DOMAIN payment.contract
        /\ payment.contract.contributions = c.contributions
    BY UpdatesLeaveLenders DEF Payment
  <1>2. c.contributions = contract.contributions  BY UpdatesLeaveLenders
  <1> HIDE DEF c, payment
  <1>3. \/ contract' = payment.contract
        \/ contract' = [payment.contract EXCEPT !.status = "Completed",
                                               !.collateral_amount = 0]
    BY DEF Settle, payment
  <1> QED  BY <1>1, <1>2, <1>3

LEMMA StayingActionMovesLenders ==
    ASSUME AccountsAreThere, "contributions" \in DOMAIN contract',
           contract'.contributions = contract.contributions,
           UNCHANGED <<terms, contribution>>
    PROVE  LendersMove
  BY StayingMovesLenders DEF AccountsAreThere

LEMMA BorrowerMovesLenders ==
    ASSUME AccountsAreThere, BorrowerServices
    PROVE  LendersMove /\ UNCHANGED <<now, terms>>
  <1>1. ASSUME NEW amount, MakePayment(amount)
        PROVE  LendersMove /\ UNCHANGED <<now, terms>>
    BY <1>1, PaymentLeavesLenders, StayingActionMovesLenders DEF MakePayment
  <1>2. ASSUME NEW amount, NEW last, MakePaymentWithDistribution(amount, last)
        PROVE  LendersMove /\ UNCHANGED <<now, terms>>
    BY <1>2, PaymentLeavesLenders, StayingActionMovesLenders
       DEF MakePaymentWithDistribution
  <1>3. ASSUME NEW amount, AddCollateral(amount)
        PROVE  LendersMove /\ UNCHANGED <<now, terms>>
    <2>1. /\ "contributions" \in DOMAIN contract'
          /\ contract'.contributions = contract.contributions
          /\ UNCHANGED <<now, terms, contribution>>
      BY <1>3 DEF AddCollateral, AccountsAreThere
    <2> QED  BY <2>1, StayingActionMovesLenders
  <1>4. ASSUME NEW l \in Lenders, BorrowerRepayRecall(l)
        PROVE  LendersMove /\ UNCHANGED <<now, terms>>
    BY <1>4, RecallMovesLenders DEF BorrowerRepayRecall, SettleRecall
  <1> QED  BY <1>1, <1>2, <1>3, <1>4 DEF BorrowerServices

LEMMA LenderMovesLenders ==
    ASSUME AccountsAreThere, LenderServices
    PROVE  LendersMove /\ UNCHANGED <<now, terms>>
  <1>1. ASSUME NEW l, RequestRecall(l)
        PROVE  LendersMove /\ UNCHANGED <<now, terms>>
    <2>1. /\ "contributions" \in DOMAIN contract'
          /\ contract'.contributions = contract.contributions
          /\ UNCHANGED <<now, terms, contribution>>
      BY <1>1 DEF RequestRecall, AccountsAreThere
    <2> QED  BY <2>1, StayingActionMovesLenders
  <1>2. ASSUME NEW l, ClaimFromEscrow(l)
        PROVE  LendersMove /\ UNCHANGED <<now, terms>>
    <2>1. UNCHANGED <<now, terms, contract, contribution>>
      BY <1>2 DEF ClaimFromEscrow
    <2> QED  BY <2>1, StayingActionMovesLenders DEF AccountsAreThere
  <1> QED  BY <1>1, <1>2 DEF LenderServices

LEMMA LiquidationMovesLenders ==
    ASSUME AccountsAreThere, NEW price, NEW last,
           \/ Liquidate(price, last)
           \/ \E amount, toBorrower :
                 PartialLiquidate(amount, price, last, toBorrower)
    PROVE  LendersMove /\ UNCHANGED <<now, terms>>
  <1> DEFINE c == WithInterest(contract)
  <1>0. /\ "contributions" \in DOMAIN c
        /\ c.contributions = contract.contributions
    BY UpdatesLeaveLenders
  <1>1. CASE Liquidate(price, last)
    <2>1. /\ \E owed :
               contract' = [c EXCEPT !.status = "Liquidated",
                                     !.uncollectable_balance = owed,
                                     !.outstanding_balance = 0,
                                     !.collateral_amount = 0,
                                     !.accrued_interest = 0]
          /\ UNCHANGED <<now, terms, contribution>>
      BY <1>1 DEF Liquidate
    <2> HIDE DEF c
    <2> QED  BY <1>0, <2>1, StayingActionMovesLenders
  <1>2. CASE \E amount, toBorrower :
                PartialLiquidate(amount, price, last, toBorrower)
    <2>1. /\ \E repaid, seized : contract' = AfterPartial(c, repaid, seized)
          /\ UNCHANGED <<now, terms, contribution>>
      BY <1>2 DEF PartialLiquidate
    <2> HIDE DEF c
    <2>2. /\ "contributions" \in DOMAIN contract'
          /\ contract'.contributions = c.contributions
      BY <1>0, <2>1 DEF AfterPartial
    <2> QED  BY <1>0, <2>1, <2>2, StayingActionMovesLenders
  <1> QED  BY <1>1, <1>2

LEMMA BotMovesLenders ==
    ASSUME AccountsAreThere, BotServices
    PROVE  LendersMove /\ UNCHANGED <<now, terms>>
  <1>1. ASSUME UpdateContractState
        PROVE  LendersMove /\ UNCHANGED <<now, terms>>
    BY <1>1, UpdatesLeaveLenders, StayingActionMovesLenders
       DEF UpdateContractState
  <1>2. ASSUME NEW l, UpdateLenderEscrow(l)
        PROVE  LendersMove /\ UNCHANGED <<now, terms>>
    <2>1. UNCHANGED <<now, terms, contract, contribution>>
      BY <1>2 DEF UpdateLenderEscrow
    <2> QED  BY <2>1, StayingActionMovesLenders DEF AccountsAreThere
  <1>3. ASSUME NEW last, AutomatedInterestTransfer(last)
        PROVE  LendersMove /\ UNCHANGED <<now, terms>>
    <2>1. /\ \E withdrawn :
               contract' = [WithInterest(contract) EXCEPT
                              !.accrued_interest = 0,
                              !.last_interest_update = now,
                              !.collateral_amount = @ - withdrawn]
          /\ UNCHANGED <<now, terms, contribution>>
      BY <1>3 DEF AutomatedInterestTransfer
    <2> QED  BY <2>1, UpdatesLeaveLenders, StayingActionMovesLenders
  <1>4. ASSUME NEW last, AutomatedPrincipalTransfer(last)
        PROVE  LendersMove /\ UNCHANGED <<now, terms>>
    <2>1. /\ \E withdrawn :
               contract' = [WithSchedule(WithInterest(contract)) EXCEPT
                              !.collateral_amount = @ - withdrawn,
                              !.total_principal_paid = 0,
                              !.last_principal_payment = now]
          /\ UNCHANGED <<now, terms, contribution>>
      BY <1>4 DEF AutomatedPrincipalTransfer
    <2> QED  BY <2>1, UpdatesLeaveLenders, StayingActionMovesLenders
  <1>5. ASSUME NEW l \in Lenders, NEW paid, ProcessRecall(l, paid)
        PROVE  LendersMove /\ UNCHANGED <<now, terms>>
    BY <1>5, RecallMovesLenders DEF ProcessRecall, SettleRecall
  <1> QED
    BY <1>1, <1>2, <1>3, <1>4, <1>5, LiquidationMovesLenders
       DEF BotServices, SettleByBot, SettleAt

LEMMA LoanStepMovesLenders ==
    ASSUME AccountsAreThere, LoanStep
    PROVE  LendersMove /\ UNCHANGED <<now, terms>>
  BY BorrowerMovesLenders, LenderMovesLenders, BotMovesLenders
     DEF LoanStep, ServicingNext

(* A sale: the buyer had no account in the loan.                           *)
LEMMA TradeMovesLenders ==
    ASSUME AccountsAreThere, NEW seller \in Lenders, NEW buyer \in Lenders,
           NEW amount, NEW price, NEW frontend,
           TradePosition(seller, buyer, amount, price, frontend)
    PROVE  LendersMove /\ UNCHANGED <<now, terms, proposalVars>>
  <1> DEFINE left == contribution[seller].contribution_amount - amount
             lenders == SyncContributions(seller, buyer, left)
             bought == [exists |-> TRUE, contribution_amount |-> amount,
                        is_refunded |-> FALSE, last_contributed_at |-> now]
  <1>1. /\ ~contribution[buyer].exists /\ contribution[seller].exists
        /\ seller \in contract.contributions
        /\ contribution' = [contribution EXCEPT
              ![seller].contribution_amount = left, ![buyer] = bought]
        /\ contract' = [contract EXCEPT
              !.contributions = lenders,
              !.num_contributions = Cardinality(lenders)]
        /\ UNCHANGED <<now, terms, proposalVars>>
    BY DEF TradePosition, ExecutePositionTransfer
  <1>2. lenders \in {contract.contributions \union {buyer},
                     (contract.contributions \ {seller}) \union {buyer}}
    BY DEF SyncContributions
  <1>3. bought.exists /\ ~bought.is_refunded
        /\ {"exists", "is_refunded"} \subseteq DOMAIN bought
    OBVIOUS
  <1> HIDE DEF lenders, left, bought
  <1>4. /\ "contributions" \in DOMAIN contract'
        /\ contract'.contributions = lenders
    BY <1>1 DEF AccountsAreThere
  <1>5. seller # buyer  BY <1>1
  <1>6. /\ DOMAIN contribution' = Lenders
        /\ contribution'[buyer] = bought
        /\ contribution'[seller] =
             [contribution[seller] EXCEPT !.contribution_amount = left]
        /\ \A l \in Lenders \ {seller, buyer} :
              contribution'[l] = contribution[l]
    BY <1>1, <1>5 DEF AccountsAreThere
  <1>7. /\ DOMAIN contribution'[seller] = DOMAIN contribution[seller]
        /\ contribution'[seller].exists = contribution[seller].exists
        /\ contribution'[seller].is_refunded = contribution[seller].is_refunded
    BY <1>6 DEF AccountsAreThere
  <1>8. AccountsAreThere'
    BY <1>1, <1>2, <1>3, <1>4, <1>6, <1>7 DEF AccountsAreThere, IsIn
  <1>9. LenderJoins(seller, buyer)
    BY <1>1, <1>2, <1>3, <1>4, <1>6, <1>7 DEF LenderJoins
  <1> QED  BY <1>1, <1>8, <1>9 DEF LendersMove
-----------------------------------------------------------------------------
(* One proposal changes.                                                   *)
LEMMA PartiesAreFinite ==
    /\ IsFiniteSet(Parties)
    /\ \A S \in SUBSET Parties : IsFiniteSet(S) /\ Cardinality(S) \in Nat
    /\ \A S \in SUBSET Lenders : IsFiniteSet(S) /\ Cardinality(S) \in Nat
  <1>1. IsFiniteSet(Parties)
    BY LendersAreFinite, FS_AddElement DEF Parties
  <1> QED
    BY <1>1, LendersAreFinite, FS_Subset, FS_CardinalityType

LEMMA MovesKeepKnown ==
    ASSUME AccountsAreThere, LendersMove
    PROVE  /\ Known \subseteq Known'
           /\ Known \intersect contract'.contributions
                \subseteq contract.contributions
  <1>1. CASE LendersStay  BY <1>1 DEF LendersStay, Known
  <1>2. CASE \E l \in contract.contributions : LenderLeaves(l)
    <2>1. PICK l \in contract.contributions : LenderLeaves(l)  BY <1>2
    <2>2. /\ l \in Lenders
          /\ contract'.contributions = contract.contributions \ {l}
          /\ \A k \in Lenders \ {l} : contribution'[k] = contribution[k]
          /\ contribution'[l] = [contribution[l] EXCEPT !.is_refunded = TRUE]
      BY <2>1 DEF AccountsAreThere, LenderLeaves
    <2>3. contribution'[l].exists = contribution[l].exists
      BY <2>2 DEF AccountsAreThere
    <2> QED  BY <2>2, <2>3 DEF Known
  <1>3. CASE \E seller \in contract.contributions, buyer \in Lenders :
                LenderJoins(seller, buyer)
    BY <1>3 DEF LenderJoins, Known
  <1> QED  BY <1>1, <1>2, <1>3 DEF LendersMove

LEMMA CountsGrow ==
    ASSUME ProposalsInductive, LendersMove, NEW S \in SUBSET Lenders,
           S \subseteq Known
    PROVE  Cardinality(S \ contract.contributions) <=
             Cardinality(S \ contract'.contributions)
  <1>1. Known \intersect contract'.contributions \subseteq
          contract.contributions
    BY MovesKeepKnown DEF ProposalsInductive
  <1>2. S \ contract.contributions \in SUBSET (S \ contract'.contributions)
    BY <1>1
  <1>3. IsFiniteSet(S \ contract'.contributions)  BY PartiesAreFinite
  <1> QED  BY <1>2, <1>3, FS_Subset

GoodProposal(p) ==
    /\ p \in ProposalType
    /\ p.participants # {} => p.text \in ProposedTerms
    /\ p.voted \subseteq p.participants
    /\ p.approvals = Cardinality(p.voted)

LEMMA ProposalChanges ==
    ASSUME ProposalsInductive, LendersMove, now' \in Nat,
           NEW id \in Ids, NEW p, GoodProposal(p), p.pledged \subseteq Known,
           p.recalls_processed <=
               Cardinality(p.pledged \ contract'.contributions),
           proposals' = [proposals EXCEPT ![id] = p],
           proposal_count' \in 0 .. MaxProposals,
           proposal_count' >= proposal_count,
           id <= proposal_count',
           has_active_proposal' \in BOOLEAN,
           cooldown_until' \in [Parties -> Nat],
           has_active_proposal' => proposals'[proposal_count'].status = "Pending"
    PROVE  ProposalsInductive'
  <1>1. /\ proposals \in [Ids -> ProposalType]
        /\ proposal_count \in Int /\ proposal_count' \in Int
    BY DEF ProposalsInductive, ProposalsTypeOK
  <1>2. /\ proposals' \in [Ids -> ProposalType]
        /\ proposals'[id] = p
        /\ \A i \in Ids \ {id} : proposals'[i] = proposals[i]
    BY <1>1 DEF GoodProposal
  <1>3. ProposalsTypeOK'  BY <1>2 DEF ProposalsTypeOK
  <1>4. AccountsAreThere'  BY DEF LendersMove
  <1>5. LaterIdsAreFree'
    <2>1. \A i \in Ids : i \in Int  BY DEF Ids
    <2> QED
      BY <1>1, <1>2, <2>1 DEF ProposalsInductive, LaterIdsAreFree
  <1>6. VotesAreCounted'
    BY <1>2 DEF ProposalsInductive, VotesAreCounted, GoodProposal
  <1>7. RecallsAreCounted'
    <2> SUFFICES ASSUME NEW i \in Ids
                 PROVE  proposals'[i].recalls_processed <=
                          Cardinality(proposals'[i].pledged
                                        \ contract'.contributions)
      BY DEF RecallsAreCounted
    <2>1. CASE i = id  BY <1>2, <2>1
    <2>2. CASE i # id
      <3>1. /\ proposals'[i] = proposals[i]
            /\ proposals[i].pledged \in SUBSET Lenders
            /\ proposals[i].recalls_processed \in Nat
            /\ proposals[i].pledged \subseteq Known
        BY <1>1, <1>2, <2>2
           DEF ProposalType, ProposalsInductive, PledgersAreKnown
      <3>2. proposals[i].recalls_processed <=
              Cardinality(proposals[i].pledged \ contract.contributions)
        BY DEF ProposalsInductive, RecallsAreCounted
      <3>3. Cardinality(proposals[i].pledged \ contract.contributions) <=
              Cardinality(proposals[i].pledged \ contract'.contributions)
        BY <3>1, CountsGrow
      <3>4. /\ Cardinality(proposals[i].pledged \ contract.contributions) \in Nat
            /\ Cardinality(proposals[i].pledged \ contract'.contributions)
                 \in Nat
        BY <3>1, PartiesAreFinite
      <3>5. proposals[i].recalls_processed <=
              Cardinality(proposals[i].pledged \ contract'.contributions)
        BY <3>1, <3>2, <3>3, <3>4
      <3> QED  BY <3>1, <3>5
    <2> QED  BY <2>1, <2>2
  <1>8. FlagIsNotStuck'  BY DEF FlagIsNotStuck, IsPending
  <1>9. PledgersAreKnown'
    <2>1. Known \subseteq Known'  BY MovesKeepKnown DEF ProposalsInductive
    <2> QED  BY <1>2, <2>1 DEF ProposalsInductive, PledgersAreKnown
  <1> QED
    BY <1>3, <1>4, <1>5, <1>6, <1>7, <1>8, <1>9 DEF ProposalsInductive

LEMMA NoProposalChanges ==
    ASSUME ProposalsInductive, LendersMove, now' \in Nat,
           UNCHANGED proposalVars
    PROVE  ProposalsInductive'
  <1>1. ProposalsTypeOK' /\ LaterIdsAreFree' /\ VotesAreCounted'
        /\ FlagIsNotStuck'
    BY DEF ProposalsInductive, ProposalsTypeOK, LaterIdsAreFree,
           VotesAreCounted, FlagIsNotStuck, IsPending, proposalVars
  <1>2. AccountsAreThere'  BY DEF LendersMove
  <1>3. RecallsAreCounted'
    <2> SUFFICES ASSUME NEW i \in Ids
                 PROVE  proposals[i].recalls_processed <=
                          Cardinality(proposals[i].pledged
                                        \ contract'.contributions)
      BY DEF RecallsAreCounted, proposalVars
    <2>1. /\ proposals[i].pledged \in SUBSET Lenders
          /\ proposals[i].recalls_processed \in Nat
          /\ proposals[i].pledged \subseteq Known
      BY DEF ProposalsInductive, ProposalsTypeOK, ProposalType,
             PledgersAreKnown
    <2>2. proposals[i].recalls_processed <=
            Cardinality(proposals[i].pledged \ contract.contributions)
      BY DEF ProposalsInductive, RecallsAreCounted
    <2>3. Cardinality(proposals[i].pledged \ contract.contributions) <=
            Cardinality(proposals[i].pledged \ contract'.contributions)
      BY <2>1, CountsGrow
    <2>4. /\ Cardinality(proposals[i].pledged \ contract.contributions) \in Nat
          /\ Cardinality(proposals[i].pledged \ contract'.contributions) \in Nat
      BY <2>1, PartiesAreFinite
    <2> QED  BY <2>1, <2>2, <2>3, <2>4
  <1>4. PledgersAreKnown'
    <2>1. Known \subseteq Known'  BY MovesKeepKnown DEF ProposalsInductive
    <2> QED
      BY <2>1 DEF ProposalsInductive, PledgersAreKnown, proposalVars
  <1> QED  BY <1>1, <1>2, <1>3, <1>4 DEF ProposalsInductive
-----------------------------------------------------------------------------
(* The proposals that the instructions leave behind.                       *)
LEMMA NoProposalIsGood ==
    /\ GoodProposal(NoProposal)
    /\ NoProposal.status = "None" /\ NoProposal.recalls_processed = 0
    /\ NoProposal.pledged = {}
  <1>1. NoProposal \in ProposalType
    BY DEF NoProposal, ProposalType, Stages, Parties
  <1> QED  BY <1>1, FS_EmptySet DEF NoProposal, GoodProposal

LEMMA DecidedIsGood ==
    ASSUME NEW p \in ProposalType, NEW status \in Stages, now \in Nat
    PROVE  /\ GoodProposal(Decided(status))
           /\ Decided(status).status = status
           /\ Decided(status).recalls_processed = 0
           /\ Decided(status).pledged = {}
           /\ GoodProposal(DecidedWithPledges(p, status))
           /\ DecidedWithPledges(p, status).status = status
           /\ DecidedWithPledges(p, status).recalls_processed = 0
           /\ DecidedWithPledges(p, status).pledged = p.pledged
  <1> DEFINE d == Decided(status)
             start == IF p.pledged # {} THEN now ELSE 0
             e == DecidedWithPledges(p, status)
  <1>1. NoProposal \in ProposalType  BY NoProposalIsGood DEF GoodProposal
  <1>2. d = [NoProposal EXCEPT !.status = status]  BY DEF Decided
  <1>3. /\ d \in ProposalType /\ d.status = status
        /\ d.voted = NoProposal.voted
        /\ d.participants = NoProposal.participants
        /\ d.approvals = NoProposal.approvals
        /\ d.text = NoProposal.text
        /\ d.recalls_processed = NoProposal.recalls_processed
        /\ d.pledged = NoProposal.pledged
    BY <1>1, <1>2 DEF ProposalType
  <1>4. e = [d EXCEPT !.pledged = p.pledged, !.recall_grace_start = start]
    BY DEF DecidedWithPledges
  <1>5. start \in Nat /\ p.pledged \in SUBSET Lenders  BY DEF ProposalType
  <1> HIDE DEF d, start, e
  <1>6. /\ e \in ProposalType /\ e.status = d.status
        /\ e.voted = d.voted /\ e.participants = d.participants
        /\ e.approvals = d.approvals /\ e.text = d.text
        /\ e.recalls_processed = d.recalls_processed
        /\ e.pledged = p.pledged
    BY <1>3, <1>4, <1>5 DEF ProposalType
  <1>7. GoodProposal(d) /\ GoodProposal(e)
    BY <1>3, <1>6, NoProposalIsGood DEF GoodProposal
  <1> QED  BY <1>3, <1>6, <1>7, NoProposalIsGood DEF d, e

LEMMA TalliedLeavesLenders ==
    ASSUME AccountsAreThere, NEW id, NEW p, Tallied(id, p)
    PROVE  /\ LendersMove /\ LendersStay /\ UNCHANGED <<now, isPaused>>
  <1>1. CASE p.approvals >= Cardinality(p.participants)
    <2>1. ApplyApprovedTerms(p.text)  BY <1>1 DEF Tallied
    <2>2. /\ "contributions" \in DOMAIN contract'
          /\ contract'.contributions = contract.contributions
      BY <2>1, UpdatesLeaveLenders DEF ApplyApprovedTerms
    <2>3. AmendedFields \subseteq DOMAIN terms'
      BY <2>1 DEF ApplyApprovedTerms, AccountsAreThere
    <2>4. UNCHANGED <<now, isPaused, contribution>>  BY DEF Tallied
    <2> QED  BY <2>2, <2>3, <2>4, StayingMovesLenders DEF LendersStay
  <1>2. CASE ~(p.approvals >= Cardinality(p.participants))
    <2>1. UNCHANGED <<now, isPaused, contract, terms, contribution>>
      BY <1>2 DEF Tallied
    <2> QED
      BY <2>1, StayingMovesLenders DEF LendersStay, AccountsAreThere
  <1> QED  BY <1>1, <1>2

LEMMA TalliedKeeps ==
    ASSUME ProposalsInductive, NEW id \in Ids, NEW p, GoodProposal(p),
           p.pledged \subseteq Known,
           p.recalls_processed <= Cardinality(p.pledged \ contract.contributions),
           Tallied(id, p), UNCHANGED cooldown_until,
           proposal_count' \in 0 .. MaxProposals,
           \/ proposal_count' = id /\ id = proposal_count + 1
           \/ /\ UNCHANGED proposal_count /\ has_active_proposal
              /\ IsPending(id)
    PROVE  ProposalsInductive'
  <1> DEFINE status == IF p.approvals >= Cardinality(p.participants)
                       THEN "Approved" ELSE "Pending"
             q == [p EXCEPT !.status = status]
  <1>1. LendersMove /\ LendersStay /\ now' = now
    BY TalliedLeavesLenders DEF ProposalsInductive
  <1>2. /\ proposals' = [proposals EXCEPT ![id] = q]
        /\ has_active_proposal' = ~(p.approvals >= Cardinality(p.participants))
    BY DEF Tallied
  <1>3. /\ q \in ProposalType /\ q.voted = p.voted
        /\ q.participants = p.participants /\ q.approvals = p.approvals
        /\ q.recalls_processed = p.recalls_processed
        /\ q.pledged = p.pledged /\ q.status = status
        /\ q.text = p.text
    BY DEF GoodProposal, ProposalType, Stages
  <1>4. /\ GoodProposal(q)
        /\ q.recalls_processed <=
             Cardinality(q.pledged \ contract'.contributions)
        /\ q.pledged \subseteq Known
    BY <1>1, <1>3 DEF GoodProposal, LendersStay
  <1>5. /\ now \in Nat /\ proposals \in [Ids -> ProposalType]
        /\ proposal_count \in 0 .. MaxProposals
        /\ cooldown_until' \in [Parties -> Nat]
    BY DEF ProposalsInductive, ProposalsTypeOK
  <1>6. has_active_proposal' => status = "Pending"  BY <1>2
  <1>7. id <= proposal_count' /\ proposal_count' >= proposal_count
    <2>1. id \in Int /\ proposal_count \in Int  BY <1>5 DEF Ids
    <2>2. IsPending(id) => ~(id > proposal_count)
      BY DEF ProposalsInductive, LaterIdsAreFree, IsPending
    <2> QED  BY <2>1, <2>2
  <1> HIDE DEF status, q
  <1>8. has_active_proposal' =>
           proposals'[proposal_count'].status = "Pending"
    <2>1. proposals'[id] = q
          /\ \A i \in Ids \ {id} : proposals'[i] = proposals[i]
      BY <1>2, <1>5
    <2>2. CASE proposal_count' = id  BY <1>3, <1>6, <2>1, <2>2
    <2>3. CASE /\ UNCHANGED proposal_count /\ has_active_proposal
               /\ proposal_count' # id
      <3>1. IsPending(proposal_count)
        BY <2>3 DEF ProposalsInductive, FlagIsNotStuck
      <3>2. proposal_count \in Ids
        <4>1. id \in Ids /\ id <= proposal_count  BY <1>7, <2>3
        <4> QED  BY <1>5, <4>1 DEF Ids
      <3> QED  BY <2>1, <2>3, <3>1, <3>2 DEF IsPending
    <2> QED  BY <2>2, <2>3
  <1>9. has_active_proposal' \in BOOLEAN  BY <1>2
  <1> QED
    BY <1>1, <1>2, <1>4, <1>5, <1>7, <1>8, <1>9, ProposalChanges
-----------------------------------------------------------------------------
(* What a new proposal is before its proposer's vote is counted.           *)
Proposed(p, text, pledge) ==
    [NoProposal EXCEPT !.proposer = p,
                       !.text = text,
                       !.participants = Participants,
                       !.voted = {p},
                       !.approvals = 1,
                       !.expires_at = now + ProposalExpiry,
                       !.pledged = IF pledge THEN {p} ELSE {}]

LEMMA ParticipantsAreParties ==
    ASSUME AccountsAreThere
    PROVE  Participants \subseteq Parties
  BY DEF AccountsAreThere, Participants, Parties

LEMMA ProposedIsGood ==
    ASSUME ProposalsInductive, NEW p \in Participants,
           NEW text \in ProposedTerms, NEW pledge \in BOOLEAN,
           pledge => p \in Lenders
    PROVE  /\ GoodProposal(Proposed(p, text, pledge))
           /\ Proposed(p, text, pledge).recalls_processed = 0
           /\ Proposed(p, text, pledge).participants = Participants
           /\ Proposed(p, text, pledge).voted = {p}
           /\ Proposed(p, text, pledge).approvals = 1
           /\ Proposed(p, text, pledge).text = text
           /\ Proposed(p, text, pledge).pledged \subseteq {p}
           /\ ~pledge => Proposed(p, text, pledge).pledged = {}
  <1> DEFINE q == Proposed(p, text, pledge)
             pledged == IF pledge THEN {p} ELSE {}
             expiry == now + ProposalExpiry
  <1>1. /\ p \in Parties /\ Participants \in SUBSET Parties
        /\ {p} \in SUBSET Parties /\ pledged \in SUBSET Lenders
        /\ {p} \subseteq Participants
        /\ text \in ProposedTerms \union {<<>>} /\ 1 \in Nat
    BY ParticipantsAreParties DEF ProposalsInductive
  <1>2. expiry \in Nat
    BY ProposalConstants DEF ProposalsInductive, ProposalsTypeOK
  <1>3. q = [NoProposal EXCEPT !.proposer = p, !.text = text,
                               !.participants = Participants, !.voted = {p},
                               !.approvals = 1, !.expires_at = expiry,
                               !.pledged = pledged]
    BY DEF Proposed
  <1>4. NoProposal \in ProposalType /\ NoProposal.recalls_processed = 0
    BY NoProposalIsGood DEF GoodProposal
  <1> HIDE DEF q, pledged, expiry
  <1>5. q \in ProposalType
    BY <1>1, <1>2, <1>3, <1>4, ZenonT(40) DEF ProposalType
  <1>6. /\ q.recalls_processed = 0 /\ q.participants = Participants
        /\ q.voted = {p} /\ q.approvals = 1 /\ q.text = text
        /\ q.pledged = pledged
    BY <1>3, <1>4 DEF ProposalType
  <1>7. Cardinality({p}) = 1  BY FS_Singleton
  <1> QED  BY <1>1, <1>5, <1>6, <1>7 DEF GoodProposal, q, pledged

LEMMA CreateProposalKeeps ==
    ASSUME ProposalsInductive, NEW p \in Parties, NEW text \in ProposedTerms,
           NEW pledge \in BOOLEAN, CreateTermProposal(p, text, pledge)
    PROVE  ProposalsInductive'
  <1> DEFINE id == proposal_count + 1
             q == Proposed(p, text, pledge)
  <1>1. /\ p \in Participants
        /\ pledge => p \in Lenders
        /\ id \in Ids /\ proposal_count' = id /\ UNCHANGED cooldown_until
        /\ pledge => p \in Known
        /\ Tallied(id, q)
    BY DEF CreateTermProposal, MayPledge, Proposed, Known
  <1>2. /\ GoodProposal(q) /\ q.recalls_processed = 0
        /\ q.pledged \subseteq Known
    BY <1>1, ProposedIsGood
  <1> HIDE DEF q
  <1>3. q.recalls_processed <= Cardinality(q.pledged \ contract.contributions)
    <2>1. q.pledged \in SUBSET Lenders  BY <1>2 DEF GoodProposal, ProposalType
    <2>2. Cardinality(q.pledged \ contract.contributions) \in Nat
      BY <2>1, PartiesAreFinite
    <2> QED  BY <1>2, <2>2
  <1>4. proposal_count' \in 0 .. MaxProposals
    BY <1>1, ProposalConstants DEF Ids
  <1> QED  BY <1>1, <1>2, <1>3, <1>4, TalliedKeeps

(* A proposal with one more vote for it.                                   *)
Approved(id, p, pledge) ==
    [WithPledge(id, p, pledge) EXCEPT !.voted = @ \union {p},
                                      !.approvals = @ + 1]

LEMMA WithPledgeIs ==
    ASSUME ProposalsInductive, NEW id \in Ids, NEW p, NEW pledge \in BOOLEAN,
           pledge => p \in Lenders
    PROVE  LET q == WithPledge(id, p, pledge)
           IN  /\ q \in ProposalType
               /\ q.participants = proposals[id].participants
               /\ q.voted = proposals[id].voted
               /\ q.approvals = proposals[id].approvals
               /\ q.text = proposals[id].text
               /\ q.recalls_processed = proposals[id].recalls_processed
               /\ q.proposer = proposals[id].proposer
               /\ proposals[id].pledged \subseteq q.pledged
               /\ q.pledged \subseteq proposals[id].pledged \union {p}
               /\ ~pledge => q.pledged = proposals[id].pledged
  <1> DEFINE pledged == IF pledge THEN proposals[id].pledged \union {p}
                        ELSE proposals[id].pledged
  <1>1. proposals[id] \in ProposalType
    BY DEF ProposalsInductive, ProposalsTypeOK
  <1>2. /\ pledged \in SUBSET Lenders
        /\ proposals[id].pledged \subseteq pledged
        /\ pledged \subseteq proposals[id].pledged \union {p}
        /\ ~pledge => pledged = proposals[id].pledged
    BY <1>1 DEF ProposalType
  <1>3. WithPledge(id, p, pledge) = [proposals[id] EXCEPT !.pledged = pledged]
    BY DEF WithPledge
  <1> HIDE DEF pledged
  <1> QED  BY <1>1, <1>2, <1>3 DEF ProposalType

LEMMA ApprovedIsGood ==
    ASSUME ProposalsInductive, NEW id \in Ids, NEW p \in Parties,
           NEW pledge \in BOOLEAN, pledge => p \in Lenders,
           p \in proposals[id].participants, p \notin proposals[id].voted
    PROVE  LET q == Approved(id, p, pledge)
           IN  /\ GoodProposal(q)
               /\ q.participants = proposals[id].participants
               /\ q.voted = proposals[id].voted \union {p}
               /\ q.text = proposals[id].text
               /\ q.recalls_processed = proposals[id].recalls_processed
               /\ proposals[id].pledged \subseteq q.pledged
               /\ q.pledged = WithPledge(id, p, pledge).pledged
  <1> DEFINE w == WithPledge(id, p, pledge)
             voted == w.voted \union {p}
             number == w.approvals + 1
             q == Approved(id, p, pledge)
  <1>1. /\ w \in ProposalType
        /\ w.participants = proposals[id].participants
        /\ w.voted = proposals[id].voted
        /\ w.approvals = proposals[id].approvals
        /\ w.text = proposals[id].text
        /\ w.recalls_processed = proposals[id].recalls_processed
        /\ proposals[id].pledged \subseteq w.pledged
    BY WithPledgeIs
  <1>2. q = [w EXCEPT !.voted = voted, !.approvals = number]
    BY DEF Approved
  <1> HIDE DEF w
  <1>3. /\ proposals[id].voted \subseteq proposals[id].participants
        /\ w.approvals = Cardinality(proposals[id].voted)
        /\ proposals[id].participants # {} =>
              proposals[id].text \in ProposedTerms
    BY <1>1 DEF ProposalsInductive, VotesAreCounted
  <1>4. voted \in SUBSET Parties /\ number \in Nat
    BY <1>1 DEF ProposalType
  <1>5. number = Cardinality(voted)
    <2>1. IsFiniteSet(w.voted)  BY <1>1, PartiesAreFinite DEF ProposalType
    <2>2. Cardinality(w.voted \union {p}) = Cardinality(w.voted) + 1
      BY <1>1, <2>1, FS_AddElement
    <2> QED  BY <1>1, <1>3, <2>2
  <1> HIDE DEF voted, number, q
  <1>6. /\ q \in ProposalType /\ q.voted = voted /\ q.approvals = number
        /\ q.participants = w.participants /\ q.text = w.text
        /\ q.recalls_processed = w.recalls_processed
        /\ q.pledged = w.pledged
    BY <1>1, <1>2, <1>4 DEF ProposalType
  <1>7. voted = proposals[id].voted \union {p}  BY <1>1 DEF voted
  <1>8. GoodProposal(q)
    BY <1>1, <1>3, <1>5, <1>6, <1>7 DEF GoodProposal
  <1> QED  BY <1>1, <1>6, <1>7, <1>8 DEF q, w

(* Pledges are made by lenders who have accounts.                          *)
LEMMA WithPledgeIsKnown ==
    ASSUME ProposalsInductive, NEW id \in Ids, NEW p, NEW pledge \in BOOLEAN,
           pledge => p \in Known
    PROVE  WithPledge(id, p, pledge).pledged \subseteq Known
  <1>1. pledge => p \in Lenders  BY DEF Known
  <1>2. /\ WithPledge(id, p, pledge).pledged \subseteq
             proposals[id].pledged \union {p}
        /\ ~pledge => WithPledge(id, p, pledge).pledged =
                        proposals[id].pledged
    BY <1>1, WithPledgeIs
  <1>3. proposals[id].pledged \subseteq Known
    BY DEF ProposalsInductive, PledgersAreKnown
  <1> QED  BY <1>2, <1>3

LEMMA ApproveKeeps ==
    ASSUME ProposalsInductive, NEW id \in Ids, NEW p \in Parties,
           NEW pledge \in BOOLEAN, Approve(id, p, pledge)
    PROVE  ProposalsInductive'
  <1> DEFINE q == Approved(id, p, pledge)
  <1>1. /\ pledge => p \in Lenders /\ p \in Known
        /\ p \in proposals[id].participants /\ p \notin proposals[id].voted
        /\ has_active_proposal /\ IsPending(id) /\ Tallied(id, q)
        /\ UNCHANGED <<proposal_count, cooldown_until>>
    BY DEF Approve, MayVote, MayPledge, Approved, Known
  <1>2. /\ GoodProposal(q)
        /\ q.recalls_processed = proposals[id].recalls_processed
        /\ proposals[id].pledged \subseteq q.pledged
        /\ q.pledged \subseteq Known
    BY <1>1, ApprovedIsGood, WithPledgeIsKnown
  <1> HIDE DEF q
  <1>3. q.recalls_processed <= Cardinality(q.pledged \ contract.contributions)
    <2> DEFINE before == proposals[id].pledged \ contract.contributions
               after == q.pledged \ contract.contributions
    <2>1. /\ q.pledged \in SUBSET Lenders
          /\ q.recalls_processed \in Nat
      BY <1>2 DEF GoodProposal, ProposalType
    <2>2. before \in SUBSET after /\ IsFiniteSet(after)
          /\ Cardinality(after) \in Nat /\ Cardinality(before) \in Nat
      BY <1>2, <2>1, PartiesAreFinite
    <2>3. q.recalls_processed <= Cardinality(before)
      BY <1>2 DEF ProposalsInductive, RecallsAreCounted
    <2> HIDE DEF before, after
    <2>4. Cardinality(before) <= Cardinality(after)  BY <2>2, FS_Subset
    <2>5. q.recalls_processed <= Cardinality(after)
      BY <2>1, <2>2, <2>3, <2>4
    <2> QED  BY <2>5 DEF after
  <1>4. proposal_count' \in 0 .. MaxProposals
    BY <1>1 DEF ProposalsInductive, ProposalsTypeOK
  <1> QED  BY <1>1, <1>2, <1>3, <1>4, TalliedKeeps
LEMMA UnchangedLenders ==
    ASSUME AccountsAreThere, UNCHANGED vars
    PROVE  LendersMove /\ LendersStay /\ now' = now
  BY StayingMovesLenders DEF AccountsAreThere, LendersStay, vars

LEMMA ProposalIsGood ==
    ASSUME ProposalsInductive, NEW id \in Ids, proposals[id].status # "None"
    PROVE  GoodProposal(proposals[id]) /\ id <= proposal_count
  <1>1. GoodProposal(proposals[id])
    BY DEF ProposalsInductive, ProposalsTypeOK, VotesAreCounted, GoodProposal
  <1>2. id \in Int /\ proposal_count \in Int
    BY DEF ProposalsInductive, ProposalsTypeOK, Ids
  <1>3. ~(id > proposal_count)  BY DEF ProposalsInductive, LaterIdsAreFree
  <1> QED  BY <1>1, <1>2, <1>3

(* A proposal comes to an end, and the flag is taken down.                 *)
LEMMA EndKeepsProposals ==
    ASSUME ProposalsInductive, NEW id \in Ids, proposals[id].status # "None",
           NEW q, GoodProposal(q), q.recalls_processed = 0,
           q.pledged \subseteq Known,
           proposals' = [proposals EXCEPT ![id] = q],
           has_active_proposal' = FALSE,
           cooldown_until' \in [Parties -> Nat],
           UNCHANGED <<vars, proposal_count>>
    PROVE  ProposalsInductive'
  <1>1. LendersMove /\ now' = now
    BY UnchangedLenders DEF ProposalsInductive
  <1>2. id <= proposal_count  BY ProposalIsGood
  <1>3. now \in Nat /\ proposal_count \in 0 .. MaxProposals
    BY DEF ProposalsInductive, ProposalsTypeOK
  <1>4. q.recalls_processed <= Cardinality(q.pledged \ contract'.contributions)
    <2>1. q.pledged \in SUBSET Lenders  BY DEF GoodProposal, ProposalType
    <2>2. Cardinality(q.pledged \ contract'.contributions) \in Nat
      BY <2>1, PartiesAreFinite
    <2> QED  BY <2>2
  <1>5. /\ proposal_count' >= proposal_count
        /\ id <= proposal_count' /\ proposal_count' \in 0 .. MaxProposals
    BY <1>2, <1>3
  <1>6. now' \in Nat /\ has_active_proposal' \in BOOLEAN  BY <1>1, <1>3
  <1> QED  BY <1>1, <1>4, <1>5, <1>6, ProposalChanges

LEMMA FailKeeps ==
    ASSUME ProposalsInductive, NEW id \in Ids, IsPending(id),
           NEW p \in ProposalType, p.pledged \subseteq Known,
           NEW status \in Stages, Fail(id, p, status)
    PROVE  ProposalsInductive'
  <1> DEFINE q == DecidedWithPledges(p, status)
  <1>1. now \in Nat /\ cooldown_until \in [Parties -> Nat]
    BY DEF ProposalsInductive, ProposalsTypeOK
  <1>2. GoodProposal(q) /\ q.recalls_processed = 0 /\ q.pledged \subseteq Known
    BY <1>1, DecidedIsGood
  <1>3. cooldown_until' \in [Parties -> Nat]
    <2>1. now + ProposalCooldown \in Nat  BY <1>1, ProposalConstants
    <2> QED  BY <1>1, <2>1 DEF Fail
  <1>4. /\ proposals' = [proposals EXCEPT ![id] = q]
        /\ has_active_proposal' = FALSE /\ UNCHANGED <<vars, proposal_count>>
    BY DEF Fail
  <1>5. proposals[id].status # "None"  BY DEF IsPending
  <1> HIDE DEF q
  <1> QED  BY <1>2, <1>3, <1>4, <1>5, EndKeepsProposals

LEMMA RejectKeeps ==
    ASSUME ProposalsInductive, NEW id \in Ids, NEW p \in Parties,
           NEW pledge \in BOOLEAN, Reject(id, p, pledge)
    PROVE  ProposalsInductive'
  <1>1. /\ pledge => p \in Lenders /\ p \in Known
        /\ IsPending(id) /\ Fail(id, WithPledge(id, p, pledge), "Rejected")
    BY DEF Reject, MayVote, MayPledge, Known
  <1>2. /\ WithPledge(id, p, pledge) \in ProposalType
        /\ WithPledge(id, p, pledge).pledged \subseteq Known
    BY <1>1, WithPledgeIs, WithPledgeIsKnown
  <1> QED  BY <1>1, <1>2, FailKeeps DEF Stages

LEMMA ExpireKeeps ==
    ASSUME ProposalsInductive, NEW id \in Ids, ExpireTermProposal(id)
    PROVE  ProposalsInductive'
  <1>1. proposals[id] \in ProposalType /\ proposals[id].pledged \subseteq Known
    BY DEF ProposalsInductive, ProposalsTypeOK, PledgersAreKnown
  <1> QED  BY <1>1, FailKeeps DEF ExpireTermProposal, Stages

LEMMA CancelKeeps ==
    ASSUME ProposalsInductive, NEW id \in Ids, CancelTermProposal(id)
    PROVE  ProposalsInductive'
  <1>1. /\ now \in Nat /\ cooldown_until \in [Parties -> Nat]
        /\ proposals[id] \in ProposalType
    BY DEF ProposalsInductive, ProposalsTypeOK
  <1>2. "Cancelled" \in Stages  BY DEF Stages
  <1>3. /\ GoodProposal(Decided("Cancelled"))
        /\ Decided("Cancelled").recalls_processed = 0
        /\ Decided("Cancelled").pledged = {}
    BY <1>1, <1>2, DecidedIsGood
  <1> QED
    BY <1>1, <1>3, EndKeepsProposals DEF CancelTermProposal, IsPending

LEMMA CloseKeeps ==
    ASSUME ProposalsInductive, NEW id \in Ids, CloseProposalAccounts(id)
    PROVE  ProposalsInductive'
  <1>1. cooldown_until \in [Parties -> Nat]
    BY DEF ProposalsInductive, ProposalsTypeOK
  <1>2. proposals[id].status # "None"
    BY DEF CloseProposalAccounts, IsDecided
  <1>3. /\ proposals' = [proposals EXCEPT ![id] = NoProposal]
        /\ has_active_proposal' = FALSE
        /\ UNCHANGED <<vars, proposal_count, cooldown_until>>
    BY DEF CloseProposalAccounts
  <1> QED  BY <1>1, <1>2, <1>3, NoProposalIsGood, EndKeepsProposals

(* A recall that was pledged: one more is counted, and one more lender who *)
(* pledged is out of the loan.                                             *)
LEMMA ProcessMovesLenders ==
    ASSUME AccountsAreThere, NEW id, NEW l \in Lenders, NEW paid,
           ProcessProposalRecall(id, l, paid)
    PROVE  /\ LendersMove /\ LenderLeaves(l)
           /\ l \in contract.contributions
           /\ now' = now /\ UNCHANGED terms
  <1>1. /\ l \in contract.contributions
        /\ contribution' = [contribution EXCEPT ![l].is_refunded = TRUE]
        /\ contract' = [WithoutLender(l) EXCEPT
              !.recall_requested = contract.recall_requested,
              !.recall_requested_at = contract.recall_requested_at,
              !.recall_requested_by = contract.recall_requested_by]
        /\ UNCHANGED <<now, terms>>
    BY DEF ProcessProposalRecall, MayProcess
  <1>2. /\ "contributions" \in DOMAIN contract'
        /\ contract'.contributions = contract.contributions \ {l}
    BY <1>1, WithoutLenderLeaves
  <1> QED
    BY <1>1, <1>2, LeavingMovesLenders DEF LenderLeaves

LEMMA ProcessKeeps ==
    ASSUME ProposalsInductive, NEW id \in Ids, NEW l \in Lenders, NEW paid,
           ProcessProposalRecall(id, l, paid)
    PROVE  ProposalsInductive'
  <1> DEFINE p == proposals[id]
             count == p.recalls_processed + 1
             q == [p EXCEPT !.recalls_processed = count]
             before == p.pledged \ contract.contributions
             after == p.pledged \ contract'.contributions
  <1>1. /\ LendersMove /\ LenderLeaves(l) /\ l \in contract.contributions
        /\ now' = now
    BY ProcessMovesLenders DEF ProposalsInductive
  <1>2. /\ HasFailed(id) /\ l \in p.pledged
        /\ UNCHANGED <<proposal_count, has_active_proposal, cooldown_until>>
        /\ proposals' = [proposals EXCEPT ![id].recalls_processed = @ + 1]
    BY DEF ProcessProposalRecall, MayProcess
  <1>3. /\ now \in Nat /\ proposals \in [Ids -> ProposalType]
        /\ proposal_count \in 0 .. MaxProposals
        /\ has_active_proposal \in BOOLEAN
        /\ cooldown_until \in [Parties -> Nat]
    BY DEF ProposalsInductive, ProposalsTypeOK
  <1>4. proposals' = [proposals EXCEPT ![id] = q]  BY <1>2, <1>3
  <1>5. GoodProposal(p) /\ id <= proposal_count
    BY <1>2, ProposalIsGood DEF HasFailed
  <1>6. /\ p.pledged \in SUBSET Lenders /\ p.recalls_processed \in Nat
        /\ p.pledged \subseteq Known
    BY <1>5 DEF GoodProposal, ProposalType, ProposalsInductive, PledgersAreKnown
  <1>7. p.recalls_processed <= Cardinality(before)
    BY DEF ProposalsInductive, RecallsAreCounted
  <1>8. /\ after = before \union {l} /\ l \notin before
    BY <1>1, <1>2, <1>6 DEF LenderLeaves
  <1>9. IsFiniteSet(before) /\ Cardinality(before) \in Nat
    BY <1>6, PartiesAreFinite
  <1> HIDE DEF p, before, after, q
  <1>10. count <= Cardinality(after)
    <2>1. Cardinality(after) = Cardinality(before) + 1
      BY <1>8, <1>9, FS_AddElement
    <2> QED  BY <1>6, <1>7, <1>9, <2>1
  <1>11. count \in Nat  BY <1>6
  <1> HIDE DEF count
  <1>12. /\ q \in ProposalType /\ q.voted = p.voted
         /\ q.participants = p.participants /\ q.approvals = p.approvals
         /\ q.pledged = p.pledged /\ q.recalls_processed = count
         /\ q.status = p.status /\ q.text = p.text
    BY <1>5, <1>11 DEF GoodProposal, ProposalType, q
  <1>13. GoodProposal(q)  BY <1>5, <1>12 DEF GoodProposal
  <1>14. q.recalls_processed <= Cardinality(q.pledged \ contract'.contributions)
    BY <1>10, <1>12 DEF after
  <1>18. q.pledged \subseteq Known  BY <1>6, <1>12
  <1>15. has_active_proposal' => proposals'[proposal_count'].status = "Pending"
    <2>1. has_active_proposal => proposals[proposal_count].status = "Pending"
      BY DEF ProposalsInductive, FlagIsNotStuck, IsPending
    <2>2. p.status # "Pending"  BY <1>2 DEF HasFailed, p
    <2>3. proposal_count # id => proposals'[proposal_count] =
                                   proposals[proposal_count]
      BY <1>3, <1>4
    <2> QED  BY <1>2, <2>1, <2>2, <2>3 DEF p
  <1>16. /\ proposal_count' >= proposal_count
         /\ id <= proposal_count' /\ proposal_count' \in 0 .. MaxProposals
    BY <1>2, <1>3, <1>5
  <1>17. /\ now' \in Nat /\ has_active_proposal' \in BOOLEAN
         /\ cooldown_until' \in [Parties -> Nat]
    BY <1>1, <1>2, <1>3
  <1> QED
    BY <1>1, <1>4, <1>13, <1>14, <1>15, <1>16, <1>17, <1>18, ProposalChanges

LEMMA ProposalsInitIs == ProposalsInit => ProposalsInductive
  <1> SUFFICES ASSUME ProposalsInit PROVE ProposalsInductive  OBVIOUS
  <1>1. /\ now = 1 /\ terms \in Offers
        /\ proposals = [id \in Ids |-> NoProposal]
        /\ proposal_count = 0 /\ has_active_proposal = FALSE
        /\ cooldown_until = [p \in Parties |-> 0]
    BY DEF ProposalsInit, FundedInit
  <1>2. PICK stake \in [Lenders -> Amounts \union {0}] :
           StakesAre(stake) /\ contract = FundedContract(stake)
    BY DEF ProposalsInit, FundedInit
  <1>3. AccountsAreThere
    <2>1. /\ "contributions" \in DOMAIN contract
          /\ contract.contributions = {l \in Lenders : stake[l] > 0}
      BY <1>2 DEF FundedContract, Activated, NoContract
    <2>2. contribution = [l \in Lenders |->
             IF stake[l] = 0 THEN NoContribution
             ELSE [exists |-> TRUE, contribution_amount |-> stake[l],
                   is_refunded |-> FALSE, last_contributed_at |-> now]]
      BY <1>2 DEF StakesAre
    <2>3. AmendedFields \subseteq DOMAIN terms  BY <1>1, ProposalConstants
    <2>4. \A l \in Lenders :
             {"exists", "is_refunded"} \subseteq DOMAIN contribution[l]
      BY <2>2 DEF NoContribution
    <2>5. ASSUME NEW l \in contract.contributions
          PROVE  IsIn(contribution[l])
      <3>1. l \in Lenders /\ stake[l] # 0
        BY <2>1, ConstantsAreNumbers
      <3>2. contribution[l] = [exists |-> TRUE,
               contribution_amount |-> stake[l], is_refunded |-> FALSE,
               last_contributed_at |-> now]
        BY <2>2, <3>1
      <3> QED  BY <3>2 DEF IsIn
    <2>6. \A l \in contract.contributions : IsIn(contribution[l])  BY <2>5
    <2> QED  BY <2>1, <2>2, <2>3, <2>4, <2>6 DEF AccountsAreThere
  <1>4. ProposalsTypeOK
    <2>1. NoProposal \in ProposalType  BY NoProposalIsGood DEF GoodProposal
    <2>2. proposals \in [Ids -> ProposalType]  BY <1>1, <2>1
    <2>3. proposal_count \in 0 .. MaxProposals  BY <1>1, ProposalConstants
    <2>4. cooldown_until \in [Parties -> Nat]  BY <1>1
    <2> QED  BY <1>1, <2>2, <2>3, <2>4 DEF ProposalsTypeOK
  <1>7. VotesAreCounted
    BY <1>1, NoProposalIsGood DEF VotesAreCounted, GoodProposal
  <1>5. LaterIdsAreFree /\ FlagIsNotStuck
    BY <1>1, NoProposalIsGood DEF LaterIdsAreFree, FlagIsNotStuck
  <1>6. RecallsAreCounted
    BY <1>1, NoProposalIsGood, FS_EmptySet DEF RecallsAreCounted
  <1>8. PledgersAreKnown  BY <1>1, NoProposalIsGood DEF PledgersAreKnown
  <1> QED  BY <1>3, <1>4, <1>5, <1>6, <1>7, <1>8 DEF ProposalsInductive

LEMMA ProposalsNextInductive ==
    ProposalsInductive /\ [ProposalsNext]_allVars => ProposalsInductive'
  <1> SUFFICES ASSUME ProposalsInductive, [ProposalsNext]_allVars
               PROVE  ProposalsInductive'
    OBVIOUS
  <1>0. now \in Nat /\ AccountsAreThere
    BY DEF ProposalsInductive, ProposalsTypeOK
  <1>1. CASE ProposalStep
    BY <1>1, CreateProposalKeeps, ApproveKeeps, RejectKeeps, ExpireKeeps,
       CancelKeeps, CloseKeeps
       DEF ProposalStep
  <1>2. CASE ProcessPledges  BY <1>2, ProcessKeeps DEF ProcessPledges
  <1>3. CASE LoanStep
    <2>1. LendersMove /\ now' = now  BY <1>0, <1>3, LoanStepMovesLenders
    <2> QED  BY <1>0, <1>3, <2>1, NoProposalChanges DEF LoanStep
  <1>6. CASE TradeStep
    <2>1. LendersMove /\ UNCHANGED <<now, proposalVars>>
      BY <1>0, <1>6, TradeMovesLenders DEF TradeStep
    <2> QED  BY <1>0, <2>1, NoProposalChanges
  <1>4. CASE PassingTime
    <2>1. now' \in Nat  BY <1>0, <1>4 DEF PassingTime, Tick
    <2>2. LendersMove
      BY <1>0, <1>4, StayingMovesLenders DEF PassingTime, Tick, AccountsAreThere
    <2> QED  BY <1>4, <2>1, <2>2, NoProposalChanges DEF PassingTime
  <1>5. CASE UNCHANGED allVars
    BY <1>0, <1>5, UnchangedLenders, NoProposalChanges DEF allVars, vars
  <1> QED  BY <1>1, <1>2, <1>3, <1>4, <1>5, <1>6 DEF ProposalsNext

(* The proposals' records are well formed, their votes and recalls are     *)
(* counted right, and the flag is up only over a proposal that is pending. *)
THEOREM ProposalsInvariant == ProposalsSpec => []ProposalsInductive
  <1>1. ProposalsInit => ProposalsInductive  BY ProposalsInitIs
  <1>2. ProposalsInductive /\ [ProposalsNext]_allVars => ProposalsInductive'
    BY ProposalsNextInductive
  <1> QED  BY <1>1, <1>2, PTL DEF ProposalsSpec

(* FlagIsNotStuck: has_active_proposal never stays up without a proposal   *)
(* that can be voted on, which would bar all proposals and trades.         *)
THEOREM FlagIsNeverStuck == ProposalsSpec => []FlagIsNotStuck
  <1>1. ProposalsInductive => FlagIsNotStuck  BY DEF ProposalsInductive
  <1> QED  BY <1>1, ProposalsInvariant, PTL
-----------------------------------------------------------------------------
(* Once the pledges on a proposal have all been processed, none of those   *)
(* who made them is left in the loan.                                      *)
LEMMA ProcessedPledgesAreOut ==
    ASSUME ProposalsInductive, NEW id \in Ids,
           ~(proposals[id].recalls_processed <
               Cardinality(proposals[id].pledged))
    PROVE  proposals[id].pledged \intersect contract.contributions = {}
  <1> DEFINE pledged == proposals[id].pledged
             out == pledged \ contract.contributions
  <1>1. pledged \in SUBSET Lenders /\ proposals[id].recalls_processed \in Nat
    BY DEF ProposalsInductive, ProposalsTypeOK, ProposalType
  <1>2. /\ IsFiniteSet(pledged) /\ Cardinality(pledged) \in Nat
        /\ out \in SUBSET pledged /\ Cardinality(out) \in Nat
    BY <1>1, PartiesAreFinite
  <1>3. proposals[id].recalls_processed <= Cardinality(out)
    BY DEF ProposalsInductive, RecallsAreCounted
  <1> HIDE DEF out
  <1>4. Cardinality(out) <= Cardinality(pledged)  BY <1>2, FS_Subset
  <1>5. Cardinality(out) = Cardinality(pledged)  BY <1>1, <1>2, <1>3, <1>4
  <1>6. out = pledged  BY <1>2, <1>5, FS_Subset
  <1> QED  BY <1>6 DEF out

LEMMA FailureStays ==
    ASSUME ProposalsInductive, [ProposalsNext]_allVars, NEW id \in Ids,
           HasFailed(id),
           proposals[id].pledged \intersect contract.contributions # {}
    PROVE  HasFailed(id)'
  <1>1. /\ proposals \in [Ids -> ProposalType]
        /\ proposal_count \in 0 .. MaxProposals /\ id \in Int
        /\ proposals[id].status \in {"Rejected", "Expired"}
    BY DEF ProposalsInductive, ProposalsTypeOK, HasFailed, Ids
  <1>2. id <= proposal_count  BY <1>1, ProposalIsGood
  <1>3. ASSUME NEW i \in Ids, i # id, NEW q,
               proposals' = [proposals EXCEPT ![i] = q]
        PROVE  HasFailed(id)'
    BY <1>1, <1>3 DEF HasFailed
  <1>4. ASSUME UNCHANGED proposals PROVE HasFailed(id)'
    BY <1>4 DEF HasFailed
  <1>5. ASSUME NEW p, NEW text, NEW pledge, CreateTermProposal(p, text, pledge)
        PROVE  HasFailed(id)'
    <2>1. proposal_count + 1 \in Ids /\ proposal_count + 1 # id
      BY <1>1, <1>2, <1>5 DEF CreateTermProposal
    <2> QED  BY <1>3, <1>5, <2>1 DEF CreateTermProposal, Tallied
  <1>6. ASSUME NEW i \in Ids, NEW p, NEW pledge,
               Approve(i, p, pledge) \/ Reject(i, p, pledge)
        PROVE  HasFailed(id)'
    <2>1. i # id
      BY <1>1, <1>6 DEF Approve, Reject, MayVote, IsPending
    <2> QED  BY <1>3, <1>6, <2>1 DEF Approve, Reject, Tallied, Fail
  <1>7. ASSUME NEW i \in Ids, CancelTermProposal(i) \/ ExpireTermProposal(i)
        PROVE  HasFailed(id)'
    <2>1. i # id
      BY <1>1, <1>7 DEF CancelTermProposal, ExpireTermProposal, IsPending
    <2> QED
      BY <1>3, <1>7, <2>1 DEF CancelTermProposal, ExpireTermProposal, Fail
  <1>8. ASSUME NEW i \in Ids, CloseProposalAccounts(i)
        PROVE  HasFailed(id)'
    <2>1. i # id
      BY <1>8, ProcessedPledgesAreOut DEF CloseProposalAccounts
    <2> QED  BY <1>3, <1>8, <2>1 DEF CloseProposalAccounts
  <1>9. ASSUME NEW i \in Ids, NEW l, NEW paid, ProcessProposalRecall(i, l, paid)
        PROVE  HasFailed(id)'
    <2>1. proposals' = [proposals EXCEPT ![i].recalls_processed = @ + 1]
      BY <1>9 DEF ProcessProposalRecall
    <2>2. proposals'[id].status = proposals[id].status
      BY <1>1, <2>1 DEF ProposalType
    <2> QED  BY <1>1, <2>2 DEF HasFailed
  <1>10. CASE ProposalStep
    BY <1>5, <1>6, <1>7, <1>8, <1>10 DEF ProposalStep
  <1>11. CASE ProcessPledges  BY <1>9, <1>11 DEF ProcessPledges
  <1>12. CASE LoanStep \/ PassingTime \/ UNCHANGED allVars
    BY <1>4, <1>12 DEF LoanStep, PassingTime, allVars, proposalVars
  <1>13. CASE TradeStep
    BY <1>4, <1>13 DEF TradeStep, TradePosition, proposalVars
  <1> QED  BY <1>10, <1>11, <1>12, <1>13 DEF ProposalsNext

(* PledgesAreKept: a failed proposal is closed only when all lenders who   *)
(* pledged to leave are out of the loan, by whatever way they left it.     *)
THEOREM PledgesAreAlwaysKept == ProposalsSpec => PledgesAreKept
  <1>1. ProposalsInductive /\ [ProposalsNext]_allVars =>
          [\A id \in Ids :
              (/\ HasFailed(id)
               /\ proposals[id].pledged \intersect contract.contributions # {})
                  => HasFailed(id)']_allVars
    BY FailureStays
  <1> QED
    BY <1>1, ProposalsInvariant, PTL DEF ProposalsSpec, PledgesAreKept
-----------------------------------------------------------------------------
(* What Consent sees of the proposals.                                     *)
BallotOf(id, p) ==
    [name |-> id, text |-> p.text, electorate |-> p.participants,
     agreed |-> p.voted]

Balloted == {i \in Ids : proposals[i].status \in {"Pending", "Approved"}}

BallotBox == {BallotOf(id, proposals[id]) : id \in Balloted}

LEMMA BallotsAreNamed ==
    ASSUME NEW i, NEW j, NEW p, NEW q, BallotOf(i, p) = BallotOf(j, q)
    PROVE  i = j
  <1>1. BallotOf(i, p).name = i /\ BallotOf(j, q).name = j  BY DEF BallotOf
  <1> QED  BY <1>1

LEMMA BallotsChange ==
    ASSUME ProposalsInductive, NEW id \in Ids, NEW q,
           proposals' = [proposals EXCEPT ![id] = q]
    PROVE  /\ q.status \in {"Pending", "Approved"} =>
                BallotBox' = (BallotBox \ {BallotOf(id, proposals[id])})
                               \union {BallotOf(id, q)}
           /\ q.status \notin {"Pending", "Approved"} =>
                BallotBox' = BallotBox \ {BallotOf(id, proposals[id])}
  <1>1. /\ proposals'[id] = q
        /\ \A i \in Ids \ {id} : proposals'[i] = proposals[i]
    BY DEF ProposalsInductive, ProposalsTypeOK
  <1>2. /\ Balloted' \ {id} = Balloted \ {id}
        /\ id \in Balloted' <=> q.status \in {"Pending", "Approved"}
    BY <1>1 DEF Balloted
  <1>3. Balloted \subseteq Ids /\ Balloted' \subseteq Ids  BY DEF Balloted
  <1> DEFINE others == {BallotOf(i, proposals[i]) : i \in Balloted \ {id}}
  <1>4. BallotBox \ {BallotOf(id, proposals[id])} = others
    BY BallotsAreNamed DEF BallotBox
  <1>5. others = {BallotOf(i, proposals'[i]) : i \in Balloted' \ {id}}
    BY <1>1, <1>2, <1>3
  <1>6. BallotBox' = {BallotOf(i, proposals'[i]) : i \in Balloted'}
    BY DEF BallotBox
  <1>7. ASSUME id \in Balloted' PROVE BallotBox' = others \union {BallotOf(id, q)}
    BY <1>1, <1>5, <1>6, <1>7
  <1>8. ASSUME id \notin Balloted' PROVE BallotBox' = others
    <2>1. Balloted' \ {id} = Balloted'  BY <1>8
    <2> QED  BY <1>5, <1>6, <2>1
  <1> HIDE DEF others
  <1> QED  BY <1>2, <1>4, <1>7, <1>8

(* The steps of Consent, of the ballots and members seen here.             *)
BallotCounts(ballot, others) ==
    /\ BallotBox' = others \union {ballot}
    /\ AmendableTerms(terms') =
          IF ballot.agreed = ballot.electorate THEN ballot.text
          ELSE AmendableTerms(terms)
    /\ Participants' = Participants

LEMMA ConsentNextWhen ==
    ASSUME \/ \E p \in Participants :
                \/ \E text \in ProposedTerms \ {AmendableTerms(terms)},
                     name \in Ids :
                      Consented!Call(name, p, text)
                \/ Consented!Leave(p)
                \/ \E q \in Parties \ Participants : Consented!Admit(p, q)
           \/ \E ballot \in BallotBox :
                \/ \E p \in ballot.electorate \ ballot.agreed :
                      Consented!Agree(ballot, p)
                \/ Consented!Drop(ballot)
    PROVE  Consented!Next
  BY DEF Consented!Next, BallotBox, BallotOf, Balloted, PossibleTerms

LEMMA CallIsConsent ==
    ASSUME NEW name \in Ids, NEW p \in Parties, NEW text \in ProposedTerms,
           \A ballot \in BallotBox : ballot.name # name,
           p \in Participants, text # AmendableTerms(terms),
           BallotCounts([name |-> name, text |-> text,
                         electorate |-> Participants, agreed |-> {p}],
                        BallotBox)
    PROVE  Consented!Next
  <1>1. Consented!Call(name, p, text)
    BY DEF Consented!Call, Consented!Counted, BallotCounts, BallotBox,
           BallotOf, Balloted
  <1> QED  BY <1>1, ConsentNextWhen

LEMMA AgreeIsConsent ==
    ASSUME NEW ballot \in BallotBox, NEW p \in Parties,
           p \in ballot.electorate \ ballot.agreed,
           BallotCounts([ballot EXCEPT !.agreed = @ \union {p}],
                        BallotBox \ {ballot})
    PROVE  Consented!Next
  <1>1. Consented!Agree(ballot, p)
    BY DEF Consented!Agree, Consented!Counted, BallotCounts, BallotBox,
           BallotOf, Balloted
  <1> QED  BY <1>1, ConsentNextWhen

LEMMA DropIsConsent ==
    ASSUME NEW ballot \in BallotBox,
           BallotBox' = BallotBox \ {ballot},
           UNCHANGED terms, Participants' = Participants
    PROVE  Consented!Next
  <1>1. AmendableTerms(terms)' = AmendableTerms(terms)  BY DEF AmendableTerms
  <1>2. Consented!Drop(ballot)
    BY <1>1 DEF Consented!Drop, BallotBox, BallotOf, Balloted
  <1> QED  BY <1>2, ConsentNextWhen

LEMMA LeaveIsConsent ==
    ASSUME NEW p \in Participants,
           Participants' = Participants \ {p},
           UNCHANGED terms, BallotBox' = BallotBox
    PROVE  Consented!Next
  <1>1. AmendableTerms(terms)' = AmendableTerms(terms)  BY DEF AmendableTerms
  <1>2. Consented!Leave(p)
    BY <1>1 DEF Consented!Leave, BallotBox, BallotOf, Balloted
  <1> QED  BY <1>2, ConsentNextWhen

LEMMA AdmitIsConsent ==
    ASSUME NEW p \in Participants, NEW q \in Parties \ Participants,
           Participants' \in {Participants \union {q},
                              (Participants \ {p}) \union {q}},
           UNCHANGED terms, BallotBox' = BallotBox
    PROVE  Consented!Next
  <1>1. AmendableTerms(terms)' = AmendableTerms(terms)  BY DEF AmendableTerms
  <1>2. Consented!Admit(p, q)
    BY <1>1 DEF Consented!Admit, BallotBox, BallotOf, Balloted
  <1> QED  BY <1>2, ConsentNextWhen

LEMMA SameConsent ==
    ASSUME BallotBox' = BallotBox, UNCHANGED terms,
           Participants' = Participants
    PROVE  UNCHANGED Consented!consentVars
  <1>1. AmendableTerms(terms)' = AmendableTerms(terms)  BY DEF AmendableTerms
  <1> QED  BY <1>1 DEF Consented!consentVars, BallotBox, BallotOf, Balloted

LEMMA MembersStay ==
    ASSUME LendersStay
    PROVE  Participants' = Participants
  BY DEF LendersStay, Participants

(* Nobody in the loan is refunded.                                         *)
LEMMA ParticipantsAre ==
    /\ AccountsAreThere =>
          Participants = {Borrower} \union contract.contributions
    /\ AccountsAreThere' =>
          Participants' = {Borrower} \union contract'.contributions
  BY DEF AccountsAreThere, Participants, IsIn

LEMMA MemberLeaves ==
    ASSUME AccountsAreThere, AccountsAreThere',
           NEW l \in contract.contributions, LenderLeaves(l)
    PROVE  l \in Participants /\ Participants' = Participants \ {l}
  <1>1. l # Borrower  BY ProposalConstants DEF AccountsAreThere
  <1> QED  BY <1>1, ParticipantsAre DEF LenderLeaves

LEMMA MemberJoins ==
    ASSUME AccountsAreThere, AccountsAreThere',
           NEW p \in contract.contributions, NEW q \in Lenders,
           LenderJoins(p, q)
    PROVE  /\ p \in Participants /\ q \in Parties \ Participants
           /\ Participants' \in {Participants \union {q},
                                 (Participants \ {p}) \union {q}}
  <1>1. q \notin contract.contributions
    BY DEF AccountsAreThere, IsIn, LenderJoins
  <1>2. p # Borrower /\ q # Borrower  BY ProposalConstants DEF AccountsAreThere
  <1>3. /\ Participants = {Borrower} \union contract.contributions
        /\ Participants' = {Borrower} \union contract'.contributions
    BY ParticipantsAre
  <1>4. contract'.contributions \in
          {contract.contributions \union {q},
           (contract.contributions \ {p}) \union {q}}
    BY DEF LenderJoins
  <1>5. ({Borrower} \union contract.contributions) \ {p} =
          {Borrower} \union (contract.contributions \ {p})
    BY <1>2
  <1> QED  BY <1>1, <1>2, <1>3, <1>4, <1>5 DEF Parties

(* The approvals of a proposal are those of all its participants when they *)
(* are as many.                                                            *)
LEMMA AllHaveAgreed ==
    ASSUME NEW p, GoodProposal(p)
    PROVE  p.approvals >= Cardinality(p.participants)
             <=> p.voted = p.participants
  <1>1. p.voted \in SUBSET p.participants /\ p.participants \in SUBSET Parties
    BY DEF GoodProposal, ProposalType
  <1>2. /\ IsFiniteSet(p.participants) /\ Cardinality(p.participants) \in Nat
        /\ p.voted \in SUBSET Parties
    BY <1>1, PartiesAreFinite
  <1>3. Cardinality(p.voted) \in Nat  BY <1>2, PartiesAreFinite
  <1>4. /\ Cardinality(p.voted) <= Cardinality(p.participants)
        /\ Cardinality(p.participants) = Cardinality(p.voted) =>
              p.participants = p.voted
    BY <1>1, <1>2, FS_Subset
  <1>5. p.approvals = Cardinality(p.voted)  BY DEF GoodProposal
  <1> QED  BY <1>2, <1>3, <1>4, <1>5

LEMMA ApprovedTermsAre ==
    ASSUME AccountsAreThere, NEW text \in ProposedTerms,
           ApplyApprovedTerms(text)
    PROVE  AmendableTerms(terms') = text
  <1>1. /\ terms'.interest_rate = text.interest_rate
        /\ terms'.term_days = text.term_days
        /\ terms'.principal_frequency = text.principal_frequency
        /\ terms'.interest_payment_type = text.interest_payment_type
        /\ terms'.ltv_floor_bps = text.ltv_floor_bps
    BY DEF ApplyApprovedTerms, AccountsAreThere, AmendedFields
  <1>2. ValidProposal(text)  BY ProposalConstants
  <1>3. text = [interest_rate |-> text.interest_rate,
                term_days |-> text.term_days,
                principal_frequency |-> text.principal_frequency,
                interest_payment_type |-> text.interest_payment_type,
                ltv_floor_bps |-> text.ltv_floor_bps]
    BY <1>2 DEF ValidProposal
  <1>4. AmendableTerms(terms') =
          [interest_rate |-> terms'.interest_rate,
           term_days |-> terms'.term_days,
           principal_frequency |-> terms'.principal_frequency,
           interest_payment_type |-> terms'.interest_payment_type,
           ltv_floor_bps |-> terms'.ltv_floor_bps]
    BY DEF AmendableTerms
  <1> QED  BY <1>1, <1>3, <1>4

(* What Tallied does is what Consent calls counting a ballot.              *)
LEMMA TalliedIsCounted ==
    ASSUME ProposalsInductive, NEW id \in Ids, NEW p, GoodProposal(p),
           p.text \in ProposedTerms, Tallied(id, p)
    PROVE  BallotCounts(BallotOf(id, p),
                        BallotBox \ {BallotOf(id, proposals[id])})
  <1> DEFINE status == IF p.approvals >= Cardinality(p.participants)
                       THEN "Approved" ELSE "Pending"
             q == [p EXCEPT !.status = status]
             others == BallotBox \ {BallotOf(id, proposals[id])}
  <1>1. AccountsAreThere  BY DEF ProposalsInductive
  <1>2. proposals' = [proposals EXCEPT ![id] = q]  BY DEF Tallied
  <1>3. /\ q.status \in {"Pending", "Approved"}
        /\ BallotOf(id, q) = BallotOf(id, p)
    BY DEF GoodProposal, ProposalType, BallotOf
  <1> HIDE DEF status, q
  <1>4. BallotBox' = others \union {BallotOf(id, p)}
    BY <1>2, <1>3, BallotsChange
  <1>5. Participants' = Participants
    BY <1>1, TalliedLeavesLenders, MembersStay
  <1>6. AmendableTerms(terms') =
          IF p.voted = p.participants THEN p.text ELSE AmendableTerms(terms)
    <2>1. CASE p.approvals >= Cardinality(p.participants)
      <3>1. ApplyApprovedTerms(p.text)  BY <2>1 DEF Tallied
      <3> QED  BY <1>1, <2>1, <3>1, AllHaveAgreed, ApprovedTermsAre
    <2>2. CASE ~(p.approvals >= Cardinality(p.participants))
      <3>1. terms' = terms  BY <2>2 DEF Tallied
      <3> QED  BY <2>2, <3>1, AllHaveAgreed DEF AmendableTerms
    <2> QED  BY <2>1, <2>2
  <1>7. /\ BallotOf(id, p).agreed = p.voted
        /\ BallotOf(id, p).electorate = p.participants
        /\ BallotOf(id, p).text = p.text
    BY DEF BallotOf
  <1> HIDE DEF others
  <1>8. BallotCounts(BallotOf(id, p), others)
    BY <1>4, <1>5, <1>6, <1>7 DEF BallotCounts
  <1> QED  BY <1>8 DEF others

LEMMA CreateIsCall ==
    ASSUME ProposalsInductive, NEW p \in Parties, NEW text \in ProposedTerms,
           NEW pledge \in BOOLEAN, CreateTermProposal(p, text, pledge)
    PROVE  Consented!Next
  <1> DEFINE id == proposal_count + 1
             q == Proposed(p, text, pledge)
  <1>1. /\ p \in Participants
        /\ pledge => p \in Lenders
        /\ id \in Ids /\ text # AmendableTerms(terms) /\ Tallied(id, q)
    BY DEF CreateTermProposal, MayPledge, Proposed
  <1>2. /\ GoodProposal(q) /\ q.participants = Participants
        /\ q.voted = {p} /\ q.text = text
    BY <1>1, ProposedIsGood
  <1>3. BallotOf(id, q) = [name |-> id, text |-> text,
                           electorate |-> Participants, agreed |-> {p}]
    BY <1>2 DEF BallotOf
  <1>4. proposals[id].status = "None"
    BY <1>1 DEF ProposalsInductive, ProposalsTypeOK, LaterIdsAreFree
  <1> HIDE DEF id, q
  <1>5. \A ballot \in BallotBox : ballot.name # id
    BY <1>4 DEF BallotBox, BallotOf, Balloted
  <1>6. BallotBox = BallotBox \ {BallotOf(id, proposals[id])}
    <2>1. BallotOf(id, proposals[id]).name = id  BY DEF BallotOf
    <2> QED  BY <1>5, <2>1
  <1>7. BallotCounts(BallotOf(id, q), BallotBox)
    <2>1. BallotCounts(BallotOf(id, q),
                       BallotBox \ {BallotOf(id, proposals[id])})
      BY <1>1, <1>2, TalliedIsCounted
    <2> QED  BY <1>6, <2>1
  <1> QED  BY <1>1, <1>3, <1>5, <1>7, CallIsConsent
LEMMA ApproveIsAgree ==
    ASSUME ProposalsInductive, NEW id \in Ids, NEW p \in Parties,
           NEW pledge \in BOOLEAN, Approve(id, p, pledge)
    PROVE  Consented!Next
  <1> DEFINE q == Approved(id, p, pledge)
             ballot == BallotOf(id, proposals[id])
  <1>1. /\ pledge => p \in Lenders
        /\ p \in proposals[id].participants /\ p \notin proposals[id].voted
        /\ IsPending(id) /\ Tallied(id, q)
    BY DEF Approve, MayVote, MayPledge, Approved
  <1>2. /\ GoodProposal(q)
        /\ q.participants = proposals[id].participants
        /\ q.voted = proposals[id].voted \union {p}
        /\ q.text = proposals[id].text
    BY <1>1, ApprovedIsGood
  <1>3. q.text \in ProposedTerms  BY <1>1, <1>2 DEF GoodProposal
  <1> HIDE DEF q
  <1>4. ballot \in BallotBox
    BY <1>1 DEF IsPending, BallotBox, Balloted
  <1>5. BallotOf(id, q) = [ballot EXCEPT !.agreed = @ \union {p}]
    BY <1>2 DEF BallotOf
  <1>6. p \in ballot.electorate \ ballot.agreed  BY <1>1 DEF BallotOf
  <1>7. BallotCounts(BallotOf(id, q), BallotBox \ {ballot})
    BY <1>1, <1>2, <1>3, TalliedIsCounted
  <1> HIDE DEF ballot
  <1> QED  BY <1>4, <1>5, <1>6, <1>7, AgreeIsConsent

(* Proposals that are turned down, and carried ones that are filed, leave  *)
(* the box; it takes no notice of the others.                              *)
LEMMA EndIsDrop ==
    ASSUME ProposalsInductive, NEW id \in Ids, NEW q,
           q.status \notin {"Pending", "Approved"},
           proposals' = [proposals EXCEPT ![id] = q],
           UNCHANGED vars
    PROVE  [Consented!Next]_(Consented!consentVars)
  <1> DEFINE ballot == BallotOf(id, proposals[id])
  <1>1. Participants' = Participants /\ UNCHANGED terms
    <2>1. AccountsAreThere /\ UNCHANGED terms
      BY DEF ProposalsInductive, vars
    <2> QED  BY <2>1, UnchangedLenders, MembersStay
  <1>2. BallotBox' = BallotBox \ {ballot}  BY BallotsChange
  <1> HIDE DEF ballot
  <1>3. CASE ballot \in BallotBox  BY <1>1, <1>2, <1>3, DropIsConsent
  <1>4. CASE ballot \notin BallotBox
    <2>1. BallotBox' = BallotBox  BY <1>2, <1>4
    <2> QED  BY <1>1, <2>1, SameConsent
  <1> QED  BY <1>3, <1>4

LEMMA LendersMoveInConsent ==
    ASSUME AccountsAreThere, LendersMove, UNCHANGED terms,
           BallotBox' = BallotBox
    PROVE  [Consented!Next]_(Consented!consentVars)
  <1>1. CASE LendersStay  BY <1>1, MembersStay, SameConsent
  <1>2. CASE \E l \in contract.contributions : LenderLeaves(l)
    <2>1. PICK l \in contract.contributions : LenderLeaves(l)  BY <1>2
    <2>2. l \in Participants /\ Participants' = Participants \ {l}
      BY <2>1, MemberLeaves DEF LendersMove
    <2> QED  BY <2>2, LeaveIsConsent
  <1>3. CASE \E seller \in contract.contributions, buyer \in Lenders :
                LenderJoins(seller, buyer)
    <2>1. PICK p \in contract.contributions, q \in Lenders : LenderJoins(p, q)
      BY <1>3
    <2>2. /\ p \in Participants /\ q \in Parties \ Participants
          /\ Participants' \in {Participants \union {q},
                                (Participants \ {p}) \union {q}}
      BY <2>1, MemberJoins DEF LendersMove
    <2> QED  BY <2>2, AdmitIsConsent
  <1> QED  BY <1>1, <1>2, <1>3 DEF LendersMove

LEMMA ProcessIsLeave ==
    ASSUME ProposalsInductive, NEW id \in Ids, NEW l \in Lenders, NEW paid,
           ProcessProposalRecall(id, l, paid)
    PROVE  [Consented!Next]_(Consented!consentVars)
  <1> DEFINE p == proposals[id]
             count == p.recalls_processed + 1
             q == [p EXCEPT !.recalls_processed = count]
  <1>1. AccountsAreThere /\ proposals \in [Ids -> ProposalType]
    BY DEF ProposalsInductive, ProposalsTypeOK
  <1>2. LendersMove /\ UNCHANGED terms  BY <1>1, ProcessMovesLenders
  <1>3. proposals' = [proposals EXCEPT ![id] = q]
    BY <1>1 DEF ProcessProposalRecall
  <1>4. p \in ProposalType /\ p.status \notin {"Pending", "Approved"}
    BY <1>1 DEF ProcessProposalRecall, MayProcess, HasFailed
  <1>5. q.status \notin {"Pending", "Approved"}  BY <1>4 DEF ProposalType
  <1> HIDE DEF q
  <1>6. BallotBox' = BallotBox \ {BallotOf(id, p)}  BY <1>3, <1>5, BallotsChange
  <1>7. BallotOf(id, p) \notin BallotBox
    <2>1. id \notin Balloted  BY <1>4 DEF Balloted
    <2> QED  BY <2>1, BallotsAreNamed DEF BallotBox
  <1>8. BallotBox' = BallotBox  BY <1>6, <1>7
  <1> QED  BY <1>1, <1>2, <1>8, LendersMoveInConsent

LEMMA ProposalsNextConsented ==
    ProposalsInductive /\ [ProposalsNext]_allVars
      => [Consented!Next]_(Consented!consentVars)
  <1> SUFFICES ASSUME ProposalsInductive, [ProposalsNext]_allVars
               PROVE  [Consented!Next]_(Consented!consentVars)
    OBVIOUS
  <1>0. AccountsAreThere /\ proposals \in [Ids -> ProposalType] /\ now \in Nat
    BY DEF ProposalsInductive, ProposalsTypeOK
  <1>1. ASSUME NEW id \in Ids, NEW p \in ProposalType,
               NEW status \in {"Rejected", "Expired"}, Fail(id, p, status)
        PROVE  [Consented!Next]_(Consented!consentVars)
    <2> DEFINE q == DecidedWithPledges(p, status)
    <2>1. status \in Stages  BY DEF Stages
    <2>2. q.status \notin {"Pending", "Approved"}
      BY <1>0, <2>1, DecidedIsGood
    <2>3. proposals' = [proposals EXCEPT ![id] = q] /\ UNCHANGED vars
      BY <1>1 DEF Fail
    <2> HIDE DEF q
    <2> QED  BY <2>2, <2>3, EndIsDrop
  <1>2. ASSUME NEW id \in Ids, NEW p \in Parties, NEW pledge \in BOOLEAN,
               Reject(id, p, pledge)
        PROVE  [Consented!Next]_(Consented!consentVars)
    <2>1. /\ pledge => p \in Lenders
          /\ Fail(id, WithPledge(id, p, pledge), "Rejected")
      BY <1>2 DEF Reject, MayPledge
    <2>2. WithPledge(id, p, pledge) \in ProposalType  BY <2>1, WithPledgeIs
    <2> QED  BY <1>1, <2>1, <2>2
  <1>3. ASSUME NEW id \in Ids, ExpireTermProposal(id)
        PROVE  [Consented!Next]_(Consented!consentVars)
    BY <1>0, <1>1, <1>3 DEF ExpireTermProposal
  <1>4. ASSUME NEW id \in Ids, CancelTermProposal(id)
        PROVE  [Consented!Next]_(Consented!consentVars)
    <2> DEFINE q == Decided("Cancelled")
    <2>1. "Cancelled" \in Stages  BY DEF Stages
    <2>2. q.status \notin {"Pending", "Approved"}
      BY <1>0, <2>1, DecidedIsGood
    <2>3. proposals' = [proposals EXCEPT ![id] = q] /\ UNCHANGED vars
      BY <1>4 DEF CancelTermProposal
    <2> HIDE DEF q
    <2> QED  BY <2>2, <2>3, EndIsDrop
  <1>5. ASSUME NEW id \in Ids, CloseProposalAccounts(id)
        PROVE  [Consented!Next]_(Consented!consentVars)
    <2>1. NoProposal.status \notin {"Pending", "Approved"}
      BY NoProposalIsGood
    <2>2. proposals' = [proposals EXCEPT ![id] = NoProposal] /\ UNCHANGED vars
      BY <1>5 DEF CloseProposalAccounts
    <2> QED  BY <2>1, <2>2, EndIsDrop
  <1>6. CASE ProposalStep
    BY <1>2, <1>3, <1>4, <1>5, <1>6, CreateIsCall, ApproveIsAgree
       DEF ProposalStep
  <1>7. CASE ProcessPledges  BY <1>7, ProcessIsLeave DEF ProcessPledges
  <1>8. ASSUME UNCHANGED proposals PROVE BallotBox' = BallotBox
    BY <1>8 DEF BallotBox, Balloted
  <1>9. CASE LoanStep
    <2>1. UNCHANGED proposals  BY <1>9 DEF LoanStep, proposalVars
    <2>2. LendersMove /\ UNCHANGED terms  BY <1>0, <1>9, LoanStepMovesLenders
    <2> QED  BY <1>0, <1>8, <2>1, <2>2, LendersMoveInConsent
  <1>11. CASE TradeStep
    <2>1. LendersMove /\ UNCHANGED <<proposals, terms>>
      BY <1>0, <1>11, TradeMovesLenders DEF TradeStep, proposalVars
    <2> QED  BY <1>0, <1>8, <2>1, LendersMoveInConsent
  <1>10. CASE PassingTime \/ UNCHANGED allVars
    <2>1. UNCHANGED <<proposals, terms, contract, contribution>>
      BY <1>10 DEF PassingTime, Tick, proposalVars, allVars, vars
    <2>2. LendersMove
      BY <1>0, <2>1, StayingMovesLenders DEF AccountsAreThere
    <2> QED  BY <1>0, <1>8, <2>1, <2>2, LendersMoveInConsent
  <1> QED  BY <1>6, <1>7, <1>9, <1>10, <1>11 DEF ProposalsNext

LEMMA ProposalsInitConsented == ProposalsInit => Consented!Init
  <1> SUFFICES ASSUME ProposalsInit PROVE Consented!Init  OBVIOUS
  <1>1. /\ terms \in Offers /\ proposals = [id \in Ids |-> NoProposal]
    BY DEF ProposalsInit, FundedInit
  <1>2. Participants \subseteq Parties
    BY ProposalsInitIs, ParticipantsAreParties DEF ProposalsInductive
  <1>3. Balloted = {}  BY <1>1, NoProposalIsGood DEF Balloted
  <1> QED
    BY <1>1, <1>2, <1>3 DEF Consented!Init, Balloted, PossibleTerms

(* TermsChangeByConsent: with approvals counted against the number of      *)
(* those who were in the loan when the proposal was made, lenders leaving  *)
(* it meanwhile and others joining, whatever becomes of the flag, the terms*)
(* change only to a text that everybody who was in the loan when it was put*)
(* has agreed to.  Who joins later is bound by it without being asked.     *)
THEOREM TermsOnlyChangeByConsent == ProposalsSpec => TermsChangeByConsent
  <1>1. ProposalsInit => Consented!Init  BY ProposalsInitConsented
  <1>2. ProposalsInductive /\ [ProposalsNext]_allVars
          => [Consented!Next]_(Consented!consentVars)
    BY ProposalsNextConsented
  <1> QED
    BY <1>1, <1>2, ProposalsInvariant, PTL
       DEF ProposalsSpec, TermsChangeByConsent, Consented!Spec
=============================================================================
